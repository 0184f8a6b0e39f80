--------------------------- MODULE MCPatchedProgram ---------------------------
(* Programs with up to two statements before the loop, a loop body of up to  *)
(* two, and up to one statement after it.                                    *)
EXTENDS PatchedProgram

Kinds == {"effect", "clear", "count", "trap"}

Simple(kind) == [kind |-> kind]
Loop(how, body) == [kind |-> "loop", how |-> how, body |-> body]

SeqsUpTo(S, n) == UNION {[1..m -> S] : m \in 0..n}

Bodies == SeqsUpTo(Kinds, 2)
Before == SeqsUpTo({Simple(kind) : kind \in {"effect", "clear", "trap"}}
                     \cup {Loop(how, <<>>) : how \in {"while1", "for"}}, 1)
            \cup {<<Simple("effect"), Simple("clear")>>}
Afterwards == {<<>>, <<Simple("effect")>>, <<Loop("while1", <<>>)>>, <<Loop("for", <<>>)>>}

\* Two statements in the body only if nothing else is out of the ordinary.
Shapes ==
  {shape \in [before : Before, how : {"while1", "for"}, body : Bodies,
              afterwards : Afterwards, twice : BOOLEAN] :
     Len(shape.body) = 2 => shape.how = "while1" /\ shape.afterwards = <<>> /\ ~shape.twice}

Sources ==
  {[main |-> shape.before \o <<Loop(shape.how, shape.body)>> \o shape.afterwards,
    commentedHead |-> shape.twice] : shape \in Shapes}
=============================================================================
