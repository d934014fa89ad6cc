------------------------------- MODULE WithLock -------------------------------
(***************************************************************************)
(* What (with-lock KEY BODY) promises a program, with no manager, queue or *)
(* port in sight: the sections of a process nest, and a section begins     *)
(* only when no other process is in one that conflicts.  LockHomes         *)
(* implements it.                                                          *)
(***************************************************************************)
EXTENDS Naturals, Sequences, LockKeys

CONSTANT Pids

VARIABLE sections   \* by process: the requests of the sections it is in, outermost first

Init == sections = [p \in Pids |-> << >>]

Admits(p, r) ==
    \A q \in Pids \ {p} : \A n \in 1 .. Len(sections[q]) : ~Conflicts(r, sections[q][n])

Enter(p, r) ==
    /\ Admits(p, r)
    /\ sections' = [sections EXCEPT ![p] = Append(@, r)]

\* The innermost section ends, by its last form or by an exception.
Exit(p) ==
    /\ sections[p] # << >>
    /\ sections' = [sections EXCEPT ![p] = SubSeq(@, 1, Len(@) - 1)]

\* Processes are killed, or go with their scheduler: all of their sections end.
Cut(E) ==
    /\ E # {}
    /\ sections' = [p \in Pids |-> IF p \in E THEN << >> ELSE sections[p]]

Next ==
    \/ \E p \in Pids : (\E r \in Requests : Enter(p, r)) \/ Exit(p)
    \/ \E E \in SUBSET Pids : Cut(E)

Spec == Init /\ [][Next]_sections

-----------------------------------------------------------------------------

TypeOK == sections \in [Pids -> Seq(Requests)]

\* No two processes are in conflicting sections, whatever each has nested.
Exclusion ==
    \A p, q \in Pids : p # q =>
        \A m \in 1 .. Len(sections[p]), n \in 1 .. Len(sections[q]) :
            ~Conflicts(sections[p][m], sections[q][n])

=============================================================================
