-------------------------- MODULE MCBrowserSession --------------------------
(* Instances of BrowserSession: browsers with and without Web Locks, and      *)
(* sessions in which calls are lost, pages close, users leave or a password   *)
(* changes.                                                                   *)
EXTENDS BrowserSession, TLC

Quiet == [pairs |-> 4, locks |-> TRUE, patient |-> TRUE, events |-> {}]
MCWorlds == {Quiet, [Quiet EXCEPT !.locks = FALSE]}
            \cup {[Quiet EXCEPT !.pairs = 3, !.events = e] : e \in {{"lose", "close"}, {"revoke", "mistake"}}}
            \cup {[Quiet EXCEPT !.pairs = 2, !.events = {"logout"}]}

\* Tabs and users are interchangeable.
Symmetry == Permutations(Tabs) \cup Permutations(Users)
=============================================================================
