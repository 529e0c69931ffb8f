------------------------------- MODULE SdFeed -------------------------------
(***************************************************************************)
(* What a service discovery queue promises: the source publishes states,   *)
(* and the consumer catches up with the last one published.  It may skip   *)
(* states but never sees one the source did not publish, nor goes back.    *)
(***************************************************************************)
CONSTANT States, NoState

VARIABLES published, seen

Init == published = NoState /\ seen = NoState

Publish == published' \in States /\ seen' = seen

CatchUp == seen' = published /\ published' = published

Next == Publish \/ CatchUp

Spec == Init /\ [][Next]_<<published, seen>>
=============================================================================
