------------------------------ MODULE MailJobs ------------------------------
(***************************************************************************)
(* What the mail dispatcher promises of the mails it numbers: each is      *)
(* tried at most once and comes to exactly one end.                        *)
(***************************************************************************)
CONSTANT Mails          \* the numbers of the activity log

VARIABLE fate           \* where each mail stands

Ends == {"accepted", "failed"}

Init == fate = [m \in Mails |-> "none"]

Move(m, from, to) == fate[m] \in from /\ fate' = [fate EXCEPT ![m] = to]

Submit(m) == Move(m, {"none"}, "queued")
Refuse(m) == Move(m, {"none"}, "failed")
Start(m) == Move(m, {"none", "queued"}, "sending")
Cancel(m) == Move(m, {"queued"}, "failed")
Finish(m) == \E end \in Ends : Move(m, {"sending"}, end)

Next == \E m \in Mails : Submit(m) \/ Refuse(m) \/ Start(m) \/ Cancel(m) \/ Finish(m)

Spec == Init /\ [][Next]_fate
=============================================================================
