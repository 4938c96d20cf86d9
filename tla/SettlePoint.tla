----------------------------- MODULE SettlePoint -----------------------------
(***************************************************************************)
(* What happens to a delivery at a settle point (src/settler.go,           *)
(* SettleOnReturn and SettleRefused), for a broker that carries out every  *)
(* verb it is sent.  The races between settle calls and a failing broker   *)
(* are the business of module Settler; here a settle is one step and the   *)
(* first one wins.                                                         *)
(***************************************************************************)

\* How the delivery's context settles: it carries no settler, an automatic
\* one (AutoSettle), or one the configuration settles itself.
Modes == {"none", "auto", "manual"}

\* DeliveryDisposition: what a subscriber's return says about the work.
Dispositions == {"handled", "deferred", "observed"}

Outcomes == {"open", "ack", "nack"}

Settle(mode, outcome, verdict) ==
    IF mode # "none" /\ outcome = "open" THEN verdict ELSE outcome

\* Mutant: a deferring callee's return is taken for the end of its work.
DeferralAcknowledges(mode, outcome, disposition, failed) ==
    IF disposition = "observed" THEN outcome
    ELSE IF failed THEN Settle(mode, outcome, "nack")
    ELSE IF mode = "auto" THEN Settle(mode, outcome, "ack")
    ELSE outcome

\* The outcome after a callee of that disposition returned: an observer says
\* nothing, an error refuses in any mode, and only an automatic delivery whose
\* callee has done the work is acknowledged.
SettleOnReturn(mode, outcome, disposition, failed) ==
    IF disposition = "observed" THEN outcome
    ELSE IF failed THEN Settle(mode, outcome, "nack")
    ELSE IF mode = "auto" /\ disposition # "deferred" THEN Settle(mode, outcome, "ack")
    ELSE outcome

\* The outcome after nothing ran: a refusal, whatever the mode.
SettleRefused(mode, outcome) == Settle(mode, outcome, "nack")
=============================================================================
