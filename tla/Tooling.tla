------------------------------ MODULE Tooling ------------------------------
(***************************************************************************)
(* The tools of one checkout: the patch log and its writers (Patchlog), and *)
(* the source tree with the tools that read it (RepoIndex).  The log, the   *)
(* cached index and the index document are three files no tool but their    *)
(* own writes, so a behaviour follows one of them: the "subject" its events *)
(* are about.                                                               *)
(***************************************************************************)
EXTENDS Patchlog, RepoIndex

CONSTANT MaxEvents      \* bound: edits, starts and kills

ASSUME EventBound == MaxEvents \in Nat

VARIABLES subject,   \* the file this behaviour is about
          left       \* the events still to come

checkoutVars == <<logVars, repoVars, subject, left>>

Subjects == {"log", "cache", "index"}

CheckoutInit == LogInit /\ RepoInit /\ subject \in Subjects /\ left = MaxEvents

CheckoutEvent ==
  /\ left > 0
  /\ left' = left - 1
  /\ UNCHANGED subject
  /\ \/ subject = "log"   /\ LogEvent                  /\ UNCHANGED repoVars
     \/ subject = "cache" /\ (TreeEvent \/ LoadEvent)  /\ UNCHANGED logVars
     \/ subject = "index" /\ (TreeEvent \/ IndexEvent) /\ UNCHANGED logVars

CheckoutStep ==
  /\ UNCHANGED <<subject, left>>
  /\ \/ AddStep /\ UNCHANGED repoVars
     \/ ToolStep /\ UNCHANGED logVars

CheckoutNext == CheckoutEvent \/ CheckoutStep

CheckoutSpec == CheckoutInit /\ [][CheckoutNext]_checkoutVars

\* Type correctness of the whole checkout.
CheckoutTypeOK == LogTypeOK /\ RepoTypeOK /\ subject \in Subjects /\ left \in 0..MaxEvents

=============================================================================
