---------------------------- MODULE RequestSpec ----------------------------
(***************************************************************************)
(* What one API call is to the rest of the program: pretix processes it at *)
(* most once; a call that returned was processed, unless the answer was a  *)
(* redirect, which the caller cannot tell from success and which means     *)
(* that nothing was or will be done; nor will a call that was refused be;  *)
(* of a call that failed in any other way nothing is known, and it may     *)
(* still be processed later.  Approval.tla is written against this: its    *)
(* Send, PretixApplies, PretixRedirects, PretixRefuses and Answer are one  *)
(* call of this kind.                                                      *)
(***************************************************************************)
EXTENDS Naturals

CONSTANT Requests

VARIABLES call,        \* how each call stands for its caller
          processed    \* how often pretix processed it

specVars == <<call, processed>>

SpecInit == /\ call = [r \in Requests |-> "none"]
            /\ processed = [r \in Requests |-> 0]

Becomes(r, from, to) == /\ call[r] = from
                        /\ call' = [call EXCEPT ![r] = to]
                        /\ UNCHANGED processed

Invoke(r) == Becomes(r, "none", "open")

Process(r) == /\ call[r] \in {"open", "unknown"}
              /\ processed[r] = 0
              /\ processed' = [processed EXCEPT ![r] = 1]
              /\ UNCHANGED call

Return(r) == processed[r] = 1 /\ Becomes(r, "open", "ok")
Redirect(r) == processed[r] = 0 /\ Becomes(r, "open", "redirected")
Refuse(r) == processed[r] = 0 /\ Becomes(r, "open", "refused")
GiveUp(r) == Becomes(r, "open", "unknown")

SpecNext == \E r \in Requests : \/ Invoke(r) \/ Process(r)
                                \/ Return(r) \/ Redirect(r) \/ Refuse(r) \/ GiveUp(r)

AtMostOnceCall == SpecInit /\ [][SpecNext]_specVars
=============================================================================
