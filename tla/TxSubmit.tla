------------------------------ MODULE TxSubmit ------------------------------
(***************************************************************************)
(* The one write path of the SDK (packages/sdk/src/tx.ts, submit) and of   *)
(* the web app (submitTx.ts under useSubmit.ts): build on the account's    *)
(* sequence number, simulate, sign, send, poll until the transaction is    *)
(* found or 60 s have passed.  Clients are concurrent calls for one        *)
(* account, such as two buttons of the app: each wants one operation done  *)
(* once and may call again after an outcome in RetryOn.                    *)
(*                                                                         *)
(* External: the network, whose ledger includes a queued transaction only  *)
(* in sequence and before its time bound, and the RPC server, which shows  *)
(* the ledger with a lag.  Client and ledger clocks are taken to agree;    *)
(* time is kept as what is left of each timer, so it needs no bound.       *)
(***************************************************************************)
EXTENDS Integers, FiniteSets

CONSTANTS
  Clients,
  Window,          \* the 60 s of setTimeout(60) and of the deadline, in ticks
  MaxTries,        \* bound on the calls a client makes
  RetryOn          \* outcomes after which it calls again

ASSUME SubmitAssumption ==
  /\ Window \in Nat \ {0}
  /\ MaxTries \in Nat \ {0}
  /\ RetryOn \subseteq {"contractError", "timedOut", "error"}

VARIABLES
  pc,              \* where each client is in submit, or how the last call ended
  tries,           \* calls begun so far
  wait,            \* what is left until the client's deadline, -1 once passed
  tx,              \* [Attempts -> [status, seq, left]], left until the time bound
  seqno,           \* the account's sequence number on the ledger
  rpc              \* the RPC server's copy of seqno and of the outcomes

vars == <<pc, tries, wait, tx, seqno, rpc>>

Attempts == Clients \X (1..MaxTries)
Attempt(c) == <<c, tries[c]>>
OnLedger == {"success", "failure"}
Ended == {"confirmed", "contractError", "timedOut", "error"}

SubmitTypeOK ==
  /\ pc \in [Clients -> {"idle", "built", "signed", "look", "judge"} \cup Ended]
  /\ tries \in [Clients -> 0..MaxTries]
  /\ wait \in [Clients -> -1..Window]
  /\ tx \in [Attempts -> [status : {"none", "built", "queued"} \cup OnLedger,
                          seq : Nat, left : -1..Window]]
  /\ seqno \in Nat
  /\ rpc \in [seq : Nat, found : [Attempts -> {"notFound"} \cup OnLedger]]

-----------------------------------------------------------------------------
(* The caller's side.  A call ends through End, which drops its deadline.  *)

Goto(c, label) == pc' = [pc EXCEPT ![c] = label]

End(c, outcome) ==
  /\ pc' = [pc EXCEPT ![c] = outcome]
  /\ wait' = [wait EXCEPT ![c] = -1]

\* a call begins: the account's sequence as the RPC server knows it
Build(c) ==
  /\ pc[c] = "idle" \/ pc[c] \in RetryOn
  /\ tries[c] < MaxTries
  /\ tries' = [tries EXCEPT ![c] = @ + 1]
  /\ tx' = [tx EXCEPT ![<<c, tries[c] + 1>>] =
              [status |-> "built", seq |-> rpc.seq + 1, left |-> Window]]
  /\ pc' = [pc EXCEPT ![c] = "built"]
  /\ UNCHANGED <<wait, seqno, rpc>>

\* Simulate and sign.  Neither touches anything another call or the network
\* sees, so the two awaits are one step, of any duration.
Prepare(c) ==
  /\ pc[c] = "built"
  /\ \/ Goto(c, "signed") /\ UNCHANGED wait
     \/ End(c, "contractError")       \* the simulation reports a contract error
     \/ End(c, "error")               \* a call threw, or the wallet refused
  /\ UNCHANGED <<tries, tx, seqno, rpc>>

Enqueue(c) == tx' = [tx EXCEPT ![Attempt(c)].status = "queued"]

\* mutant: an answer that never came is taken for a refusal
SendErrorAsRefusal(c) == (Enqueue(c) \/ UNCHANGED tx) /\ End(c, "contractError")

\* sendTransaction threw: the network may or may not have the transaction
SendLost(c) == (Enqueue(c) \/ UNCHANGED tx) /\ End(c, "error")

\* mutant: a deadline one tick short of the transaction's time bound
WaitShort == Window - 1

Deadline == Window

\* Status ERROR ends the call; with PENDING the transaction is queued; with
\* TRY_AGAIN_LATER it is not, and the code polls for it all the same.
Send(c) ==
  /\ pc[c] = "signed"
  /\ \/ /\ Enqueue(c) \/ UNCHANGED tx
        /\ wait' = [wait EXCEPT ![c] = Deadline]
        /\ Goto(c, "look")
     \/ End(c, "contractError") /\ UNCHANGED tx
     \/ SendLost(c)
  /\ UNCHANGED <<tries, seqno, rpc>>

\* getTransaction
Look(c) ==
  /\ pc[c] = "look"
  /\ \/ rpc.found[Attempt(c)] = "notFound" /\ Goto(c, "judge") /\ UNCHANGED wait
     \/ rpc.found[Attempt(c)] = "success"  /\ End(c, "confirmed")
     \/ rpc.found[Attempt(c)] = "failure"  /\ End(c, "contractError")
     \/ End(c, "error")                \* getTransaction threw
  /\ UNCHANGED <<tries, tx, seqno, rpc>>

\* mutant: the deadline is computed anew in every round of the loop
JudgeAnew(c) ==
  /\ pc[c] = "judge"
  /\ Goto(c, "look")
  /\ wait' = [wait EXCEPT ![c] = Deadline]
  /\ UNCHANGED <<tries, tx, seqno, rpc>>

\* not found: past the deadline the call gives up, else it sleeps and looks again
Judge(c) ==
  /\ pc[c] = "judge"
  /\ \/ wait[c] < 0 /\ End(c, "timedOut")
     \/ wait[c] >= 0 /\ Goto(c, "look") /\ UNCHANGED wait
  /\ UNCHANGED <<tries, tx, seqno, rpc>>

-----------------------------------------------------------------------------
(* The network, and time *)

Include(a, outcome) ==
  /\ tx[a].status = "queued"
  /\ tx[a].left >= 0
  /\ tx[a].seq = seqno + 1
  /\ tx' = [tx EXCEPT ![a].status = outcome, ![a].left = -1]
  /\ seqno' = seqno + 1
  /\ UNCHANGED <<pc, tries, wait, rpc>>

Ingest ==
  /\ rpc' = [seq |-> seqno,
             found |-> [a \in Attempts |->
                          IF tx[a].status \in OnLedger THEN tx[a].status ELSE "notFound"]]
  /\ rpc' # rpc
  /\ UNCHANGED <<pc, tries, wait, tx, seqno>>

Less(left) == IF left < 0 THEN left ELSE left - 1

Tick ==
  /\ wait' = [c \in Clients |-> Less(wait[c])]
  /\ tx' = [a \in Attempts |-> [tx[a] EXCEPT !.left = Less(@)]]
  /\ <<wait, tx>>' # <<wait, tx>>
  /\ UNCHANGED <<pc, tries, seqno, rpc>>

-----------------------------------------------------------------------------
Init ==
  /\ pc = [c \in Clients |-> "idle"]
  /\ tries = [c \in Clients |-> 0]
  /\ wait = [c \in Clients |-> -1]
  /\ tx = [a \in Attempts |-> [status |-> "none", seq |-> 0, left |-> -1]]
  /\ seqno = 0
  /\ rpc = [seq |-> 0, found |-> [a \in Attempts |-> "notFound"]]

ClientStep(c) == Build(c) \/ Prepare(c) \/ Send(c) \/ Look(c) \/ Judge(c)

Next ==
  \/ \E c \in Clients : ClientStep(c)
  \/ \E a \in Attempts, outcome \in OnLedger : Include(a, outcome)
  \/ Ingest
  \/ Tick

Spec == Init /\ [][Next]_vars

\* The loop runs on and clocks advance.  Nothing is assumed of the signer, of
\* the caller, or of the network beyond that a poll is answered or throws.
SubmitFair ==
  WF_vars(Tick) /\ \A c \in Clients : WF_vars(Look(c)) /\ WF_vars(Judge(c))

-----------------------------------------------------------------------------
(* Properties *)

\* "still pending after 60s" is final: once a call has given up, its
\* transaction never makes it into a ledger any more, because the deadline,
\* taken after the send, is never earlier than the time bound, taken at build.
\* (What the ledger included before, and the RPC server had not yet shown,
\* stays.)
TimedOutIsFinal ==
  [][\A c \in Clients :
       pc[c] = "timedOut" =>
         (tx'[Attempt(c)].status \in OnLedger => tx[Attempt(c)].status \in OnLedger)]_vars

\* A caller that repeats a call only after a ContractError never has it done
\* twice, whatever is lost, late or refused on the way: every ContractError
\* means that nothing was done.
DoneAtMostOnce ==
  \A c \in Clients :
    Cardinality({n \in 1..MaxTries : tx[<<c, n>>].status = "success"}) <= 1

\* "Never silent": every call that has sent its transaction ends with an
\* outcome, also when the network drops or never queued the transaction.
SendEnds == \A c \in Clients : pc[c] \in {"look", "judge"} ~> pc[c] \in Ended
=============================================================================
