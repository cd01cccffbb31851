--------------------------- MODULE TxSubmit_proofs ---------------------------
(***************************************************************************)
(* TxSubmit for any number of clients, calls and ticks: a timeout is       *)
(* final, and a caller that repeats only after a ContractError has its     *)
(* operation done at most once.                                            *)
(***************************************************************************)
EXTENDS TxSubmit, FiniteSetTheorems, TLAPS

\* The part of an attempt's life the properties turn on.
Sending == {"built", "signed"}
Waiting == {"look", "judge"}

\* Every call under way has its attempt; the deadline of a polling call is not
\* earlier than its transaction's time bound, so one that gave up finds the
\* bound passed.
TimersOrdered ==
  \A c \in Clients :
    /\ pc[c] # "idle" => tries[c] >= 1
    /\ pc[c] \in Waiting => tx[Attempt(c)].left <= wait[c]
    /\ pc[c] = "timedOut" => tx[Attempt(c)].left < 0

TimerInv == SubmitTypeOK /\ TimersOrdered

\* How Tick moves a timer.
LEMMA LessFacts ==
  ASSUME NEW x \in -1..Window
  PROVE  /\ Less(x) \in -1..Window
         /\ Less(x) <= x
         /\ x < 0 => Less(x) < 0
         /\ \A y \in -1..Window : x <= y => Less(x) <= Less(y)
  BY SubmitAssumption, SMT DEF Less

\* A client's step, for the client that takes it: its attempt is one of
\* Attempts as soon as it has begun one.
LEMMA AttemptIsOne ==
  ASSUME TimerInv, NEW c \in Clients, tries[c] >= 1
  PROVE  Attempt(c) \in Attempts
  BY DEF TimerInv, SubmitTypeOK, Attempt, Attempts

\* The initial state satisfies the invariant.
LEMMA InitTimer == Init => TimerInv
  <1> SUFFICES ASSUME Init PROVE TimerInv
    OBVIOUS
  <1> USE SubmitAssumption
  <1>1. SubmitTypeOK
    <2>1. tries \in [Clients -> 0..MaxTries] /\ wait \in [Clients -> -1..Window]
      BY SMT DEF Init
    <2>2. tx \in [Attempts -> [status : {"none", "built", "queued"} \cup OnLedger,
                               seq : Nat, left : -1..Window]]
      BY SMT DEF Init
    <2>3. rpc \in [seq : Nat, found : [Attempts -> {"notFound"} \cup OnLedger]]
      BY SMT DEF Init
    <2>4. pc \in [Clients -> {"idle", "built", "signed", "look", "judge"} \cup Ended]
      BY DEF Init
    <2> QED  BY <2>1, <2>2, <2>3, <2>4 DEF Init, SubmitTypeOK
  <1>2. TimersOrdered
    BY DEF Init, TimersOrdered, Waiting
  <1> QED  BY <1>1, <1>2 DEF TimerInv

\* Every step keeps the types.
LEMMA NextTypes == TimerInv /\ [Next]_vars => SubmitTypeOK'
  <1> SUFFICES ASSUME TimerInv, [Next]_vars PROVE SubmitTypeOK'
    OBVIOUS
  <1> USE SubmitAssumption DEF TimerInv, SubmitTypeOK, Ended, OnLedger
  <1>1. ASSUME NEW c \in Clients, Build(c) PROVE SubmitTypeOK'
    <2>1. <<c, tries[c] + 1>> \in Attempts
      BY <1>1 DEF Build, Attempts
    <2> QED  BY <1>1, <2>1 DEF Build
  <1>2. ASSUME NEW c \in Clients, Prepare(c) PROVE SubmitTypeOK'
    <2>1. wait' \in [Clients -> -1..Window]
      BY <1>2 DEF Prepare, End
    <2>2. pc' \in [Clients -> {"idle", "built", "signed", "look", "judge"}
                                 \cup Ended]
      BY <1>2 DEF Prepare, Goto, End
    <2> QED  BY <1>2, <2>1, <2>2 DEF Prepare
  <1>3. ASSUME NEW c \in Clients, Send(c) PROVE SubmitTypeOK'
    <2>1. tries[c] >= 1
      BY <1>3 DEF Send, TimersOrdered
    <2>2. Attempt(c) \in Attempts
      BY <2>1, AttemptIsOne
    <2>3. tx' \in [Attempts -> [status : {"none", "built", "queued"} \cup OnLedger,
                                seq : Nat, left : -1..Window]]
      BY <1>3, <2>2 DEF Send, SendLost, Enqueue
    <2>4. wait' \in [Clients -> -1..Window]
      BY <1>3 DEF Send, SendLost, End, Deadline
    <2>5. pc' \in [Clients -> {"idle", "built", "signed", "look", "judge"}
                                 \cup Ended]
      BY <1>3 DEF Send, SendLost, End, Goto
    <2> QED  BY <1>3, <2>3, <2>4, <2>5 DEF Send
  <1>4. ASSUME NEW c \in Clients, Look(c) \/ Judge(c) PROVE SubmitTypeOK'
    <2>1. wait' \in [Clients -> -1..Window]
      BY <1>4 DEF Look, Judge, End
    <2>2. pc' \in [Clients -> {"idle", "built", "signed", "look", "judge"}
                                 \cup Ended]
      BY <1>4 DEF Look, Judge, Goto, End
    <2> QED  BY <1>4, <2>1, <2>2 DEF Look, Judge
  <1>5. ASSUME NEW a \in Attempts, NEW outcome \in OnLedger, Include(a, outcome)
        PROVE  SubmitTypeOK'
    BY <1>5 DEF Include
  <1>6. CASE Ingest
    <2>1. rpc' \in [seq : Nat, found : [Attempts -> {"notFound"} \cup OnLedger]]
      BY <1>6 DEF Ingest
    <2> QED  BY <1>6, <2>1 DEF Ingest
  <1>7. CASE Tick
    <2>1. wait' \in [Clients -> -1..Window]
      BY <1>7, LessFacts DEF Tick
    <2>2. \A a \in Attempts :
             [tx[a] EXCEPT !.left = Less(@)] \in
               [status : {"none", "built", "queued"} \cup OnLedger, seq : Nat, left : -1..Window]
      BY LessFacts
    <2> QED  BY <1>7, <2>1, <2>2 DEF Tick
  <1>8. CASE UNCHANGED vars
    BY <1>8 DEF vars
  <1> QED
    BY <1>1, <1>2, <1>3, <1>4, <1>5, <1>6, <1>7, <1>8 DEF Next, ClientStep

\* Every step keeps the order of the two timers.
LEMMA NextTimers == TimerInv /\ [Next]_vars => TimersOrdered'
  <1> SUFFICES ASSUME TimerInv, [Next]_vars, NEW d \in Clients
               PROVE  /\ pc'[d] # "idle" => tries'[d] >= 1
                      /\ pc'[d] \in Waiting => tx'[<<d, tries'[d]>>].left <= wait'[d]
                      /\ pc'[d] = "timedOut" => tx'[<<d, tries'[d]>>].left < 0
    BY DEF TimersOrdered, Attempt
  <1> DEFINE Old == /\ pc[d] # "idle" => tries[d] >= 1
                    /\ pc[d] \in Waiting => tx[<<d, tries[d]>>].left <= wait[d]
                    /\ pc[d] = "timedOut" => tx[<<d, tries[d]>>].left < 0
             New == /\ pc'[d] # "idle" => tries'[d] >= 1
                    /\ pc'[d] \in Waiting => tx'[<<d, tries'[d]>>].left <= wait'[d]
                    /\ pc'[d] = "timedOut" => tx'[<<d, tries'[d]>>].left < 0
  <1>0. /\ Old
        /\ pc[d] # "idle" => <<d, tries[d]>> \in Attempts
    BY AttemptIsOne DEF TimerInv, TimersOrdered, Attempt
  <1> USE SubmitAssumption DEF TimerInv, SubmitTypeOK, Ended, OnLedger, Waiting
  <1>1. ASSUME NEW c \in Clients, Build(c) PROVE New
    <2>1. CASE c = d
      BY <1>1, <2>1 DEF Build
    <2>2. CASE c # d
      BY <1>0, <1>1, <2>2 DEF Build, Attempts
    <2> QED  BY <2>1, <2>2
  <1>2. ASSUME NEW c \in Clients, Prepare(c) PROVE New
    BY <1>0, <1>2 DEF Prepare, Goto, End
  <1>3. ASSUME NEW c \in Clients, Send(c) PROVE New
    <2>1. tries[c] >= 1 /\ Attempt(c) \in Attempts
      BY <1>3, AttemptIsOne DEF Send, TimersOrdered
    <2>2. \A a \in Attempts : tx'[a].left = tx[a].left
      BY <1>3, <2>1 DEF Send, SendLost, Enqueue
    <2>3. CASE c = d
      BY <1>3, <2>1, <2>2, <2>3 DEF Send, SendLost, End, Goto, Deadline, Attempt
    <2>4. CASE c # d
      BY <1>0, <1>3, <2>2, <2>4 DEF Send, SendLost, End, Goto
    <2> QED  BY <2>3, <2>4
  <1>4. ASSUME NEW c \in Clients, Look(c) \/ Judge(c) PROVE New
    BY <1>0, <1>4 DEF Look, Judge, Goto, End
  <1>5. ASSUME NEW a \in Attempts, NEW outcome \in OnLedger, Include(a, outcome)
        PROVE  New
    <2>1. \A b \in Attempts : tx'[b].left = tx[b].left
      BY <1>5 DEF Include
    <2> QED  BY <1>0, <1>5, <2>1 DEF Include
  <1>6. CASE Ingest
    BY <1>0, <1>6 DEF Ingest
  <1>7. CASE Tick
    <2>1. \A a \in Attempts : tx'[a].left = Less(tx[a].left)
      BY <1>7 DEF Tick
    <2>2. wait'[d] = Less(wait[d])
      BY <1>7 DEF Tick
    <2>3. CASE pc[d] = "idle"
      BY <1>7, <2>3 DEF Tick
    <2>4. CASE pc[d] # "idle"
      <3>1. tx[<<d, tries[d]>>].left \in -1..Window /\ wait[d] \in -1..Window
        BY <1>0, <2>4
      <3> QED  BY <1>0, <1>7, <2>1, <2>2, <2>4, <3>1, LessFacts DEF Tick
    <2> QED  BY <2>3, <2>4
  <1>8. CASE UNCHANGED vars
    BY <1>0, <1>8 DEF vars
  <1> QED
    BY <1>1, <1>2, <1>3, <1>4, <1>5, <1>6, <1>7, <1>8 DEF Next, ClientStep

\* The types and the order of the timers, for all parameters.
THEOREM SubmitInvariant == Spec => []TimerInv
  <1>1. TimerInv /\ [Next]_vars => TimerInv'
    BY NextTypes, NextTimers DEF TimerInv
  <1> QED  BY InitTimer, <1>1, PTL DEF Spec

\* A ledger includes a transaction only before its time bound, so a call that
\* timed out keeps what it has.
LEMMA StepTimedOut ==
  ASSUME TimerInv, [Next]_vars, NEW d \in Clients, pc[d] = "timedOut",
         tx'[Attempt(d)].status \in OnLedger
  PROVE  tx[Attempt(d)].status \in OnLedger
  <1>0. Attempt(d) \in Attempts /\ tx[Attempt(d)].left < 0
    BY AttemptIsOne DEF TimerInv, TimersOrdered
  <1> USE DEF TimerInv, SubmitTypeOK, OnLedger
  <1>1. ASSUME NEW c \in Clients, Build(c) PROVE tx[Attempt(d)].status \in OnLedger
    <2>1. <<c, tries[c] + 1>> # Attempt(d)
      BY SMT DEF Attempt
    <2> QED  BY <1>0, <1>1, <2>1 DEF Build, Attempts
  <1>2. ASSUME NEW c \in Clients, Send(c) PROVE tx[Attempt(d)].status \in OnLedger
    <2>1. Attempt(c) \in Attempts
      BY <1>2, AttemptIsOne DEF Send, TimersOrdered
    <2> QED  BY <1>0, <1>2, <2>1 DEF Send, SendLost, Enqueue
  <1>3. ASSUME NEW a \in Attempts, NEW outcome \in OnLedger, Include(a, outcome)
        PROVE  tx[Attempt(d)].status \in OnLedger
    BY <1>0, <1>3 DEF Include
  <1>4. CASE Tick
    BY <1>0, <1>4 DEF Tick
  <1>5. ASSUME UNCHANGED tx PROVE tx[Attempt(d)].status \in OnLedger
    BY <1>5
  <1> QED
    BY <1>1, <1>2, <1>3, <1>4, <1>5
       DEF Next, ClientStep, Prepare, Look, Judge, Ingest, vars

\* "Still pending after 60s" is final, whatever the length of the window and
\* however many calls there are.
THEOREM SubmitTimedOutIsFinal == Spec => TimedOutIsFinal
  <1>1. TimerInv /\ [Next]_vars =>
          [\A c \in Clients :
             pc[c] = "timedOut" =>
               (tx'[Attempt(c)].status \in OnLedger => tx[Attempt(c)].status \in OnLedger)]_vars
    BY StepTimedOut
  <1> QED  BY SubmitInvariant, <1>1, PTL DEF Spec, TimedOutIsFinal

-----------------------------------------------------------------------------
(* At most once *)

\* What the server shows of an attempt is what the ledger holds; attempts to
\* come are untouched; past ones, and one that ended in a ContractError, are
\* neither done nor waiting to be; one not yet sent is not queued.
OnceOrdered ==
  /\ \A a \in Attempts : rpc.found[a] \in OnLedger => tx[a].status = rpc.found[a]
  /\ \A c \in Clients : \A n \in 1..MaxTries :
       /\ n = tries[c] => pc[c] # "idle"
       /\ n > tries[c] => tx[<<c, n>>].status = "none"
       /\ n < tries[c] => tx[<<c, n>>].status \notin {"queued", "success"}
       /\ n = tries[c] /\ pc[c] \in Sending => tx[<<c, n>>].status = "built"
       /\ n = tries[c] /\ pc[c] = "contractError" =>
            tx[<<c, n>>].status \notin {"queued", "success"}

\* Nothing has been sent at the start.
LEMMA InitOnce == Init => OnceOrdered
  BY DEF Init, OnceOrdered, Attempts, OnLedger, Sending

\* The server's copy stays true: what it shows is never overwritten.
LEMMA NextShown ==
  ASSUME TimerInv, OnceOrdered, [Next]_vars
  PROVE  \A a \in Attempts : rpc'.found[a] \in OnLedger => tx'[a].status = rpc'.found[a]
  <1> USE DEF TimerInv, SubmitTypeOK, OnLedger
  <1>0. \A a \in Attempts : rpc.found[a] \in OnLedger => tx[a].status = rpc.found[a]
    BY DEF OnceOrdered
  <1>1. ASSUME NEW c \in Clients, Build(c)
        PROVE  \A a \in Attempts : rpc'.found[a] \in OnLedger => tx'[a].status = rpc'.found[a]
    <2>1. tries[c] + 1 \in 1..MaxTries /\ tries[c] + 1 > tries[c]
      BY <1>1, SubmitAssumption DEF Build
    <2>2. tx[<<c, tries[c] + 1>>].status = "none"
      BY <2>1 DEF OnceOrdered
    <2> QED  BY <1>0, <1>1, <2>2 DEF Build
  <1>2. ASSUME NEW c \in Clients, Send(c)
        PROVE  \A a \in Attempts : rpc'.found[a] \in OnLedger => tx'[a].status = rpc'.found[a]
    <2>1. tries[c] >= 1 /\ Attempt(c) \in Attempts
      BY <1>2, AttemptIsOne DEF Send, TimersOrdered
    <2>2. tries[c] \in 1..MaxTries
      BY <2>1, SubmitAssumption
    <2>3. tx[Attempt(c)].status = "built"
      BY <1>2, <2>2 DEF Send, OnceOrdered, Sending, Attempt
    <2> QED  BY <1>0, <1>2, <2>1, <2>3 DEF Send, SendLost, Enqueue
  <1>3. ASSUME NEW b \in Attempts, NEW outcome \in OnLedger, Include(b, outcome)
        PROVE  \A a \in Attempts : rpc'.found[a] \in OnLedger => tx'[a].status = rpc'.found[a]
    BY <1>0, <1>3 DEF Include
  <1>4. CASE Ingest
    BY <1>4 DEF Ingest
  <1>5. CASE Tick
    BY <1>0, <1>5 DEF Tick
  <1>6. ASSUME UNCHANGED <<tx, rpc>>
        PROVE  \A a \in Attempts : rpc'.found[a] \in OnLedger => tx'[a].status = rpc'.found[a]
    BY <1>0, <1>6
  <1> QED
    BY <1>1, <1>2, <1>3, <1>4, <1>5, <1>6
       DEF Next, ClientStep, Prepare, Look, Judge, vars

\* Every step keeps each client's attempts as OnceOrdered says, when nobody
\* repeats a call for another reason than a ContractError.
LEMMA NextAttempts ==
  ASSUME RetryOn \subseteq {"contractError"}, TimerInv, OnceOrdered, [Next]_vars,
         NEW d \in Clients, NEW n \in 1..MaxTries
  PROVE  /\ n = tries'[d] => pc'[d] # "idle"
         /\ n > tries'[d] => tx'[<<d, n>>].status = "none"
         /\ n < tries'[d] => tx'[<<d, n>>].status \notin {"queued", "success"}
         /\ n = tries'[d] /\ pc'[d] \in Sending => tx'[<<d, n>>].status = "built"
         /\ n = tries'[d] /\ pc'[d] = "contractError" =>
              tx'[<<d, n>>].status \notin {"queued", "success"}
  <1> DEFINE New ==
         /\ n = tries'[d] => pc'[d] # "idle"
         /\ n > tries'[d] => tx'[<<d, n>>].status = "none"
         /\ n < tries'[d] => tx'[<<d, n>>].status \notin {"queued", "success"}
         /\ n = tries'[d] /\ pc'[d] \in Sending => tx'[<<d, n>>].status = "built"
         /\ n = tries'[d] /\ pc'[d] = "contractError" =>
              tx'[<<d, n>>].status \notin {"queued", "success"}
  <1>0. /\ n = tries[d] => pc[d] # "idle"
        /\ n > tries[d] => tx[<<d, n>>].status = "none"
        /\ n < tries[d] => tx[<<d, n>>].status \notin {"queued", "success"}
        /\ n = tries[d] /\ pc[d] \in Sending => tx[<<d, n>>].status = "built"
        /\ n = tries[d] /\ pc[d] = "contractError" =>
             tx[<<d, n>>].status \notin {"queued", "success"}
    BY DEF OnceOrdered
  <1>a. <<d, n>> \in Attempts /\ tries[d] \in Nat
    BY SubmitAssumption DEF Attempts, TimerInv, SubmitTypeOK
  <1>b. (n < tries[d] \/ n = tries[d] \/ n > tries[d]) /\ (n < tries[d] + 1 => n <= tries[d])
    BY ONLY <1>a, SMT
  <1> USE DEF TimerInv, SubmitTypeOK, Sending
  <1>1. ASSUME NEW c \in Clients, Build(c) PROVE New
    <2>1. CASE c = d
      <3>1. /\ tries'[d] = tries[d] + 1
            /\ pc'[d] = "built"
            /\ pc[d] = "idle" \/ pc[d] = "contractError"
        BY <1>1, <2>1 DEF Build
      <3>2. CASE n = tries[d] + 1
        BY <1>1, <1>a, <2>1, <3>1, <3>2 DEF Build
      <3>3. CASE n # tries[d] + 1
        <4>1. tx'[<<d, n>>] = tx[<<d, n>>]
          BY <1>1, <1>a, <2>1, <3>3 DEF Build
        <4>2. n = tries[d] => tx[<<d, n>>].status \notin {"queued", "success"}
          BY <1>0, <3>1
        <4>3. n > tries[d] + 1 => tx[<<d, n>>].status = "none"
          BY <1>0, <1>a
        <4>4. n < tries[d] + 1 => tx[<<d, n>>].status \notin {"queued", "success"}
          <5>1. n < tries[d] + 1 => n < tries[d] \/ n = tries[d]
            BY ONLY <1>a, SMT
          <5> QED  BY <1>0, <4>2, <5>1
        <4> QED  BY <3>1, <3>3, <4>1, <4>3, <4>4
      <3> QED  BY <3>2, <3>3
    <2>2. CASE c # d
      BY <1>0, <1>1, <1>a, <2>2 DEF Build
    <2> QED  BY <2>1, <2>2
  <1>2. ASSUME NEW c \in Clients, Prepare(c) PROVE New
    BY <1>0, <1>2 DEF Prepare, Goto, End
  <1>3. ASSUME NEW c \in Clients, Send(c) PROVE New
    <2>1. tries' = tries
      BY <1>3 DEF Send
    <2>2. CASE c = d
      <3>1. pc[d] = "signed"
        BY <1>3, <2>2 DEF Send
      <3>2. pc'[d] \notin Sending /\ pc'[d] # "idle"
        BY <1>3, <2>2 DEF Send, SendLost, End, Goto
      <3>3. n # tries[d] => tx'[<<d, n>>] = tx[<<d, n>>]
        BY <1>3, <1>a, <2>2 DEF Send, SendLost, Enqueue, Attempt
      <3>4. pc'[d] = "contractError" => tx' = tx
        BY <1>3, <2>2 DEF Send, SendLost, End, Goto
      <3> QED  BY <1>0, <1>a, <2>1, <3>1, <3>2, <3>3, <3>4
    <2>3. CASE c # d
      <3>1. tx'[<<d, n>>] = tx[<<d, n>>]
        BY <1>3, <1>a, <2>3 DEF Send, SendLost, Enqueue, Attempt
      <3>2. pc'[d] = pc[d]
        BY <1>3, <2>3 DEF Send, SendLost, End, Goto
      <3> QED  BY <1>0, <2>1, <3>1, <3>2
    <2> QED  BY <2>2, <2>3
  <1>4. ASSUME NEW c \in Clients, Look(c) PROVE New
    <2>1. tx' = tx /\ tries' = tries
      BY <1>4 DEF Look
    <2>2. CASE c = d
      <3>1. pc'[d] \notin Sending /\ pc'[d] # "idle"
        BY <1>4, <2>2 DEF Look, End, Goto
      <3>2. pc'[d] = "contractError" => rpc.found[Attempt(d)] = "failure"
        BY <1>4, <2>2 DEF Look, End, Goto
      <3>3. n = tries[d] /\ pc'[d] = "contractError" => tx[<<d, n>>].status = "failure"
        BY <1>a, <3>2 DEF OnceOrdered, OnLedger, Attempt
      <3> QED  BY <1>0, <2>1, <3>1, <3>3
    <2>3. CASE c # d
      BY <1>0, <1>4, <2>1, <2>3 DEF Look, End, Goto
    <2> QED  BY <2>2, <2>3
  <1>5. ASSUME NEW c \in Clients, Judge(c) PROVE New
    <2>1. tx' = tx /\ tries' = tries
      BY <1>5 DEF Judge
    <2> QED  BY <1>0, <1>5, <2>1 DEF Judge, End, Goto
  <1>6. ASSUME NEW a \in Attempts, NEW outcome \in OnLedger, Include(a, outcome)
        PROVE  New
    <2>1. CASE a = <<d, n>>
      <3>1. tx[<<d, n>>].status = "queued"
        BY <1>6, <2>1 DEF Include
      <3>2. ~(n > tries[d]) /\ ~(n < tries[d])
        BY <1>0, <3>1
      <3>3. n = tries[d] /\ pc[d] \notin Sending /\ pc[d] # "contractError"
        BY <1>0, <1>b, <3>1, <3>2
      <3> QED  BY <1>0, <1>6, <1>a, <3>3 DEF Include
    <2>2. CASE a # <<d, n>>
      BY <1>0, <1>6, <1>a, <2>2 DEF Include
    <2> QED  BY <2>1, <2>2
  <1>7. CASE Tick
    <2>1. tx'[<<d, n>>].status = tx[<<d, n>>].status
      BY <1>7, <1>a DEF Tick
    <2> QED  BY <1>0, <1>7, <2>1 DEF Tick
  <1>8. ASSUME UNCHANGED <<pc, tries, tx>> PROVE New
    BY <1>0, <1>8
  <1> QED
    BY <1>1, <1>2, <1>3, <1>4, <1>5, <1>6, <1>7, <1>8 DEF Next, ClientStep, Ingest, vars

\* At most one attempt of a client, the latest, can have succeeded.
LEMMA OnceSuffices == TimerInv /\ OnceOrdered => DoneAtMostOnce
  <1> SUFFICES ASSUME TimerInv, OnceOrdered, NEW c \in Clients
               PROVE  Cardinality({n \in 1..MaxTries : tx[<<c, n>>].status = "success"}) <= 1
    BY DEF DoneAtMostOnce
  <1> DEFINE Done == {n \in 1..MaxTries : tx[<<c, n>>].status = "success"}
  <1>1. ASSUME NEW n \in Done PROVE n = tries[c]
    <2>1. ~(n > tries[c]) /\ ~(n < tries[c])
      BY DEF OnceOrdered
    <2>2. n \in 1..MaxTries /\ tries[c] \in 0..MaxTries
      BY DEF TimerInv, SubmitTypeOK
    <2> QED  BY ONLY <2>1, <2>2, SubmitAssumption, SMT
  <1>2. IsFiniteSet({tries[c]}) /\ Cardinality({tries[c]}) = 1
    BY FS_Singleton
  <1>3. IsFiniteSet(Done) /\ Cardinality(Done) <= 1
    <2>1. IsFiniteSet(Done) /\ Cardinality(Done) <= Cardinality({tries[c]})
      <3>1. Done \subseteq {tries[c]}
        BY <1>1
      <3> QED  BY <1>2, <3>1, FS_Subset
    <2> QED  BY <1>2, <2>1
  <1> QED  BY <1>3

\* Whatever the network loses, delays or refuses, a caller that repeats a call
\* only after a ContractError never has its operation done twice.
THEOREM SubmitDoneAtMostOnce ==
  ASSUME RetryOn \subseteq {"contractError"}
  PROVE  Spec => []DoneAtMostOnce
  <1>1. TimerInv /\ OnceOrdered /\ [Next]_vars => OnceOrdered'
    BY NextShown, NextAttempts DEF OnceOrdered
  <1> QED  BY SubmitInvariant, InitOnce, <1>1, OnceSuffices, PTL DEF Spec
=============================================================================
