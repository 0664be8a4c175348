---------------------------- MODULE ManagerProofs ----------------------------
(***************************************************************************)
(* Proof that leader election keeps all but one manager from reconciling,  *)
(* for any number of replicas and any durations that are Timely.           *)
(***************************************************************************)
EXTENDS Manager, TLAPS

\* The options are the flags, and the flags are numbers.
LEMMA OptionsType ==
  ASSUME TypeOK
  PROVE  /\ options.LeaderElection = flags.leaderElect
         /\ options.LeaseDuration = flags.leaseDuration
         /\ options.RenewDeadline = flags.renewDeadline
         /\ options.RetryPeriod = flags.retryPeriod
         /\ flags.leaderElect \in BOOLEAN
         /\ flags.leaseDuration \in Nat
         /\ flags.renewDeadline \in Nat
         /\ flags.retryPeriod \in Nat
         /\ GiveUp = flags.retryPeriod + flags.renewDeadline
         /\ GiveUp \in Nat /\ ReplyDelay \in Nat
  BY ManagerAssumption DEF TypeOK, options, Options, Flags, GiveUp

\* The flags never change, so neither do the options.
LEMMA OptionsFrame ==
  ASSUME flags' = flags
  PROVE  options' = options /\ GiveUp' = GiveUp
  BY DEF options, GiveUp

\* A process that ends leaves well typed variables.
LEMMA ExitType ==
  ASSUME TypeOK, NEW p \in Processes, Exit(p), exits' \in Nat
  PROVE  TypeOK'
  BY DEF TypeOK, Exit, Enter, Stages

\* Every step keeps the types.
LEMMA NextType == TypeOK /\ [Next]_vars => TypeOK'
  <1> SUFFICES ASSUME TypeOK, [Next]_vars PROVE TypeOK'
    OBVIOUS
  <1> USE DEF clocks
  <1>1. ASSUME NEW p \in Processes, Boot(p)
        PROVE  TypeOK'
    <2>1. CASE NewManager(p)
      BY <2>1 DEF TypeOK, NewManager, Enter, Stages
    <2>2. CASE SetupWithManager(p)
      BY <2>2 DEF TypeOK, SetupWithManager, Enter, Stages
    <2>3. CASE Start(p)
      <3>1. CASE Exit(p) /\ UNCHANGED exits
        BY <3>1, ExitType DEF TypeOK
      <3>2. CASE /\ \E s \in {"active", "candidate"} : Enter(p, s)
                 /\ UNCHANGED <<flags, holder, clocks, exits>>
        BY <3>2 DEF TypeOK, Enter, Stages
      <3> QED
        BY <2>3, <3>1, <3>2 DEF Start
    <2> QED
      BY <1>1, <2>1, <2>2, <2>3 DEF Boot
  <1>2. ASSUME NEW p \in Processes, Killed(p)
        PROVE  TypeOK'
    BY <1>2, ExitType DEF TypeOK, Killed
  <1>3. ASSUME NEW p \in Processes, Elect(p)
        PROVE  TypeOK'
    <2>1. CASE Observe(p)
      BY <2>1 DEF TypeOK, Observe
    <2>2. CASE Acquire(p) \/ Renew(p)
      <3>1. seen' \in [Processes -> BOOLEAN]
        BY <2>2 DEF Acquire, Renew, Record
      <3>2. waited' = waited \/ waited' = [waited EXCEPT ![p] = 0]
        BY <2>2 DEF Acquire, Renew
      <3>3. Record(p) /\ since' = since
        BY <2>2 DEF Acquire, Renew
      <3> QED
        BY <3>1, <3>2, <3>3 DEF TypeOK, Record
    <2>3. CASE Acquired(p) \/ Renewed(p) \/ Lost(p)
      <3>1. options.RetryPeriod \in Nat
        BY OptionsType
      <3> QED
        BY <2>3, <3>1 DEF TypeOK, Acquired, Renewed, Lost, CallEnds, Enter, Stages
    <2>4. CASE StepDown(p)
      BY <2>4, ExitType DEF TypeOK, StepDown
    <2> QED
      BY <1>3, <2>1, <2>2, <2>3, <2>4 DEF Elect
  <1>4. CASE Tick
    BY <1>4 DEF TypeOK, Tick, NoCall
  <1>5. CASE UNCHANGED vars
    BY <1>5 DEF TypeOK, vars
  <1> QED
    BY <1>1, <1>2, <1>3, <1>4, <1>5 DEF Next

\* The clocks of a well typed state are numbers.
LEMMA ClockTypes ==
  ASSUME TypeOK, NEW p \in Processes
  PROVE  /\ since[p] \in Nat /\ waited[p] \in Nat
         /\ pending[p] # NoCall => pending[p] \in Nat
  BY DEF TypeOK

\* A process that ends takes nothing from the others: either it was in the
\* lease, or it was not in the lease of the one that is.
LEMMA ExitStep ==
  ASSUME TypeOK, LeaseInv, NEW p \in Processes, Exit(p)
  PROVE  LeaseInv'
  <1>1. options' = options /\ GiveUp' = GiveUp /\ flags' = flags
    BY OptionsFrame DEF Exit
  <1> SUFFICES ASSUME flags.leaderElect, NEW l \in Processes
               PROVE  Leading(l)' /\ Awaiting(l)'
    BY <1>1 DEF LeaseInv
  <1>2. Leading(l) /\ Awaiting(l)
    BY DEF LeaseInv
  <1>3. CASE l = p
    BY <1>3 DEF TypeOK, Exit, Enter, Leading, Awaiting
  <1>4. CASE l # p
    <2>1. /\ stage'[l] = stage[l] /\ since'[l] = since[l] /\ pending'[l] = pending[l]
          /\ holder = l => holder' = l
          /\ \A q \in Processes : seen'[q] => seen[q] /\ waited'[q] = waited[q]
      BY <1>4 DEF TypeOK, Exit, Enter
    <2> QED
      BY <1>1, <1>2, <2>1 DEF Leading, Awaiting
  <1> QED
    BY <1>3, <1>4

\* A step of main that is not the end of the process changes its stage only.
LEMMA BootStep ==
  ASSUME TypeOK, LeaseInv, NEW p \in Processes, Boot(p)
  PROVE  LeaseInv'
  <1> USE DEF clocks
  <1>1. ASSUME NEW s \in {"manager", "controllers", "candidate"}, Enter(p, s),
               UNCHANGED <<flags, holder, clocks, exits>>
        PROVE  LeaseInv'
    <2>1. options' = options /\ GiveUp' = GiveUp
      BY <1>1, OptionsFrame
    <2>2. \A q \in Processes : stage'[q] = "active" => stage[q] = "active"
      BY <1>1 DEF TypeOK, Enter
    <2> QED
      BY <1>1, <2>1, <2>2 DEF LeaseInv, Leading, Awaiting
  <1>2. CASE NewManager(p) \/ SetupWithManager(p)
    BY <1>1, <1>2 DEF NewManager, SetupWithManager
  <1>3. CASE Start(p)
    <2>1. CASE ~options.LeaderElection /\ flags' = flags
      BY <2>1, OptionsType DEF LeaseInv
    <2>2. CASE Enter(p, "candidate") /\ UNCHANGED <<flags, holder, clocks, exits>>
      BY <1>1, <2>2
    <2>3. CASE Exit(p)
      BY <2>3, ExitStep
    <2> QED
      BY <1>3, <2>1, <2>2, <2>3 DEF Start
  <1> QED
    BY <1>2, <1>3 DEF Boot

\* When a process writes itself into the lease, and no other one is active or
\* waits for a reply, the others start to wait anew.
LEMMA RecordStep ==
  ASSUME TypeOK, LeaseInv, NEW p \in Processes, Record(p), UNCHANGED since,
         \A q \in Processes \ {p} : stage[q] # "active" /\ pending[q] = NoCall
  PROVE  LeaseInv'
  <1>1. options' = options /\ GiveUp' = GiveUp /\ flags' = flags
    BY OptionsFrame DEF Record
  <1> SUFFICES ASSUME flags.leaderElect, NEW l \in Processes
               PROVE  Leading(l)' /\ Awaiting(l)'
    BY <1>1 DEF LeaseInv
  <1>2. CASE l # p
    BY <1>2 DEF TypeOK, Record, Leading, Awaiting
  <1>3. CASE l = p
    <2>1. holder' = p /\ pending'[p] = 0 /\ \A q \in Processes \ {p} : ~seen'[q]
      BY DEF TypeOK, Record
    <2>2. Leading(p) /\ stage' = stage
      BY DEF LeaseInv, Record
    <2> QED
      BY <1>1, <1>3, <2>1, <2>2, OptionsType DEF Leading, Awaiting
  <1> QED
    BY <1>2, <1>3

\* A candidate that takes the lease has waited longer than any leader could
\* go without a renewal: there is no leader any more.
LEMMA AcquireStep ==
  ASSUME TypeOK, LeaseInv, Timely, NEW p \in Processes, Acquire(p)
  PROVE  LeaseInv'
  <1>1. CASE ~flags.leaderElect
    BY <1>1 DEF LeaseInv, Acquire, Record
  <1>2. CASE flags.leaderElect
    <2>1. ASSUME NEW l \in Processes \ {p}, stage[l] = "active" \/ pending[l] # NoCall
          PROVE  FALSE
      <3>1. Leading(l) /\ Awaiting(l)
        BY <1>2 DEF LeaseInv
      <3>2. holder = l
        BY <2>1, <3>1 DEF Leading, Awaiting
      <3>3. seen[p] /\ waited[p] >= flags.leaseDuration
        BY <3>2, OptionsType, ManagerAssumption DEF Acquire
      <3>4. flags.leaseDuration > flags.renewDeadline + flags.retryPeriod + ReplyDelay
        BY <1>2 DEF TypeOK, Timely
      <3>5. waited[p] <= GiveUp + ReplyDelay
        <4>1. CASE stage[l] = "active"
          BY <2>1, <3>1, <3>3, <4>1, ClockTypes, OptionsType DEF Leading
        <4>2. CASE pending[l] # NoCall
          BY <2>1, <3>1, <3>3, <4>2, ClockTypes, OptionsType DEF Awaiting
        <4> QED
          BY <2>1, <4>1, <4>2
      <3> QED
        BY <3>3, <3>4, <3>5, ClockTypes, OptionsType
    <2> QED
      BY <2>1, RecordStep DEF Acquire
  <1> QED
    BY <1>1, <1>2, OptionsType

\* A leader that renews is in the lease, so no other one is.
LEMMA RenewStep ==
  ASSUME TypeOK, LeaseInv, NEW p \in Processes, Renew(p)
  PROVE  LeaseInv'
  <1>1. flags.leaderElect /\ holder = p
    BY OptionsType DEF Renew
  <1>2. \A q \in Processes \ {p} : stage[q] # "active" /\ pending[q] = NoCall
    BY <1>1 DEF LeaseInv, Leading, Awaiting
  <1> QED
    BY <1>2, RecordStep DEF Renew

\* A reply: what the others have waited for is at most what it took.
LEMMA ReplyStep ==
  ASSUME TypeOK, LeaseInv, NEW p \in Processes, Acquired(p) \/ Renewed(p) \/ Lost(p)
  PROVE  LeaseInv'
  <1>1. options' = options /\ GiveUp' = GiveUp /\ flags' = flags
    BY OptionsFrame DEF Acquired, Renewed, Lost, CallEnds
  <1> SUFFICES ASSUME flags.leaderElect, NEW l \in Processes
               PROVE  Leading(l)' /\ Awaiting(l)'
    BY <1>1 DEF LeaseInv
  <1>2. Leading(l) /\ Awaiting(l)
    BY DEF LeaseInv
  <1>3. /\ pending[p] # NoCall /\ pending' = [pending EXCEPT ![p] = NoCall]
        /\ UNCHANGED <<holder, seen, waited>>
    BY DEF Acquired, Renewed, Lost, CallEnds
  <1>4. Awaiting(l)'
    BY <1>2, <1>3 DEF TypeOK, Awaiting
  <1>5. CASE stage'[l] = stage[l] /\ since'[l] = since[l]
    BY <1>1, <1>2, <1>3, <1>4, <1>5 DEF Leading
  <1>6. CASE l = p /\ since'[l] \in {0, options.RetryPeriod}
    <2>1. since'[l] \in Nat /\ since'[l] <= GiveUp
      BY <1>6, OptionsType
    <2>2. holder' = l /\ \A q \in Processes \ {l} : seen'[q] => waited'[q] <= ReplyDelay
      BY <1>2, <1>3, <1>6, ClockTypes, OptionsType DEF Awaiting
    <2>3. \A q \in Processes \ {l} : seen'[q] => waited'[q] <= since'[l] + ReplyDelay
      BY <1>3, <2>1, <2>2, ClockTypes, OptionsType
    <2> QED
      BY <1>1, <1>4, <2>1, <2>2, <2>3 DEF Leading
  <1>7. \/ stage'[l] = stage[l] /\ since'[l] = since[l]
        \/ l = p /\ since'[l] \in {0, options.RetryPeriod}
    BY DEF TypeOK, Acquired, Renewed, Lost, Enter
  <1> QED
    BY <1>5, <1>6, <1>7

\* The steps of the elector.
LEMMA ElectStep ==
  ASSUME TypeOK, LeaseInv, Timely, NEW p \in Processes, Elect(p)
  PROVE  LeaseInv'
  <1>1. CASE Observe(p)
    <2>1. options' = options /\ GiveUp' = GiveUp /\ flags' = flags
      BY <1>1, OptionsFrame DEF Observe
    <2> SUFFICES ASSUME flags.leaderElect, NEW l \in Processes
                 PROVE  Leading(l)' /\ Awaiting(l)'
      BY <2>1 DEF LeaseInv
    <2>2. Leading(l) /\ Awaiting(l)
      BY DEF LeaseInv
    <2>3. /\ UNCHANGED <<stage, holder, since, pending>>
          /\ \A q \in Processes : seen'[q] => waited'[q] = 0 \/ (seen[q] /\ waited'[q] = waited[q])
      BY <1>1 DEF TypeOK, Observe
    <2>4. /\ 0 <= since[l] + ReplyDelay
          /\ pending[l] # NoCall => 0 <= pending[l]
      BY ClockTypes, OptionsType
    <2> QED
      BY <2>1, <2>2, <2>3, <2>4 DEF Leading, Awaiting
  <1>2. CASE StepDown(p)
    BY <1>2, ExitStep DEF StepDown
  <1> QED
    BY <1>1, <1>2, AcquireStep, RenewStep, ReplyStep DEF Elect

\* While time passes a candidate's clock does not overtake the leader's.
LEMMA TickStep ==
  ASSUME TypeOK, LeaseInv, Tick
  PROVE  LeaseInv'
  <1>1. options' = options /\ GiveUp' = GiveUp /\ flags' = flags
    BY OptionsFrame DEF Tick
  <1> SUFFICES ASSUME flags.leaderElect, NEW l \in Processes
               PROVE  Leading(l)' /\ Awaiting(l)'
    BY <1>1 DEF LeaseInv
  <1>2. Leading(l) /\ Awaiting(l)
    BY DEF LeaseInv
  <1>3. /\ UNCHANGED <<stage, holder, seen>>
        /\ stage[l] = "active" => since'[l] = since[l] + 1 /\ since[l] < GiveUp
        /\ pending[l] = NoCall => pending'[l] = NoCall
        /\ pending[l] # NoCall => pending'[l] = pending[l] + 1 /\ pending[l] < ReplyDelay
    BY DEF TypeOK, Tick
  <1>4. \A q \in Processes : waited'[q] \in {waited[q], waited[q] + 1}
    BY DEF TypeOK, Tick
  <1>5. \A q \in Processes : waited[q] \in Nat
    BY ClockTypes
  <1>6. Leading(l)'
    BY <1>1, <1>2, <1>3, <1>4, <1>5, ClockTypes, OptionsType DEF Leading
  <1>7. Awaiting(l)'
    BY <1>2, <1>3, <1>4, <1>5, ClockTypes, OptionsType DEF Awaiting
  <1> QED
    BY <1>6, <1>7

\* The system starts well typed and without a leader.
LEMMA InitInv == Init => TypeOK /\ LeaseInv
  BY DEF Init, TypeOK, Stages, LeaseInv, Leading, Awaiting

\* Whoever is in the lease, as a leader or waiting for a reply, gives up before
\* another one's wait is over, as long as replies take at most ReplyDelay
\* (elector and options of main).
THEOREM LeaseInvariant ==
  ASSUME Timely
  PROVE  Spec => []LeaseInv
  <1>1. TypeOK /\ LeaseInv /\ [Next]_vars => (TypeOK /\ LeaseInv)'
    <2> SUFFICES ASSUME TypeOK, LeaseInv, [Next]_vars PROVE LeaseInv'
      BY NextType
    <2>1. ASSUME NEW p \in Processes, Killed(p)
          PROVE  LeaseInv'
      BY <2>1, ExitStep DEF Killed
    <2>2. CASE UNCHANGED vars
      <3>1. options' = options /\ GiveUp' = GiveUp /\ flags' = flags
        BY <2>2, OptionsFrame DEF vars
      <3> QED
        BY <2>2, <3>1 DEF LeaseInv, Leading, Awaiting, vars, clocks
    <2> QED
      BY <2>1, <2>2, BootStep, ElectStep, TickStep DEF Next
  <1> QED
    BY <1>1, InitInv, PTL DEF Spec

\* With --leader-elect two managers are never active at the same time, whatever
\* calls fail, replies are lost and processes die, if the lease is longer than
\* the renew deadline, the retry period and the slowest reply together.
THEOREM OnlyOneActive ==
  ASSUME Timely
  PROVE  Spec => []OneActive
  <1>1. LeaseInv => OneActive
    BY DEF LeaseInv, Leading, OneActive
  <1> QED
    BY <1>1, LeaseInvariant, PTL

=============================================================================
