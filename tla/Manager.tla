------------------------------ MODULE Manager --------------------------------
(***************************************************************************)
(* The manager process (main.go): it parses its flags, sets up a manager   *)
(* and the two controllers, and runs them, either at once or, with         *)
(* --leader-elect, when it holds the lease.  Any failure, and the loss of  *)
(* the lease, ends the process with os.Exit(1); it is started again by     *)
(* whoever runs it.  KubemarkMachine and KubemarkMachineTemplate have one  *)
(* active manager at a time: this module is about whether that is so.      *)
(*                                                                         *)
(* Time passes in ticks (5 seconds with the default flags).  A process may *)
(* lose touch with the API server for as long as it likes, but its own     *)
(* timers fire in time.  A write to the lease and its reply are two steps: *)
(* the others count from the write, the writer from the reply.             *)
(***************************************************************************)
EXTENDS Integers

CONSTANTS Processes,   \* replicas of the manager, each started again when it exits
          FlagChoices, \* command lines; all replicas have the same
          ReplyDelay,  \* ticks a write to the lease may go without its reply
          MaxExits     \* bound: crashes, signals and failures of the set-up

Flags == [leaderElect : BOOLEAN, leaseDuration : Nat, renewDeadline : Nat, retryPeriod : Nat]

ASSUME ManagerAssumption ==
    /\ {"nobody", "departed"} \intersect Processes = {}
    /\ FlagChoices \subseteq Flags
    /\ ReplyDelay \in Nat
    /\ MaxExits \in Nat

VARIABLES
    flags,   \* the command line
    stage,   \* [Processes -> how far main has come]
    holder,  \* who is in the lease: "nobody" when there is none, "departed"
             \* when it is a process that has exited (identities are not reused)
    seen,    \* [Processes -> is the record the process observed the current one?]
    waited,  \* [Processes -> ticks since it observed the record]
    since,   \* [Processes -> ticks since the reply to its last renewal]
    pending, \* [Processes -> ticks since a write whose reply has not come, or NoCall]
    exits

clocks == <<seen, waited, since, pending>>
vars == <<flags, stage, holder, clocks, exits>>

\* Variants with a defect: --leader-elect is not passed on; two durations are
\* mixed up.
OptionsWithoutElection(f) ==
    [LeaderElection |-> FALSE, LeaseDuration |-> f.leaseDuration,
     RenewDeadline |-> f.renewDeadline, RetryPeriod |-> f.retryPeriod]
OptionsMixedUp(f) ==
    [LeaderElection |-> f.leaderElect, LeaseDuration |-> f.renewDeadline,
     RenewDeadline |-> f.leaseDuration, RetryPeriod |-> f.retryPeriod]

\* The options main makes of its flags.
Options(f) ==
    [LeaderElection |-> f.leaderElect, LeaseDuration |-> f.leaseDuration,
     RenewDeadline |-> f.renewDeadline, RetryPeriod |-> f.retryPeriod]

options == Options(flags)

\* What a new elector insists on: with less Start returns an error.
ValidElection(o) ==
    /\ o.LeaseDuration > o.RenewDeadline
    /\ 10 * o.RenewDeadline > 12 * o.RetryPeriod
    /\ o.RetryPeriod >= 1

NoCall == -1

Stages == {"down", "manager", "controllers", "candidate", "active"}

TypeOK ==
    /\ flags \in FlagChoices
    /\ stage \in [Processes -> Stages]
    /\ holder \in Processes \union {"nobody", "departed"}
    /\ seen \in [Processes -> BOOLEAN]
    /\ waited \in [Processes -> Nat]
    /\ since \in [Processes -> Nat]
    /\ pending \in [Processes -> Nat \union {NoCall}]
    /\ exits \in Nat

Init ==
    /\ flags \in FlagChoices
    /\ stage = [p \in Processes |-> "down"]
    /\ holder = "nobody"
    /\ seen = [p \in Processes |-> FALSE]
    /\ waited = [p \in Processes |-> 0]
    /\ since = [p \in Processes |-> 0]
    /\ pending = [p \in Processes |-> NoCall]
    /\ exits = 0

Enter(p, s) == stage' = [stage EXCEPT ![p] = s]

-----------------------------------------------------------------------------
\* Flags, logging, TLS options and NewManager.
NewManager(p) ==
    /\ stage[p] = "down"
    /\ Enter(p, "manager")
    /\ UNCHANGED <<flags, holder, clocks, exits>>

\* SetupWithManager of both reconcilers.
SetupWithManager(p) ==
    /\ stage[p] = "manager"
    /\ Enter(p, "controllers")
    /\ UNCHANGED <<flags, holder, clocks, exits>>

\* os.Exit(1), or death: the lease stays as it is.
Exit(p) ==
    /\ Enter(p, "down")
    /\ holder' = IF holder = p THEN "departed" ELSE holder
    /\ seen' = [seen EXCEPT ![p] = FALSE]
    /\ waited' = [waited EXCEPT ![p] = 0]
    /\ since' = [since EXCEPT ![p] = 0]
    /\ pending' = [pending EXCEPT ![p] = NoCall]
    /\ UNCHANGED flags

\* mgr.Start.
Start(p) ==
    /\ stage[p] = "controllers"
    /\ \/ /\ ~options.LeaderElection
          /\ Enter(p, "active")
          /\ UNCHANGED <<flags, holder, clocks, exits>>
       \/ /\ options.LeaderElection /\ ValidElection(options)
          /\ Enter(p, "candidate")
          /\ UNCHANGED <<flags, holder, clocks, exits>>
       \/ /\ options.LeaderElection /\ ~ValidElection(options)
          /\ Exit(p) /\ UNCHANGED exits

\* A step of the set-up fails, the process crashes or is told to stop.
Killed(p) ==
    /\ stage[p] # "down"
    /\ exits < MaxExits
    /\ exits' = exits + 1
    /\ Exit(p)

-----------------------------------------------------------------------------
(***************************************************************************)
(* The elector.                                                            *)
(***************************************************************************)

\* p writes itself into the lease and waits for the reply: nobody else has
\* observed that record.
Record(p) ==
    /\ pending[p] = NoCall
    /\ pending' = [pending EXCEPT ![p] = 0]
    /\ holder' = p
    /\ seen' = [q \in Processes |-> q = p]
    /\ UNCHANGED <<flags, stage, exits>>

\* A candidate observes a record it has not seen before.
Observe(p) ==
    /\ stage[p] = "candidate" /\ holder # "nobody" /\ ~seen[p]
    /\ seen' = [seen EXCEPT ![p] = TRUE]
    /\ waited' = [waited EXCEPT ![p] = 0]
    /\ UNCHANGED <<flags, stage, holder, since, pending, exits>>

\* A candidate takes the lease: there is none, it is its own, or it has not
\* been renewed for LeaseDuration.
Acquire(p) ==
    /\ stage[p] = "candidate"
    /\ \/ holder \in {"nobody", p}
       \/ seen[p] /\ waited[p] >= options.LeaseDuration
    /\ Record(p)
    /\ waited' = [waited EXCEPT ![p] = 0]
    /\ UNCHANGED since

\* The leader renews its lease, from RetryPeriod after the last renewal on,
\* again and again until it succeeds.
Renew(p) ==
    /\ stage[p] = "active" /\ options.LeaderElection /\ holder = p
    /\ since[p] >= options.RetryPeriod
    /\ Record(p)
    /\ UNCHANGED <<waited, since>>

\* The call of p is over; nothing in the lease changes.
CallEnds(p) ==
    /\ pending[p] # NoCall
    /\ pending' = [pending EXCEPT ![p] = NoCall]
    /\ UNCHANGED <<flags, holder, seen, waited, exits>>

\* The candidate learns that it has the lease: it becomes active and begins
\* to renew at once, as if RetryPeriod were already over.
Acquired(p) ==
    /\ stage[p] = "candidate"
    /\ CallEnds(p)
    /\ Enter(p, "active")
    /\ since' = [since EXCEPT ![p] = options.RetryPeriod]

\* The leader learns that it has renewed the lease.
Renewed(p) ==
    /\ stage[p] = "active"
    /\ CallEnds(p)
    /\ since' = [since EXCEPT ![p] = 0]
    /\ UNCHANGED stage

\* The reply is lost: the call is an error, although the lease was written.
Lost(p) ==
    /\ CallEnds(p)
    /\ UNCHANGED <<stage, since>>

\* The time until the leader gives up: it waits RetryPeriod before it begins
\* to renew, and tries for RenewDeadline.
GiveUp == options.RetryPeriod + options.RenewDeadline

\* RenewDeadline has passed without success: Start returns an error.
StepDown(p) ==
    /\ stage[p] = "active" /\ options.LeaderElection
    /\ since[p] >= GiveUp
    /\ Exit(p) /\ UNCHANGED exits

\* Time passes; a leader whose time is up has stepped down before, and a
\* reply that is due has come or is lost.  Clocks stand still where nothing
\* depends on them any more.
Tick ==
    /\ options.LeaderElection
    /\ \A p \in Processes : stage[p] = "active" => since[p] < GiveUp
    /\ \A p \in Processes : pending[p] < ReplyDelay
    /\ waited' = [p \in Processes |-> IF waited[p] < options.LeaseDuration
                                      THEN waited[p] + 1 ELSE waited[p]]
    /\ since' = [p \in Processes |-> IF stage[p] = "active" THEN since[p] + 1 ELSE since[p]]
    /\ pending' = [p \in Processes |-> IF pending[p] = NoCall THEN NoCall ELSE pending[p] + 1]
    /\ UNCHANGED <<flags, stage, holder, seen, exits>>

-----------------------------------------------------------------------------
Boot(p) == NewManager(p) \/ SetupWithManager(p) \/ Start(p)

Elect(p) ==
    \/ Observe(p)
    \/ Acquire(p) \/ Renew(p)
    \/ Acquired(p) \/ Renewed(p) \/ Lost(p)
    \/ StepDown(p)

Next ==
    \/ \E p \in Processes : Boot(p) \/ Killed(p) \/ Elect(p)
    \/ Tick

Spec == Init /\ [][Next]_vars

(***************************************************************************)
(* Processes are started again and go through main; a candidate that has   *)
(* waited long enough reaches the API server in the end and, trying again  *)
(* and again, gets a reply; no call goes unanswered for ever; time goes    *)
(* on.  Nothing obliges a renewal to succeed.                              *)
(***************************************************************************)
Fairness ==
    /\ \A p \in Processes :
         /\ WF_vars(Boot(p)) /\ WF_vars(Observe(p))
         /\ SF_vars(Acquire(p)) /\ SF_vars(Acquired(p))
         /\ WF_vars(Renewed(p) \/ Lost(p))
    /\ WF_vars(Tick)

FairSpec == Spec /\ Fairness

-----------------------------------------------------------------------------
\* "Enabling this will ensure there is only one active controller manager"
\* (--leader-elect): however calls fail, replies come late and processes die,
\* two managers never reconcile at the same time.
OneActive ==
    flags.leaderElect =>
        \A p, q \in Processes : stage[p] = "active" /\ stage[q] = "active" => p = q

\* There is always a manager again: neither a lease left behind by a process
\* that died nor the options made of the flags keep all of them out for ever.
SomeoneActive == []<>(\E p \in Processes : stage[p] = "active")

\* A leader is in the lease and has not yet to give up, and nobody has waited
\* for longer than it has gone without a renewal and its last reply took.
Leading(p) ==
    stage[p] = "active" =>
        /\ holder = p
        /\ since[p] <= GiveUp
        /\ \A q \in Processes \ {p} : seen[q] => waited[q] <= since[p] + ReplyDelay

\* A process that waits for a reply is in the lease, and nobody has waited for
\* longer than it has.
Awaiting(p) ==
    pending[p] # NoCall =>
        /\ holder = p
        /\ pending[p] <= ReplyDelay
        /\ \A q \in Processes \ {p} : seen[q] => waited[q] <= pending[p]

\* Why OneActive holds: whoever is in the lease, as a leader or without
\* knowing it yet, gives up before another one's wait is over.
LeaseInv == flags.leaderElect => \A p \in Processes : Leading(p) /\ Awaiting(p)

\* The durations leave a leader the time to give up before its lease runs out,
\* and that time starts with a reply, not with the write.  The defaults do for
\* replies that take less than 15 seconds (40 + 5 + 15 = 60); ValidElection
\* alone does not ensure it, and nothing bounds a reply but the renew deadline.
Timely ==
    \A f \in FlagChoices :
        f.leaderElect => f.leaseDuration > f.renewDeadline + f.retryPeriod + ReplyDelay
=============================================================================
