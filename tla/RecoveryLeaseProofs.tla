------------------------- MODULE RecoveryLeaseProofs -------------------------
(***************************************************************************)
(* Three results about any number of brokers and launches.  Identities:    *)
(* the brokers that live at once have distinct ones if they start one      *)
(* after another.  Adoption: if moreover no lease lapses, no two brokers   *)
(* hold an adopted handle of one launch.  Claims: whatever overlaps, a     *)
(* stop or a success on record was observed.  The argument for the first   *)
(* is that the identity a starting broker has taken lies above every one   *)
(* of the same id; for the second, that whoever holds an adopted handle,   *)
(* or is about to give its lease back, is the holder the row names; for    *)
(* the third, that an operation past the signal or the artifacts claims    *)
(* what it has seen.                                                       *)
(***************************************************************************)
EXTENDS RecoveryLease, TLAPS

Live(b) == phase[b] \in {"read", "writing", "up"}

(* Every live broker is named, after a process that has started.           *)
Named ==
    \A b \in Broker : Live(b) => /\ me[b] \in Identity
                                 /\ phase[me[b].id] # "off"

FileNamed == file # NoIdentity => file \in Identity /\ phase[file.id] # "off"

(* The file bounds the epochs of its id, and a broker that has read it and *)
(* not yet written it lies above all the others.                           *)
FileBounds ==
    file # NoIdentity =>
        \A b \in Broker : phase[b] = "up" /\ me[b].id = file.id
                          => me[b].epoch <= file.epoch

StartingAbove ==
    \A b, c \in Broker :
        /\ phase[b] \in {"read", "writing"}
        /\ phase[c] = "up"
        /\ me[c].id = me[b].id
        => me[c].epoch < me[b].epoch

OneStarts ==
    \A b, c \in Broker :
        phase[b] \in {"read", "writing"} /\ phase[c] \in {"read", "writing"}
        => b = c

IdentityInv ==
    /\ FileNamed
    /\ Named
    /\ alone => FileBounds /\ StartingAbove /\ OneStarts /\ DistinctIdentity

-----------------------------------------------------------------------------
(* Typing.                                                                 *)

LEMMA First ==
    ASSUME NEW x, NEW y
    PROVE  <<x, y>>[1] = x
  OBVIOUS

(* The operation a broker is in the middle of is a whole record.           *)
LEMMA InOperation ==
    ASSUME TypeOK, NEW b \in Broker, NEW point \in Point, At(b, point)
    PROVE  op[b] \in Operation /\ op[b].launch \in Launch
  BY DEF TypeOK, At, Idle, Point, Operation

LEMMA GoesType ==
    ASSUME TypeOK, NEW b \in Broker, NEW l \in Launch,
           NEW at \in Point, NEW how \in How, NEW to \in TaskState,
           Goes(b, l, at, how, to)
    PROVE  op' \in [Broker -> Operation \cup {Idle}]
  BY DEF TypeOK, Goes, Operation

LEMMA ProceedsType ==
    ASSUME TypeOK, NEW b \in Broker, op[b] \in Operation,
           NEW at \in Point, Proceeds(b, at)
    PROVE  op' \in [Broker -> Operation \cup {Idle}]
  BY DEF TypeOK, Proceeds, Operation

LEMMA EndsType ==
    ASSUME TypeOK, NEW b \in Broker, Ends(b)
    PROVE  op' \in [Broker -> Operation \cup {Idle}]
  BY DEF TypeOK, Ends

LEMMA DropsType ==
    ASSUME TypeOK, NEW b \in Broker, NEW l \in Launch, Drops(b, l)
    PROVE  handle' \in [Broker -> [Launch -> {"none", "process", "adopted"}]]
  BY DEF TypeOK, Drops

LEMMA InitTyped == Init => TypeOK
  BY DEF Init, TypeOK, Identity, NoIdentity, Row, NoLease, TaskState, Idle

LEMMA StartsTyped ==
    ASSUME TypeOK, NEW b \in Broker, Starts(b)
    PROVE  TypeOK'
  <1>1. CASE ReadIdentity(b)
    <2>1. NextIdentity(b) \in Identity
      BY DEF TypeOK, NextIdentity, Identity
    <2> QED BY <1>1, <2>1 DEF TypeOK, ReadIdentity, circumstances, disk, world
  <1>2. CASE TruncateIdentity(b)
    BY <1>2 DEF TypeOK, TruncateIdentity, circumstances, world
  <1>3. CASE WriteIdentity(b)
    BY <1>3 DEF TypeOK, WriteIdentity, circumstances, world
  <1> QED BY <1>1, <1>2, <1>3 DEF Starts

LEMMA GoneTyped ==
    ASSUME TypeOK, NEW b \in Broker, Gone(b),
           lease' \in [Launch -> Row \cup {NoLease}]
    PROVE  TypeOK'
  BY DEF TypeOK, Gone, circumstances, world

LEMMA EndingsTyped ==
    ASSUME TypeOK,
           \/ \E b \in Broker : Close(b) \/ Crash(b)
           \/ \E l \in Launch : LeaseExpires(l) \/ PayloadEnds(l)
    PROVE  TypeOK'
  <1>1. ASSUME NEW b \in Broker, Close(b) PROVE TypeOK'
    BY <1>1, GoneTyped DEF TypeOK, Close
  <1>2. ASSUME NEW b \in Broker, Crash(b) PROVE TypeOK'
    BY <1>2, GoneTyped DEF TypeOK, Crash
  <1>3. ASSUME NEW l \in Launch, LeaseExpires(l) PROVE TypeOK'
    <2>1. lease[l] \in Row
      BY <1>3 DEF TypeOK, LeaseExpires
    <2>2. [lease[l] EXCEPT !.live = FALSE] \in Row
      BY <2>1 DEF Row
    <2>3. lease' \in [Launch -> Row \cup {NoLease}]
      BY <1>3, <2>2 DEF TypeOK, LeaseExpires
    <2> QED BY <1>3, <2>3 DEF TypeOK, LeaseExpires, circumstances, world, memory
  <1>4. ASSUME NEW l \in Launch, PayloadEnds(l) PROVE TypeOK'
    BY <1>4 DEF TypeOK, PayloadEnds, circumstances, disk, memory
  <1> QED BY <1>1, <1>2, <1>3, <1>4

LEMMA CallsTyped ==
    ASSUME TypeOK, NEW b \in Broker, NEW l \in Launch, Calls(b, l)
    PROVE  TypeOK'
  <1>0. /\ state[l] \in TaskState
        /\ handle[b][l] \in How
        /\ {"lease", "check", "kill"} \subseteq Point
        /\ {"process", "group", "none"} \subseteq How
        /\ {"recovery_required", "collecting", "cancelling",
            "timed_out"} \subseteq TaskState
    BY DEF TypeOK, How, Point, TaskState
  <1>1. op' \in [Broker -> Operation \cup {Idle}]
    <2>1. CASE Reconcile(b, l)
      BY <1>0, <2>1, GoesType DEF Reconcile
    <2>2. CASE Collect(b, l)
      BY <1>0, <2>2, GoesType DEF Collect
    <2>3. CASE CancelHeld(b, l)
      BY <1>0, <2>3, GoesType DEF CancelHeld
    <2>4. CASE CancelUnheld(b, l)
      <3>1. (IF state[l] = "cancelling" THEN "kill" ELSE "check") \in Point
        BY <1>0
      <3> QED BY <1>0, <2>4, <3>1, GoesType DEF CancelUnheld
    <2>5. CASE Timeout(b, l)
      BY <1>0, <2>5, GoesType DEF Timeout
    <2> QED BY <2>1, <2>2, <2>3, <2>4, <2>5 DEF Calls
  <1>2. handle' \in [Broker -> [Launch -> {"none", "process", "adopted"}]]
    BY DropsType DEF TypeOK, Calls, Reconcile, Collect, CancelHeld,
                     CancelUnheld, Timeout
  <1> QED BY <1>1, <1>2 DEF TypeOK, Calls, Reconcile, Collect, CancelHeld,
                            CancelUnheld, Timeout, circumstances, disk, world

LEMMA ContinuesTyped ==
    ASSUME TypeOK, NEW b \in Broker, me[b] \in Identity, Continues(b)
    PROVE  TypeOK'
  <1>0. /\ Point = {"lease", "gather", "release", "kill", "unlease", "check",
                    "write"}
        /\ {"none"} \subseteq How
        /\ {"recovery_required", "cancelled", "timed_out", "failed",
            "running"} \cup SuccessState \subseteq TaskState
    BY DEF How, Point, TaskState, SuccessState
  <1> DEFINE l == op[b].launch
  <1>1. CASE Check(b)
    <2>1. op[b] \in Operation
      BY <1>0, <1>1, InOperation DEF Check
    <2>2. op' \in [Broker -> Operation \cup {Idle}]
      BY <1>0, <1>1, <2>1, ProceedsType, EndsType DEF Check
    <2> QED BY <1>1, <2>2 DEF TypeOK, Check, circumstances, disk, world
  <1>2. CASE Write(b)
    <2>1. op[b] \in Operation /\ l \in Launch
      BY <1>0, <1>2, InOperation DEF Write
    <2>2. op' \in [Broker -> Operation \cup {Idle}]
      BY <1>0, <1>2, <2>1, ProceedsType, EndsType DEF Write
    <2>3. op[b].to \in TaskState
      BY <2>1 DEF Operation
    <2>4. state' \in [Launch -> TaskState]
      BY <1>2, <2>1, <2>3 DEF Write, TypeOK
    <2> QED BY <1>2, <2>2, <2>4 DEF TypeOK, Write, circumstances, world
  <1>3. CASE TryAcquire(b)
    <2>1. op[b] \in Operation /\ l \in Launch
      BY <1>0, <1>3, InOperation DEF TryAcquire
    <2>2. op' \in [Broker -> Operation \cup {Idle}]
      BY <1>0, <1>3, <2>1, GoesType, EndsType DEF TryAcquire
    <2>3. [holder |-> me[b], live |-> TRUE] \in Row
      BY DEF Row
    <2>4. lease' \in [Launch -> Row \cup {NoLease}]
      BY <1>3, <2>1, <2>3 DEF TypeOK, TryAcquire
    <2>5. handle' \in [Broker -> [Launch -> {"none", "process", "adopted"}]]
      BY <1>3, <2>1 DEF TypeOK, TryAcquire
    <2> QED
      BY <1>3, <2>2, <2>4, <2>5 DEF TypeOK, TryAcquire, circumstances, world
  <1>4. CASE Gather(b)
    <2>1. op[b] \in Operation /\ l \in Launch
      BY <1>0, <1>4, InOperation DEF Gather
    <2>2. op[b].how \in How /\ Outcome(l) \subseteq TaskState
      BY <1>0, <2>1 DEF Operation, Outcome
    <2>3. (IF op[b].how = "adopted" THEN "release" ELSE "check") \in Point
      BY <1>0
    <2>4. op' \in [Broker -> Operation \cup {Idle}]
      BY <1>4, <2>1, <2>2, <2>3, GoesType, EndsType DEF Gather
    <2> QED BY <1>4, <2>4 DEF TypeOK, Gather, circumstances, disk, world
  <1>5. CASE Release(b)
    <2>1. op[b] \in Operation /\ l \in Launch
      BY <1>0, <1>5, InOperation DEF Release
    <2>2. op' \in [Broker -> Operation \cup {Idle}]
      BY <1>0, <1>5, <2>1, ProceedsType DEF Release
    <2> QED BY <1>5, <2>1, <2>2 DEF TypeOK, Release, circumstances, world
  <1>6. CASE Kill(b)
    <2>1. op[b] \in Operation /\ l \in Launch
      BY <1>0, <1>6, InOperation DEF Kill
    <2>2. PICK r \in KillResult(l, op[b].how) :
             /\ payload' = [payload EXCEPT ![l] = r[1]]
             /\ exit' = [exit EXCEPT ![l] = IF r[1] = "running" THEN @
                                            ELSE IF @ = "none" THEN "bad"
                                                               ELSE @]
             /\ Goes(b, l, IF op[b].how = "adopted" THEN "unlease"
                                                    ELSE "check", op[b].how,
                     IF r[2] THEN Stopped(b) ELSE Unstopped(b))
             /\ IF op[b].how = "process" THEN Drops(b, l)
                                         ELSE UNCHANGED handle
      BY <1>6 DEF Kill
    <2>3. r[1] \in {"running", "final", "lost"}
      <3>1. CASE payload[l] = "running"
        <4>1. \/ r = <<"final", TRUE>>
              \/ r = <<"lost", op[b].how # "process">>
              \/ r = <<"running", FALSE>>
          BY <2>2, <3>1, Zenon DEF KillResult
        <4>2. r[1] = "final" \/ r[1] = "lost" \/ r[1] = "running"
          BY <4>1, First, Zenon
        <4> QED BY <4>2
      <3>2. CASE payload[l] # "running"
        <4>1. r = <<payload[l],
                    payload[l] = "final" \/ op[b].how = "group">>
          BY <2>2, <3>2, Zenon DEF KillResult
        <4> QED BY <2>1, <4>1 DEF TypeOK
      <3> QED BY <3>1, <3>2
    <2>4. /\ op[b].how \in How
          /\ (IF op[b].how = "adopted" THEN "unlease" ELSE "check") \in Point
          /\ (IF r[2] THEN Stopped(b) ELSE Unstopped(b)) \in TaskState
      BY <1>0, <2>1 DEF Operation, Stopped, Unstopped
    <2>5. op' \in [Broker -> Operation \cup {Idle}]
      BY <2>1, <2>2, <2>4, GoesType
    <2>6. handle' \in [Broker -> [Launch -> {"none", "process", "adopted"}]]
      BY <2>1, <2>2, DropsType DEF TypeOK
    <2>7. /\ payload' \in [Launch -> {"running", "final", "lost"}]
          /\ exit' \in [Launch -> {"none", "ok", "bad"}]
      BY <2>1, <2>2, <2>3 DEF TypeOK
    <2> QED BY <1>6, <2>5, <2>6, <2>7 DEF TypeOK, Kill, circumstances, disk
  <1>7. CASE Unlease(b)
    <2>1. op[b] \in Operation /\ l \in Launch
      BY <1>0, <1>7, InOperation DEF Unlease
    <2>2. op' \in [Broker -> Operation \cup {Idle}]
      BY <1>0, <1>7, <2>1, ProceedsType DEF Unlease
    <2> QED BY <1>7, <2>1, <2>2, DropsType
         DEF TypeOK, Unlease, circumstances, world
  <1> QED BY <1>1, <1>2, <1>3, <1>4, <1>5, <1>6, <1>7 DEF Continues

-----------------------------------------------------------------------------
(* Identities.                                                             *)

LEMMA IdentityInit == Init => IdentityInv
  BY DEF Init, IdentityInv, FileNamed, Named, FileBounds, StartingAbove,
         OneStarts, DistinctIdentity, Live, Identity, NoIdentity

LEMMA IdentityStarts ==
    ASSUME TypeOK, IdentityInv, NEW b \in Broker, Starts(b)
    PROVE  IdentityInv'
  <1>1. CASE ReadIdentity(b)
    <2>1. /\ phase[b] = "off"
          /\ phase' = [phase EXCEPT ![b] = "read"]
          /\ me' = [me EXCEPT ![b] = NextIdentity(b)]
          /\ file' = file /\ alone' = alone
          /\ alone => \A c \in Broker : phase[c] \notin {"read", "writing"}
      BY <1>1 DEF ReadIdentity, Starting, disk, circumstances
    <2>2. NextIdentity(b) \in Identity /\ phase'[NextIdentity(b).id] # "off"
      BY <2>1 DEF TypeOK, NextIdentity, Identity, NoIdentity, IdentityInv,
                  FileNamed
    <2>3. FileNamed' /\ Named'
      BY <2>1, <2>2 DEF IdentityInv, FileNamed, Named, Live, TypeOK, Identity
    <2>4. ASSUME alone PROVE (FileBounds /\ OneStarts /\ DistinctIdentity)'
      BY <2>1, <2>4 DEF IdentityInv, FileBounds, OneStarts, DistinctIdentity,
                        TypeOK
    <2>5. ASSUME alone, NEW c \in Broker, phase[c] = "up",
                 me[c].id = NextIdentity(b).id
          PROVE  me[c].epoch < NextIdentity(b).epoch
      <3>1. me[c] \in Identity /\ phase[me[c].id] # "off"
        BY <2>5 DEF IdentityInv, Named, Live
      <3>2. CASE file = NoIdentity
        BY <2>1, <2>5, <3>1, <3>2 DEF NextIdentity
      <3>3. CASE file # NoIdentity
        BY <2>5, <3>1, <3>3
           DEF NextIdentity, IdentityInv, FileBounds, FileNamed, Identity
      <3> QED BY <3>2, <3>3
    <2>6. ASSUME alone PROVE StartingAbove'
      BY <2>1, <2>5, <2>6 DEF StartingAbove, TypeOK
    <2> QED BY <2>1, <2>3, <2>4, <2>6 DEF IdentityInv
  <1>2. CASE TruncateIdentity(b)
    BY <1>2 DEF TruncateIdentity, circumstances, TypeOK, IdentityInv,
                FileNamed, Named, Live, FileBounds, StartingAbove, OneStarts,
                DistinctIdentity
  <1>3. CASE WriteIdentity(b)
    <2>1. /\ phase[b] = "writing"
          /\ phase' = [phase EXCEPT ![b] = "up"]
          /\ file' = me[b] /\ me' = me /\ alone' = alone
      BY <1>3 DEF WriteIdentity, circumstances
    <2>2. me[b] \in Identity /\ phase[me[b].id] # "off"
      BY <2>1 DEF IdentityInv, Named, Live
    <2>3. FileNamed' /\ Named'
      BY <2>1, <2>2 DEF IdentityInv, FileNamed, Named, Live, TypeOK, Identity
    <2>4. ASSUME alone, NEW c \in Broker, phase[c] = "up",
                 me[c].id = me[b].id
          PROVE  me[c].epoch < me[b].epoch /\ me[c].epoch \in Nat
      BY <2>1, <2>4 DEF IdentityInv, StartingAbove, Named, Live, Identity
    <2>5. ASSUME alone PROVE FileBounds'
      BY <2>1, <2>2, <2>4, <2>5 DEF FileBounds, TypeOK, Identity
    <2>6. ASSUME alone PROVE (OneStarts /\ StartingAbove)'
      BY <2>1, <2>6 DEF IdentityInv, OneStarts, StartingAbove, TypeOK
    <2>7. ASSUME alone PROVE DistinctIdentity'
      BY <2>1, <2>2, <2>4, <2>7 DEF IdentityInv, DistinctIdentity, TypeOK,
                                    Identity
    <2> QED BY <2>1, <2>3, <2>5, <2>6, <2>7 DEF IdentityInv
  <1> QED BY <1>1, <1>2, <1>3 DEF Starts

LEMMA IdentityGone ==
    ASSUME TypeOK, IdentityInv, NEW b \in Broker, Gone(b)
    PROVE  IdentityInv'
  BY DEF Gone, circumstances, TypeOK, IdentityInv, FileNamed, Named, Live,
         FileBounds, StartingAbove, OneStarts, DistinctIdentity

LEMMA IdentityKept ==
    ASSUME IdentityInv, UNCHANGED <<alone, file, phase, me>>
    PROVE  IdentityInv'
  BY DEF IdentityInv, FileNamed, Named, Live, FileBounds, StartingAbove,
         OneStarts, DistinctIdentity

LEMMA IdentityStep ==
    ASSUME TypeOK, IdentityInv, [Next]_vars
    PROVE  IdentityInv'
  <1>1. ASSUME NEW b \in Broker, Starts(b) PROVE IdentityInv'
    BY <1>1, IdentityStarts
  <1>2. ASSUME NEW b \in Broker, Continues(b) PROVE IdentityInv'
    BY <1>2, IdentityKept
       DEF Continues, Check, Write, TryAcquire, Gather, Release, Kill,
           Unlease, circumstances, disk
  <1>3. ASSUME NEW b \in Broker, Close(b) \/ Crash(b) PROVE IdentityInv'
    BY <1>3, IdentityGone DEF Close, Crash
  <1>4. ASSUME NEW b \in Broker, NEW l \in Launch, Calls(b, l)
        PROVE  IdentityInv'
    BY <1>4, IdentityKept
       DEF Calls, Reconcile, Collect, CancelHeld, CancelUnheld, Timeout,
           circumstances, disk
  <1>5. ASSUME NEW l \in Launch, LeaseExpires(l) \/ PayloadEnds(l)
        PROVE  IdentityInv'
    BY <1>5, IdentityKept
       DEF LeaseExpires, PayloadEnds, circumstances, disk, memory
  <1>6. CASE UNCHANGED vars
    BY <1>6, IdentityKept DEF vars, circumstances, disk, memory
  <1> QED BY <1>1, <1>2, <1>3, <1>4, <1>5, <1>6 DEF Next

LEMMA TypeStep ==
    ASSUME TypeOK, IdentityInv, [Next]_vars
    PROVE  TypeOK'
  <1>1. ASSUME NEW b \in Broker, Continues(b) PROVE TypeOK'
    <2>1. me[b] \in Identity
      BY <1>1 DEF Continues, Check, Write, TryAcquire, Gather, Release, Kill,
                  Unlease, At, IdentityInv, Named, Live
    <2> QED BY <1>1, <2>1, ContinuesTyped
  <1>2. CASE UNCHANGED vars
    BY <1>2 DEF vars, circumstances, disk, world, memory, TypeOK
  <1> QED BY <1>1, <1>2, StartsTyped, CallsTyped, EndingsTyped DEF Next

(* The state variables keep their types, whatever brokers interleave.      *)
THEOREM TypeCorrect == Spec => []TypeOK
  <1>1. Spec => [](TypeOK /\ IdentityInv)
    BY InitTyped, IdentityInit, TypeStep, IdentityStep, PTL DEF Spec
  <1> QED BY <1>1, PTL

(* Brokers that start one after another and live at once have distinct     *)
(* identities.                                                             *)
THEOREM IdentitiesDistinct == Spec => []DistinctIdentity
  <1>1. IdentityInv => DistinctIdentity
    BY DEF IdentityInv, DistinctIdentity
  <1> QED BY <1>1, InitTyped, IdentityInit, TypeStep, IdentityStep, PTL
         DEF Spec

-----------------------------------------------------------------------------
(* Leases.                                                                 *)

(* Only a broker that is up holds handles or is in an operation.           *)
UpHolds ==
    \A b \in Broker : phase[b] # "up" =>
        op[b] = Idle /\ \A l \in Launch : handle[b][l] = "none"

(* The operation will yet give back the lease its adopted handle came with.*)
WillRelease(b) ==
    /\ op[b].at \in Point /\ op[b].how = "adopted"
    /\ \/ op[b].at \in {"gather", "release", "kill", "unlease"}
       \/ op[b].to \in {"collecting", "cancelling"}

Holds(b, l) == lease[l] # NoLease /\ lease[l].holder = me[b]

AdoptersHold ==
    \A b \in Broker, l \in Launch : handle[b][l] = "adopted" => Holds(b, l)

ReleasersHold == \A b \in Broker : WillRelease(b) => Holds(b, op[b].launch)

RowsLive == \A l \in Launch : lease[l] # NoLease => lease[l].live

(* What is recorded after a release is neither of the two states that are  *)
(* recorded before one; a collection has given its handle up.              *)
Shaped(b) ==
    /\ op[b].at \in {"release", "unlease"}
          => op[b].to \notin {"collecting", "cancelling"} /\ op[b].how = "adopted"
    /\ \/ op[b].at \in {"gather", "release"}
       \/ op[b].at \in {"check", "write"} /\ op[b].to = "collecting"
       => handle[b][op[b].launch] = "none"

LeaseInv ==
    /\ UpHolds
    /\ \A b \in Broker : Shaped(b)
    /\ alone /\ ~lapses => AdoptersHold /\ ReleasersHold /\ RowsLive

LEMMA LeaseInit == Init => LeaseInv
  BY DEF Init, LeaseInv, UpHolds, Shaped, AdoptersHold, ReleasersHold,
         RowsLive, WillRelease, Idle, Point

(* Two brokers the same row names are one.                                 *)
LEMMA SameHolder ==
    ASSUME IdentityInv, LeaseInv, alone, NEW l \in Launch,
           NEW b \in Broker, NEW c \in Broker, Holds(b, l), Holds(c, l),
           phase[b] = "up", phase[c] = "up"
    PROVE  b = c
  BY DEF Holds, IdentityInv, DistinctIdentity

LEMMA LeaseStarts ==
    ASSUME TypeOK, LeaseInv, NEW b \in Broker, Starts(b)
    PROVE  LeaseInv'
  <1>1. /\ phase[b] # "up"
        /\ \A c \in Broker : c # b => phase'[c] = phase[c] /\ me'[c] = me[c]
        /\ UNCHANGED <<alone, lapses, lease, handle, op>>
    BY DEF TypeOK, Starts, ReadIdentity, TruncateIdentity, WriteIdentity,
           circumstances, disk
  <1>2. op[b] = Idle /\ \A l \in Launch : handle[b][l] = "none"
    BY <1>1 DEF LeaseInv, UpHolds
  <1>3. ~WillRelease(b)
    BY <1>2 DEF WillRelease, Idle, Point
  <1>4. UpHolds' /\ \A c \in Broker : Shaped(c)'
    BY <1>1, <1>2 DEF LeaseInv, UpHolds, Shaped
  <1>5. ASSUME alone, ~lapses PROVE (AdoptersHold /\ ReleasersHold /\ RowsLive)'
    BY <1>1, <1>2, <1>3, <1>5
       DEF LeaseInv, AdoptersHold, ReleasersHold, RowsLive, Holds, WillRelease
  <1> QED BY <1>1, <1>4, <1>5 DEF LeaseInv

(* What a broker that is up does to its own handles and its operation,     *)
(* touching no row.                                                        *)
LEMMA LeaseOwn ==
    ASSUME TypeOK, LeaseInv, NEW b \in Broker, phase[b] = "up",
           UNCHANGED <<alone, lapses, lease, phase, me>>,
           \A c \in Broker : c # b => handle'[c] = handle[c] /\ op'[c] = op[c],
           \A l \in Launch : handle'[b][l] = "adopted"
                              => handle[b][l] = "adopted",
           Shaped(b)',
           alone /\ ~lapses /\ WillRelease(b)'
              => Holds(b, op'[b].launch)
    PROVE  LeaseInv'
  <1>1. UpHolds' /\ \A c \in Broker : Shaped(c)'
    BY DEF LeaseInv, UpHolds, Shaped
  <1>2. ASSUME alone, ~lapses PROVE (AdoptersHold /\ ReleasersHold /\ RowsLive)'
    BY <1>2 DEF LeaseInv, AdoptersHold, ReleasersHold, RowsLive, Holds,
                WillRelease
  <1> QED BY <1>1, <1>2 DEF LeaseInv

(* A broker the row names deletes it.                                      *)
LEMMA LeaseFreed ==
    ASSUME TypeOK, IdentityInv, LeaseInv, NEW b \in Broker, phase[b] = "up",
           UNCHANGED <<alone, lapses>>,
           \A c \in Broker : c # b => /\ handle'[c] = handle[c]
                                      /\ op'[c] = op[c]
                                      /\ phase'[c] = phase[c]
                                      /\ me'[c] = me[c],
           \/ phase'[b] = "up" /\ me'[b] = me[b]
           \/ op'[b] = Idle /\ \A l \in Launch : handle'[b][l] = "none",
           \A l \in Launch :
              \/ lease'[l] = lease[l]
              \/ lease'[l] = NoLease /\ (alone /\ ~lapses => Holds(b, l)),
           \A l \in Launch :
              handle'[b][l] = "adopted"
                 => handle[b][l] = "adopted" /\ lease'[l] = lease[l],
           Shaped(b)',
           ~WillRelease(b)'
    PROVE  LeaseInv'
  <1>1. UpHolds' /\ \A c \in Broker : Shaped(c)'
    BY DEF LeaseInv, UpHolds, Shaped
  <1>2. ASSUME alone, ~lapses, NEW c \in Broker, NEW l \in Launch, c # b,
               phase[c] = "up", Holds(c, l)
        PROVE  Holds(c, l)'
    BY <1>2, SameHolder DEF Holds
  <1>3. ASSUME alone, ~lapses PROVE (AdoptersHold /\ RowsLive)'
    BY <1>2, <1>3 DEF LeaseInv, UpHolds, AdoptersHold, RowsLive, Holds
  <1>4. ASSUME alone, ~lapses, NEW c \in Broker, WillRelease(c)'
        PROVE  Holds(c, op[c].launch)' /\ c # b
    <2>1. c # b /\ WillRelease(c) /\ phase[c] = "up"
      BY <1>4 DEF WillRelease, LeaseInv, UpHolds, Idle, Point
    <2>2. op[c].launch \in Launch
      BY <2>1 DEF WillRelease, TypeOK, Operation, Idle, Point
    <2>3. Holds(c, op[c].launch)
      BY <1>4, <2>1 DEF LeaseInv, ReleasersHold
    <2>4. op'[c] = op[c]
      BY <2>1
    <2>5. lease'[op[c].launch] # NoLease /\ lease'[op[c].launch].holder = me[c]
      BY <1>2, <1>4, <2>1, <2>2, <2>3 DEF Holds
    <2> QED BY <2>1, <2>4, <2>5 DEF Holds
  <1> QED BY <1>1, <1>3, <1>4 DEF LeaseInv, ReleasersHold

LEMMA LeaseTaken ==
    ASSUME TypeOK, IdentityInv, LeaseInv, NEW b \in Broker, TryAcquire(b)
    PROVE  LeaseInv'
  <1>0. PICK l \in Launch : l = op[b].launch
    BY InOperation DEF TryAcquire, Point
  <1>1. /\ op[b].at = "lease" /\ phase[b] = "up"
        /\ UNCHANGED <<alone, lapses, phase, me>>
    BY <1>0 DEF TryAcquire, At, Point, circumstances
  <1>2. CASE ~Granted(b, l)
    <2>1. /\ UNCHANGED <<lease, handle>>
          /\ \/ op' = [op EXCEPT ![b] = Idle]
             \/ op' = [op EXCEPT ![b] = [at |-> "check", launch |-> l,
                                         how |-> "none",
                                         to |-> "recovery_required"]]
      BY <1>0, <1>2 DEF TryAcquire, Ends, Goes
    <2>2. /\ \A c \in Broker : c # b => op'[c] = op[c]
          /\ Shaped(b)'
          /\ ~WillRelease(b)'
      BY <2>1 DEF TypeOK, WillRelease, Shaped, Idle, Point
    <2> QED BY <1>1, <2>1, <2>2, LeaseOwn
  <1>3. CASE Granted(b, l)
    <2>1. /\ lease' = [lease EXCEPT ![l] = [holder |-> me[b], live |-> TRUE]]
          /\ handle' = [handle EXCEPT ![b][l] = "adopted"]
          /\ \/ op' = [op EXCEPT ![b] = Idle]
             \/ op' = [op EXCEPT ![b] = [at |-> "check", launch |-> l,
                                         how |-> "none", to |-> "running"]]
      BY <1>0, <1>3 DEF TryAcquire, Ends, Goes
    <2>2. /\ \A c \in Broker : c # b => op'[c] = op[c]
          /\ Shaped(b)'
          /\ ~WillRelease(b)'
      BY <2>1 DEF TypeOK, WillRelease, Shaped, Idle, Point
    <2>3. UpHolds' /\ \A c \in Broker : Shaped(c)'
      BY <1>1, <2>1, <2>2 DEF TypeOK, LeaseInv, UpHolds, Shaped
    <2>4. me[b] \in Identity
      BY <1>1 DEF IdentityInv, Named, Live
    <2>5. Holds(b, l)' /\ lease'[l].live
      BY <1>1, <2>1, <2>4 DEF Holds, TypeOK, NoLease, NoIdentity, Identity
    <2>6. \A k \in Launch : k # l => lease'[k] = lease[k]
      BY <2>1 DEF TypeOK
    <2>7. ASSUME alone, ~lapses, NEW c \in Broker, c # b, phase[c] = "up"
          PROVE  ~Holds(c, l)
      <3>1. CASE lease[l] = NoLease
        BY <3>1 DEF Holds
      <3>2. CASE lease[l] # NoLease
        <4>1. lease[l].live
          BY <1>1, <2>7, <3>2 DEF LeaseInv, RowsLive
        <4>2. lease[l].holder = me[b]
          BY <1>3, <3>2, <4>1 DEF Granted
        <4> QED BY <1>1, <2>7, <3>2, <4>2, SameHolder DEF Holds
      <3> QED BY <3>1, <3>2
    <2>8. ASSUME alone, ~lapses, NEW c \in Broker, NEW k \in Launch,
                 c # b, phase[c] = "up", Holds(c, k)
          PROVE  Holds(c, k)'
      BY <1>1, <2>6, <2>7, <2>8 DEF Holds
    <2>9. ASSUME alone, ~lapses PROVE RowsLive'
      BY <2>5, <2>6, <2>9 DEF LeaseInv, RowsLive
    <2>10. ASSUME alone, ~lapses, NEW c \in Broker, NEW k \in Launch,
                  handle'[c][k] = "adopted"
           PROVE  Holds(c, k)'
      <3>1. CASE c = b
        <4>1. k # l => handle[b][k] = "adopted"
          BY <2>1, <2>10, <3>1 DEF TypeOK
        <4>2. k # l => Holds(b, k)
          BY <2>10, <4>1 DEF LeaseInv, AdoptersHold
        <4> QED BY <1>1, <2>5, <2>6, <3>1, <4>2 DEF Holds
      <3>2. CASE c # b
        <4>1. handle[c][k] = "adopted" /\ phase[c] = "up"
          BY <2>1, <2>10, <3>2 DEF TypeOK, LeaseInv, UpHolds
        <4> QED BY <2>8, <2>10, <3>2, <4>1 DEF LeaseInv, AdoptersHold
      <3> QED BY <3>1, <3>2
    <2>11. ASSUME alone, ~lapses, NEW c \in Broker, WillRelease(c)'
           PROVE  Holds(c, op[c].launch)'
      <3>1. c # b /\ op'[c] = op[c] /\ WillRelease(c) /\ phase[c] = "up"
        BY <2>2, <2>11 DEF WillRelease, LeaseInv, UpHolds, Idle, Point
      <3>2. op[c].launch \in Launch
        BY <3>1 DEF WillRelease, TypeOK, Operation, Idle, Point
      <3>3. Holds(c, op[c].launch)
        BY <2>11, <3>1 DEF LeaseInv, ReleasersHold
      <3>4. lease'[op[c].launch] # NoLease
            /\ lease'[op[c].launch].holder = me'[c]
        BY <2>8, <2>11, <3>1, <3>2, <3>3 DEF Holds
      <3> QED BY <3>1, <3>4 DEF Holds
    <2> QED BY <1>1, <2>3, <2>9, <2>10, <2>11
         DEF LeaseInv, AdoptersHold, ReleasersHold
  <1> QED BY <1>2, <1>3

(* What remains: the steps that neither start a broker nor take a lease.   *)
LEMMA LeaseContinues ==
    ASSUME TypeOK, IdentityInv, LeaseInv, NEW b \in Broker, Continues(b)
    PROVE  LeaseInv'
  <1>0. phase[b] = "up" /\ op[b].at \in Point
    BY DEF Continues, Check, Write, TryAcquire, Gather, Release, Kill,
           Unlease, At, Point
  <1>1. PICK l \in Launch : l = op[b].launch
    BY <1>0 DEF TypeOK, Operation, Idle, Point
  <1>2. /\ alone /\ ~lapses /\ WillRelease(b) => Holds(b, l)
        /\ Shaped(b)
    BY <1>1 DEF LeaseInv, ReleasersHold
  <1>3. CASE Check(b)
    <2>1. /\ UNCHANGED <<alone, lapses, lease, phase, me, handle>>
          /\ op[b].at = "check"
          /\ op' = [op EXCEPT ![b].at = "write"] \/ op' = [op EXCEPT ![b] = Idle]
      BY <1>3 DEF Check, At, Proceeds, Ends, circumstances, disk
    <2>2. /\ \A c \in Broker : c # b => op'[c] = op[c]
          /\ Shaped(b)'
          /\ WillRelease(b)' => WillRelease(b) /\ op'[b].launch = l
      BY <1>1, <1>2, <2>1
         DEF TypeOK, Operation, WillRelease, Shaped, Idle, Point
    <2> QED BY <1>0, <1>2, <2>1, <2>2, LeaseOwn
  <1>4. CASE Write(b)
    <2>1. /\ UNCHANGED <<alone, lapses, lease, phase, me, handle>>
          /\ op[b].at = "write"
          /\ \/ /\ op[b].to = "collecting"
                /\ op' = [op EXCEPT ![b].at = "gather"]
             \/ /\ op[b].to = "cancelling"
                /\ op' = [op EXCEPT ![b].at = "kill"]
             \/ op' = [op EXCEPT ![b] = Idle]
      BY <1>4 DEF Write, At, Proceeds, Ends, circumstances
    <2>2. /\ \A c \in Broker : c # b => op'[c] = op[c]
          /\ Shaped(b)'
          /\ WillRelease(b)' => WillRelease(b) /\ op'[b].launch = l
      BY <1>1, <1>2, <2>1
         DEF TypeOK, Operation, WillRelease, Shaped, Idle, Point
    <2> QED BY <1>0, <1>2, <2>1, <2>2, LeaseOwn
  <1>5. CASE Gather(b)
    <2>1. /\ UNCHANGED <<alone, lapses, lease, phase, me, handle>>
          /\ op[b].at = "gather"
          /\ \/ op' = [op EXCEPT ![b] = Idle]
             \/ \E to \in Outcome(l) :
                   op' = [op EXCEPT ![b] =
                            [at |-> IF op[b].how = "adopted" THEN "release"
                                                            ELSE "check",
                             launch |-> l, how |-> op[b].how, to |-> to]]
      BY <1>1, <1>5 DEF Gather, At, Ends, Goes, circumstances, disk
    <2>2. Outcome(l) \subseteq SuccessState \cup {"failed"}
      BY DEF Outcome
    <2>3. /\ \A c \in Broker : c # b => op'[c] = op[c]
          /\ Shaped(b)'
          /\ WillRelease(b)' => WillRelease(b) /\ op'[b].launch = l
      BY <1>0, <1>1, <1>2, <2>1, <2>2
         DEF TypeOK, WillRelease, Shaped, Idle, Point, SuccessState
    <2> QED BY <1>0, <1>2, <2>1, <2>3, LeaseOwn
  <1>6. CASE Kill(b)
    <2>1. /\ UNCHANGED <<alone, lapses, lease, phase, me>>
          /\ op[b].at = "kill"
          /\ handle' = handle \/ handle' = [handle EXCEPT ![b][l] = "none"]
          /\ \E to \in {Stopped(b), Unstopped(b)} :
                op' = [op EXCEPT ![b] =
                         [at |-> IF op[b].how = "adopted" THEN "unlease"
                                                         ELSE "check",
                          launch |-> l, how |-> op[b].how, to |-> to]]
      BY <1>1, <1>6 DEF Kill, At, Drops, Goes, circumstances, disk
    <2>2. {Stopped(b), Unstopped(b)}
            \subseteq {"timed_out", "cancelled", "recovery_required", "failed"}
      BY DEF Stopped, Unstopped
    <2>3. /\ \A c \in Broker : c # b => op'[c] = op[c]
          /\ Shaped(b)'
          /\ WillRelease(b)' => WillRelease(b) /\ op'[b].launch = l
      BY <1>0, <1>1, <1>2, <2>1, <2>2
         DEF TypeOK, WillRelease, Shaped, Idle, Point
    <2>4. /\ \A c \in Broker : c # b => handle'[c] = handle[c]
          /\ \A k \in Launch : handle'[b][k] = "adopted"
                                => handle[b][k] = "adopted"
      BY <1>1, <2>1 DEF TypeOK
    <2> QED BY <1>0, <1>2, <2>1, <2>3, <2>4, LeaseOwn
  <1>7. CASE Release(b)
    <2>1. /\ UNCHANGED <<alone, lapses, phase, me, handle>>
          /\ op[b].at = "release"
          /\ lease' = [lease EXCEPT ![l] = NoLease]
          /\ op' = [op EXCEPT ![b].at = "check"]
      BY <1>1, <1>7 DEF Release, At, Proceeds, circumstances
    <2>2. /\ \A c \in Broker : c # b => op'[c] = op[c]
          /\ Shaped(b)' /\ ~WillRelease(b)'
          /\ handle[b][l] # "adopted"
          /\ WillRelease(b)
          /\ \A k \in Launch : k # l => lease'[k] = lease[k]
          /\ lease'[l] = NoLease
      BY <1>0, <1>1, <1>2, <2>1
         DEF TypeOK, Operation, WillRelease, Shaped, Idle, Point
    <2>3. /\ \A k \in Launch :
                \/ lease'[k] = lease[k]
                \/ lease'[k] = NoLease /\ (alone /\ ~lapses => Holds(b, k))
          /\ \A k \in Launch :
                handle'[b][k] = "adopted"
                   => handle[b][k] = "adopted" /\ lease'[k] = lease[k]
      BY <1>2, <2>1, <2>2
    <2>4. \A c \in Broker : c # b => /\ handle'[c] = handle[c]
                                     /\ op'[c] = op[c]
                                     /\ phase'[c] = phase[c]
                                     /\ me'[c] = me[c]
      BY <2>1, <2>2
    <2>5. /\ phase'[b] = "up" /\ me'[b] = me[b]
          /\ UNCHANGED <<alone, lapses>>
          /\ Shaped(b)' /\ ~WillRelease(b)'
      BY <1>0, <2>1, <2>2
    <2> HIDE DEF Shaped, WillRelease, Holds
    <2> QED BY <1>0, <2>3, <2>4, <2>5, LeaseFreed
  <1>8. CASE Unlease(b)
    <2>1. /\ UNCHANGED <<alone, lapses, phase, me>>
          /\ op[b].at = "unlease"
          /\ lease' = [lease EXCEPT ![l] = NoLease]
          /\ handle' = [handle EXCEPT ![b][l] = "none"]
          /\ op' = [op EXCEPT ![b].at = "check"]
      BY <1>1, <1>8 DEF Unlease, At, Proceeds, Drops, circumstances
    <2>2. /\ \A c \in Broker : c # b => op'[c] = op[c] /\ handle'[c] = handle[c]
          /\ Shaped(b)' /\ ~WillRelease(b)'
          /\ WillRelease(b)
          /\ \A k \in Launch : k # l => /\ lease'[k] = lease[k]
                                       /\ handle'[b][k] = handle[b][k]
          /\ lease'[l] = NoLease /\ handle'[b][l] = "none"
      BY <1>0, <1>1, <1>2, <2>1
         DEF TypeOK, Operation, WillRelease, Shaped, Idle, Point
    <2>3. /\ \A k \in Launch :
                \/ lease'[k] = lease[k]
                \/ lease'[k] = NoLease /\ (alone /\ ~lapses => Holds(b, k))
          /\ \A k \in Launch :
                handle'[b][k] = "adopted"
                   => handle[b][k] = "adopted" /\ lease'[k] = lease[k]
      BY <1>2, <2>1, <2>2
    <2>4. \A c \in Broker : c # b => /\ handle'[c] = handle[c]
                                     /\ op'[c] = op[c]
                                     /\ phase'[c] = phase[c]
                                     /\ me'[c] = me[c]
      BY <2>1, <2>2
    <2>5. /\ phase'[b] = "up" /\ me'[b] = me[b]
          /\ UNCHANGED <<alone, lapses>>
          /\ Shaped(b)' /\ ~WillRelease(b)'
      BY <1>0, <2>1, <2>2
    <2> HIDE DEF Shaped, WillRelease, Holds
    <2> QED BY <1>0, <2>3, <2>4, <2>5, LeaseFreed
  <1> QED BY <1>3, <1>4, <1>5, <1>6, <1>7, <1>8, LeaseTaken DEF Continues

LEMMA LeaseCalls ==
    ASSUME TypeOK, LeaseInv, NEW b \in Broker, NEW l \in Launch, Calls(b, l)
    PROVE  LeaseInv'
  <1>1. /\ phase[b] = "up"
        /\ UNCHANGED <<alone, lapses, lease, phase, me>>
        /\ \/ handle' = handle
           \/ handle' = [handle EXCEPT ![b][l] = "none"]
        /\ \E at \in {"lease", "check", "kill"}, how \in How, to \in TaskState :
              /\ op' = [op EXCEPT ![b] = [at |-> at, launch |-> l,
                                         how |-> how, to |-> to]]
              /\ how = "adopted" => handle[b][l] = "adopted"
              /\ at = "check" /\ to = "collecting" => handle'[b][l] = "none"
    <2>0. /\ state[l] \in TaskState /\ handle[b][l] \in How
          /\ {"process", "group", "none"} \subseteq How
          /\ {"recovery_required", "collecting", "cancelling",
              "timed_out"} \subseteq TaskState
      BY DEF TypeOK, How, TaskState
    <2>1. CASE Reconcile(b, l)
      BY <2>0, <2>1 DEF Reconcile, Ready, Goes, circumstances, disk
    <2>2. CASE Collect(b, l)
      <3>1. handle'[b][l] = "none"
        BY <2>2 DEF Collect, Drops, TypeOK
      <3> QED BY <2>0, <2>2, <3>1
           DEF Collect, Ready, Goes, Drops, circumstances, disk
    <2>3. CASE CancelHeld(b, l)
      <3>1. op' = [op EXCEPT ![b] = [at |-> "check", launch |-> l,
                                     how |-> handle[b][l],
                                     to |-> "cancelling"]]
        BY <2>3 DEF CancelHeld, Goes
      <3>2. /\ phase[b] = "up" /\ handle' = handle
            /\ UNCHANGED <<alone, lapses, lease, phase, me>>
        BY <2>3 DEF CancelHeld, Ready, circumstances, disk
      <3>3. "cancelling" \in TaskState /\ handle[b][l] \in How
        BY <2>0
      <3>4. \E at \in {"lease", "check", "kill"}, how \in How, to \in TaskState :
              /\ op' = [op EXCEPT ![b] = [at |-> at, launch |-> l,
                                         how |-> how, to |-> to]]
              /\ how = "adopted" => handle[b][l] = "adopted"
              /\ at = "check" /\ to = "collecting" => handle'[b][l] = "none"
        <4> USE <3>3
        <4> WITNESS "check" \in {"lease", "check", "kill"},
                    handle[b][l] \in How, "cancelling" \in TaskState
        <4> QED BY <3>1
      <3> QED BY <3>2, <3>4
    <2>4. CASE CancelUnheld(b, l)
      BY <2>0, <2>4 DEF CancelUnheld, Ready, Goes, circumstances, disk
    <2>5. CASE Timeout(b, l)
      BY <2>0, <2>5 DEF Timeout, Ready, Goes, Drops, circumstances, disk
    <2> QED BY <2>1, <2>2, <2>3, <2>4, <2>5 DEF Calls
  <1>2. /\ \A c \in Broker : c # b => op'[c] = op[c] /\ handle'[c] = handle[c]
        /\ \A k \in Launch : handle'[b][k] = "adopted"
                              => handle[b][k] = "adopted"
        /\ Shaped(b)'
        /\ WillRelease(b)' => handle[b][op'[b].launch] = "adopted"
        /\ op'[b].launch \in Launch
    BY <1>1 DEF TypeOK, Shaped, WillRelease
  <1>3. alone /\ ~lapses /\ WillRelease(b)' => Holds(b, op'[b].launch)
    BY <1>2 DEF LeaseInv, AdoptersHold
  <1> QED BY <1>1, <1>2, <1>3, LeaseOwn

LEMMA LeaseEndings ==
    ASSUME TypeOK, IdentityInv, LeaseInv,
           \/ \E b \in Broker : Close(b) \/ Crash(b)
           \/ \E l \in Launch : LeaseExpires(l) \/ PayloadEnds(l)
    PROVE  LeaseInv'
  <1>1. ASSUME NEW b \in Broker, Close(b) PROVE LeaseInv'
    <2>1. /\ phase[b] = "up" /\ UNCHANGED <<alone, lapses>>
          /\ \A c \in Broker : c # b => /\ handle'[c] = handle[c]
                                        /\ op'[c] = op[c]
                                        /\ phase'[c] = phase[c]
                                        /\ me'[c] = me[c]
          /\ op'[b] = Idle /\ \A l \in Launch : handle'[b][l] = "none"
      BY <1>1 DEF Close, Ready, Gone, TypeOK, circumstances
    <2>2. \A l \in Launch :
             \/ lease'[l] = lease[l]
             \/ lease'[l] = NoLease /\ (alone /\ ~lapses => Holds(b, l))
      BY <1>1 DEF Close, LeaseInv, AdoptersHold
    <2>3. Shaped(b)' /\ ~WillRelease(b)'
      BY <2>1 DEF Shaped, WillRelease, Idle, Point
    <2> QED BY <2>1, <2>2, <2>3, LeaseFreed
  <1>2. ASSUME NEW b \in Broker, Crash(b) PROVE LeaseInv'
    <2>1. /\ UNCHANGED <<alone, lapses, lease>>
          /\ \A c \in Broker : c # b => /\ handle'[c] = handle[c]
                                        /\ op'[c] = op[c]
                                        /\ phase'[c] = phase[c]
                                        /\ me'[c] = me[c]
          /\ op'[b] = Idle /\ \A l \in Launch : handle'[b][l] = "none"
      BY <1>2 DEF Crash, Gone, TypeOK, circumstances
    <2>2. Shaped(b)' /\ ~WillRelease(b)'
      BY <2>1 DEF Shaped, WillRelease, Idle, Point
    <2>3. UpHolds' /\ \A c \in Broker : Shaped(c)'
      BY <2>1, <2>2 DEF LeaseInv, UpHolds, Shaped
    <2>4. ASSUME alone, ~lapses
          PROVE  (AdoptersHold /\ ReleasersHold /\ RowsLive)'
      BY <2>1, <2>2, <2>4 DEF LeaseInv, AdoptersHold, ReleasersHold, RowsLive,
                              Holds, WillRelease
    <2> QED BY <2>1, <2>3, <2>4 DEF LeaseInv
  <1>3. ASSUME NEW l \in Launch, LeaseExpires(l) PROVE LeaseInv'
    BY <1>3 DEF LeaseExpires, circumstances, memory, LeaseInv, UpHolds, Shaped
  <1>4. ASSUME NEW l \in Launch, PayloadEnds(l) PROVE LeaseInv'
    BY <1>4 DEF PayloadEnds, circumstances, disk, memory, LeaseInv, UpHolds,
                Shaped, AdoptersHold, ReleasersHold, RowsLive, Holds,
                WillRelease
  <1> QED BY <1>1, <1>2, <1>3, <1>4

LEMMA LeaseStep ==
    ASSUME TypeOK, IdentityInv, LeaseInv, [Next]_vars
    PROVE  LeaseInv'
  <1>1. CASE UNCHANGED vars
    BY <1>1 DEF vars, circumstances, disk, memory, LeaseInv, UpHolds, Shaped,
                AdoptersHold, ReleasersHold, RowsLive, Holds, WillRelease
  <1> QED BY <1>1, LeaseStarts, LeaseContinues, LeaseCalls, LeaseEndings
       DEF Next

(* If brokers start one after another and no lease lapses before its       *)
(* holder gives it back, no two brokers hold an adopted handle of one      *)
(* launch, however many brokers there are and wherever they crash.         *)
THEOREM ReconcilersExclude == Spec => []OneReconciler
  <1>1. ASSUME TypeOK, IdentityInv, LeaseInv PROVE OneReconciler
    <2> SUFFICES ASSUME alone, ~lapses, NEW l \in Launch,
                        NEW b \in Adopters(l), NEW c \in Adopters(l)
                 PROVE  b = c
      BY DEF OneReconciler
    <2>1. /\ b \in Broker /\ c \in Broker
          /\ handle[b][l] = "adopted" /\ handle[c][l] = "adopted"
      BY DEF Adopters
    <2>2. phase[b] = "up" /\ phase[c] = "up"
      BY <1>1, <2>1 DEF LeaseInv, UpHolds
    <2>3. Holds(b, l) /\ Holds(c, l)
      BY <1>1, <2>1 DEF LeaseInv, AdoptersHold
    <2> QED BY <1>1, <2>1, <2>2, <2>3, SameHolder
  <1> QED BY <1>1, InitTyped, IdentityInit, LeaseInit, TypeStep, IdentityStep,
             LeaseStep, PTL DEF Spec

-----------------------------------------------------------------------------
(* Claims.                                                                 *)

(* What the payload of l says for recording to: it has ended, if a stop is *)
(* claimed, and ended well, if a success is.                               *)
Backed(l, to) ==
    /\ to \in {"cancelled", "timed_out"} => payload[l] # "running"
    /\ to \in SuccessState => payload[l] = "final" /\ exit[l] = "ok"

(* An operation past the signal or the artifacts claims what it has seen;  *)
(* at "kill" and "lease" it has seen nothing yet.                          *)
OperationBacked(b) ==
    op[b].at \in {"release", "unlease", "check", "write"}
        => Backed(op[b].launch, op[b].to)

BackedInv ==
    /\ \A b \in Broker : OperationBacked(b)
    /\ \A l \in Launch : Backed(l, state[l])

(* A payload that has ended stays as it ended.                             *)
Forward ==
    \A l \in Launch : payload[l] # "running" =>
        /\ payload'[l] = payload[l]
        /\ exit[l] = "ok" => exit'[l] = "ok"

LEMMA BackedStays ==
    ASSUME Forward, NEW l \in Launch, NEW to, Backed(l, to)
    PROVE  Backed(l, to)'
  BY DEF Forward, Backed

(* A step of broker b: whatever else it does, it keeps the other brokers'  *)
(* operations, no ended payload changes, what it records it had seen, and  *)
(* so had it what it now means to record.                                  *)
LEMMA BackedBy ==
    ASSUME TypeOK, BackedInv, Forward, NEW b \in Broker,
           \A c \in Broker : c # b => op'[c] = op[c],
           \A l \in Launch :
              state'[l] = state[l] \/ Backed(l, state'[l]),
           OperationBacked(b)'
    PROVE  BackedInv'
  <1>1. ASSUME NEW c \in Broker, c # b PROVE OperationBacked(c)'
    <2> SUFFICES ASSUME op[c].at \in {"release", "unlease", "check", "write"}
                 PROVE  Backed(op[c].launch, op[c].to)'
      BY <1>1 DEF OperationBacked
    <2>1. op[c].launch \in Launch
      BY DEF TypeOK, Operation, Idle
    <2>2. Backed(op[c].launch, op[c].to)
      BY DEF BackedInv, OperationBacked
    <2>3. op'[c].launch = op[c].launch /\ op'[c].to = op[c].to
      BY <1>1
    <2> QED BY <2>1, <2>2, <2>3, BackedStays DEF Forward, Backed
  <1>2. ASSUME NEW l \in Launch PROVE Backed(l, state[l])'
    BY BackedStays DEF BackedInv, Forward, Backed
  <1> QED BY <1>1, <1>2 DEF BackedInv

LEMMA BackedInit == Init => BackedInv
  BY DEF Init, BackedInv, OperationBacked, Backed, Idle, SuccessState

(* The end of a kill: a confirmed stop is the stop of an ended payload.    *)
LEMMA KillBacked ==
    ASSUME TypeOK, BackedInv, NEW b \in Broker, Kill(b)
    PROVE  BackedInv'
  <1> DEFINE l == op[b].launch  how == op[b].how
  <1>1. l \in Launch
    BY InOperation DEF Kill, Point
  <1>2. PICK r \in KillResult(l, how) :
           /\ payload' = [payload EXCEPT ![l] = r[1]]
           /\ exit' = [exit EXCEPT ![l] = IF r[1] = "running" THEN @
                                          ELSE IF @ = "none" THEN "bad"
                                                             ELSE @]
           /\ Goes(b, l, IF how = "adopted" THEN "unlease" ELSE "check", how,
                   IF r[2] THEN Stopped(b) ELSE Unstopped(b))
    BY DEF Kill
  <1>3. /\ payload[l] # "running" => r[1] = payload[l]
        /\ r[2] => r[1] # "running"
    <2>1. CASE payload[l] = "running"
      <3>1. \/ r = <<"final", TRUE>>
            \/ r = <<"lost", how # "process">>
            \/ r = <<"running", FALSE>>
        BY <1>2, <2>1, Zenon DEF KillResult
      <3>2. r[1] # "running" \/ ~r[2]
        <4>1. CASE r = <<"final", TRUE>>
          BY <4>1
        <4>2. CASE r = <<"lost", how # "process">>
          <5>1. r[1] = "lost"
            BY <4>2, First, Zenon
          <5> QED BY <5>1
        <4>3. CASE r = <<"running", FALSE>>
          BY <4>3
        <4> QED BY <3>1, <4>1, <4>2, <4>3
      <3> QED BY <2>1, <3>2
    <2>2. CASE payload[l] # "running"
      <3>1. r = <<payload[l], payload[l] = "final" \/ how = "group">>
        BY <1>2, <2>2, Zenon DEF KillResult
      <3> QED BY <2>2, <3>1
    <2> QED BY <2>1, <2>2
  <1>4. Forward
    BY <1>1, <1>2, <1>3 DEF Forward, TypeOK
  <1>5. /\ \A c \in Broker : c # b => op'[c] = op[c]
        /\ op'[b].launch = l
        /\ op'[b].to = IF r[2] THEN Stopped(b) ELSE Unstopped(b)
        /\ state' = state
    BY <1>2 DEF Kill, Goes, TypeOK, disk
  <1>6. OperationBacked(b)'
    <2>1. CASE r[2]
      <3>1. op'[b].to \in {"timed_out", "cancelled"}
        BY <1>5, <2>1 DEF Stopped
      <3>2. payload'[l] # "running"
        BY <1>1, <1>2, <1>3, <2>1 DEF TypeOK
      <3> QED BY <1>5, <3>1, <3>2 DEF OperationBacked, Backed, SuccessState
    <2>2. CASE ~r[2]
      <3>1. op'[b].to \in {"recovery_required", "failed"}
        BY <1>5, <2>2 DEF Unstopped
      <3> QED BY <3>1 DEF OperationBacked, Backed, SuccessState
    <2> QED BY <2>1, <2>2
  <1> QED BY <1>4, <1>5, <1>6, BackedBy

LEMMA BackedContinues ==
    ASSUME TypeOK, BackedInv, NEW b \in Broker, Continues(b)
    PROVE  BackedInv'
  <1> DEFINE l == op[b].launch
  <1>1. CASE Check(b)
    <2>1. /\ op[b] \in Operation /\ l \in Launch /\ op[b].at = "check"
      BY <1>1, InOperation DEF Check, Point, At
    <2>2. UNCHANGED <<state, payload, exit>>
      BY <1>1 DEF Check, disk, world
    <2>3. /\ \A c \in Broker : c # b => op'[c] = op[c]
          /\ \/ op'[b].at = "idle"
             \/ op'[b].launch = l /\ op'[b].to = op[b].to
      BY <1>1, <2>1 DEF Check, Proceeds, Ends, Idle, TypeOK, Operation
    <2>4. OperationBacked(b)'
      BY <2>1, <2>2, <2>3 DEF BackedInv, OperationBacked, Backed
    <2> QED BY <2>2, <2>3, <2>4, BackedBy DEF Forward
  <1>2. CASE Write(b)
    <2>1. /\ op[b] \in Operation /\ l \in Launch /\ op[b].at = "write"
      BY <1>2, InOperation DEF Write, Point, At
    <2>2. /\ UNCHANGED <<payload, exit>>
          /\ state' = [state EXCEPT ![l] = op[b].to]
      BY <1>2 DEF Write, world
    <2>3. Backed(l, op[b].to)
      BY <2>1 DEF BackedInv, OperationBacked
    <2>4. /\ \A c \in Broker : c # b => op'[c] = op[c]
          /\ op'[b].at \in {"gather", "kill", "idle"}
      BY <1>2, <2>1 DEF Write, Proceeds, Ends, Idle, TypeOK, Operation
    <2>5. \A k \in Launch : state'[k] = state[k] \/ Backed(k, state'[k])
      BY <2>1, <2>2, <2>3 DEF TypeOK
    <2>6. OperationBacked(b)' /\ Forward
      BY <2>2, <2>4 DEF OperationBacked, Forward
    <2> QED BY <2>4, <2>5, <2>6, BackedBy
  <1>3. CASE TryAcquire(b)
    <2>1. UNCHANGED <<state, payload, exit>>
      BY <1>3 DEF TryAcquire, world
    <2>2. /\ \A c \in Broker : c # b => op'[c] = op[c]
          /\ op'[b].at = "idle" \/ op'[b].to \in {"running", "recovery_required"}
      BY <1>3 DEF TryAcquire, Goes, Ends, Idle, TypeOK
    <2>3. OperationBacked(b)' /\ Forward
      BY <2>1, <2>2 DEF OperationBacked, Backed, SuccessState, Forward
    <2> QED BY <2>1, <2>2, <2>3, BackedBy
  <1>4. CASE Gather(b)
    <2>1. l \in Launch
      BY <1>4, InOperation DEF Gather, Point
    <2>2. UNCHANGED <<state, payload, exit>>
      BY <1>4 DEF Gather, disk, world
    <2>3. /\ \A c \in Broker : c # b => op'[c] = op[c]
          /\ \/ op'[b].at = "idle"
             \/ /\ payload[l] # "running"
                /\ op'[b].launch = l /\ op'[b].to \in Outcome(l)
      BY <1>4 DEF Gather, Goes, Ends, Idle, TypeOK
    <2>4. OperationBacked(b)' /\ Forward
      BY <2>2, <2>3
         DEF OperationBacked, Backed, Outcome, SuccessState, Forward
    <2> QED BY <2>2, <2>3, <2>4, BackedBy
  <1>5. CASE Release(b)
    <2>1. /\ op[b] \in Operation /\ op[b].at = "release"
      BY <1>5, InOperation DEF Release, Point, At
    <2>2. UNCHANGED <<state, payload, exit>>
      BY <1>5 DEF Release, world
    <2>3. /\ \A c \in Broker : c # b => op'[c] = op[c]
          /\ op'[b].launch = l /\ op'[b].to = op[b].to
      BY <1>5, <2>1 DEF Release, Proceeds, TypeOK, Operation
    <2>4. OperationBacked(b)' /\ Forward
      BY <2>1, <2>2, <2>3 DEF BackedInv, OperationBacked, Backed, Forward
    <2> QED BY <2>2, <2>3, <2>4, BackedBy
  <1>6. CASE Unlease(b)
    <2>1. /\ op[b] \in Operation /\ op[b].at = "unlease"
      BY <1>6, InOperation DEF Unlease, Point, At
    <2>2. UNCHANGED <<state, payload, exit>>
      BY <1>6 DEF Unlease, world
    <2>3. /\ \A c \in Broker : c # b => op'[c] = op[c]
          /\ op'[b].launch = l /\ op'[b].to = op[b].to
      BY <1>6, <2>1 DEF Unlease, Proceeds, TypeOK, Operation
    <2>4. OperationBacked(b)' /\ Forward
      BY <2>1, <2>2, <2>3 DEF BackedInv, OperationBacked, Backed, Forward
    <2> QED BY <2>2, <2>3, <2>4, BackedBy
  <1> QED BY <1>1, <1>2, <1>3, <1>4, <1>5, <1>6, KillBacked DEF Continues

LEMMA BackedCalls ==
    ASSUME TypeOK, BackedInv, NEW b \in Broker, NEW l \in Launch, Calls(b, l)
    PROVE  BackedInv'
  <1>1. UNCHANGED <<state, payload, exit>>
    BY DEF Calls, Reconcile, Collect, CancelHeld, CancelUnheld, Timeout, disk,
           world
  <1>2. /\ \A c \in Broker : c # b => op'[c] = op[c]
        /\ \/ op'[b].at \in {"lease", "kill"}
           \/ op'[b].to \in {"recovery_required", "collecting", "cancelling"}
    BY DEF Calls, Reconcile, Collect, CancelHeld, CancelUnheld, Timeout, Goes,
           TypeOK
  <1>3. OperationBacked(b)' /\ Forward
    BY <1>1, <1>2 DEF OperationBacked, Backed, SuccessState, Forward
  <1> QED BY <1>1, <1>2, <1>3, BackedBy

LEMMA BackedStep ==
    ASSUME TypeOK, BackedInv, [Next]_vars
    PROVE  BackedInv'
  <1>1. ASSUME NEW b \in Broker, Close(b) \/ Crash(b) PROVE BackedInv'
    <2>1. UNCHANGED <<state, payload, exit>>
      BY <1>1 DEF Close, Crash, Gone, world
    <2>2. op' = [op EXCEPT ![b] = Idle]
      BY <1>1 DEF Close, Crash, Gone
    <2>3. OperationBacked(b)' /\ Forward
      BY <2>1, <2>2 DEF OperationBacked, Idle, Forward, TypeOK
    <2> QED BY <2>1, <2>2, <2>3, BackedBy DEF TypeOK
  <1>2. ASSUME UNCHANGED <<op, state>>, Forward PROVE BackedInv'
    <2>1. ASSUME NEW b \in Broker PROVE OperationBacked(b)'
      BY <1>2, BackedStays
         DEF BackedInv, OperationBacked, Backed, Forward, TypeOK, Operation,
             Idle
    <2> QED BY <1>2, <2>1 DEF BackedInv, Backed, Forward
  <1>3. ASSUME NEW b \in Broker, Starts(b) PROVE BackedInv'
    BY <1>2, <1>3 DEF Starts, ReadIdentity, TruncateIdentity, WriteIdentity,
                      disk, world, Forward
  <1>4. ASSUME NEW l \in Launch, LeaseExpires(l) PROVE BackedInv'
    BY <1>2, <1>4 DEF LeaseExpires, world, memory, Forward
  <1>5. ASSUME NEW l \in Launch, PayloadEnds(l) PROVE BackedInv'
    <2>1. Forward
      BY <1>5 DEF PayloadEnds, Forward, TypeOK
    <2> QED BY <1>2, <1>5, <2>1 DEF PayloadEnds, disk, memory
  <1>6. CASE UNCHANGED vars
    BY <1>2, <1>6 DEF vars, disk, world, memory, Forward
  <1> QED BY <1>1, <1>3, <1>4, <1>5, <1>6, BackedContinues, BackedCalls
       DEF Next

(* Whatever brokers overlap, crash or lose a lease: no task is recorded as *)
(* cancelled or timed out over a running payload, and none as a success    *)
(* that did not end in its manifest with status 0.                         *)
THEOREM ClaimsTrue == Spec => []ClaimsAreTrue
  <1>1. BackedInv => ClaimsAreTrue
    BY DEF BackedInv, Backed, ClaimsAreTrue, ClaimedStopIsStopped,
           SuccessIsObserved
  <1> QED BY <1>1, InitTyped, IdentityInit, TypeStep, IdentityStep,
             BackedInit, BackedStep, PTL DEF Spec
=============================================================================
