--------------------------- MODULE UartPoll_proofs ---------------------------
(***************************************************************************)
(* A polled device, for any devices, readings and limits: its alarms agree *)
(* with its latches, its page shows every parameter once, and a change of  *)
(* its limits reaches the thread.                                          *)
(***************************************************************************)
EXTENDS UartPoll, FiniteSetTheorems, TLAPS

IntLimit(limit) == \A field \in DOMAIN limit : limit[field] \in Int
List(p) == [1..ListSize(p) -> [value : Int, status : Statuses]]

\* What the alarms need to know of the other variables.
Lists ==
    /\ device \in Devices /\ property \in Properties
    /\ last = [p \in Properties |-> last[p]]
    /\ \A p \in Properties : last[p] # NoList => last[p] \in List(p)
    /\ raised \in [Params \cup {Device} -> BOOLEAN]

Comparing ==
    pc = "compare" => /\ last[property] # NoList /\ i \in 1..ListSize(property)
                      /\ values \in [1..ListSize(property) -> Int]

LimitsAreInts ==
    /\ IntLimit(table)
    /\ limits = [p \in Properties |-> limits[p]]
    /\ \A p \in Properties : IntLimit(limits[p])

\* The counter never runs ahead of the silence it counts.
Counted ==
    /\ com_fail_count \in Nat /\ com_fail_flag \in BOOLEAN /\ silent \in 0..2
    /\ com_fail_count > 0 => silent > 0

IInv == Lists /\ Comparing /\ LimitsAreInts /\ Counted /\ AlarmsMatchLatch

----------------------------------------------------------------------------
(***************************************************************************)
(* The latch of one parameter, whatever its limits                         *)
(***************************************************************************)
LEMMA StatusType ==
    ASSUME NEW status \in Statuses, NEW v, NEW type, NEW limit
    PROVE  NextStatus(status, v, type, limit) \in Statuses
BY DEF NextStatus, Statuses

LEMMA LimitFields ==
    ASSUME NEW limit, IntLimit(limit)
    PROVE  /\ Has(limit, "up_limit") => limit.up_limit \in Int
           /\ Has(limit, "up_free") => limit.up_free \in Int
           /\ Has(limit, "low_limit") => limit.low_limit \in Int
           /\ Has(limit, "low_free") => limit.low_free \in Int
BY DEF IntLimit, Has

\* Each comparison of the code, said with the integers On and Off of its side.
LEMMA UpBounds ==
    ASSUME NEW v \in Int, NEW type, NEW limit, IntLimit(limit), Has(limit, "up_limit")
    PROVE  /\ UpOn(type, limit) \in Int /\ UpOff(type, limit) \in Int
           /\ UpExceeded(v, type, limit) <=> v >= UpOn(type, limit)
           /\ UpReleased(v, type, limit) <=> v <= UpOff(type, limit)
<1>1. limit.up_limit \in Int /\ (Has(limit, "up_free") => limit.up_free \in Int)
  BY LimitFields
<1>2. UpOn(type, limit) \in Int /\ (UpExceeded(v, type, limit) <=> v >= UpOn(type, limit))
  BY <1>1 DEF UpOn, UpExceeded
<1>3. UpOff(type, limit) \in Int /\ (UpReleased(v, type, limit) <=> v <= UpOff(type, limit))
  BY <1>1 DEF UpOff, UpReleased
<1>4. QED BY <1>2, <1>3

LEMMA LowBounds ==
    ASSUME NEW v \in Int, NEW type, NEW limit, IntLimit(limit), Has(limit, "low_limit")
    PROVE  /\ LowOn(type, limit) \in Int /\ LowOff(type, limit) \in Int
           /\ LowExceeded(v, type, limit) <=> v <= LowOn(type, limit)
           /\ LowReleased(v, type, limit) <=> v >= LowOff(type, limit)
<1>1. limit.low_limit \in Int /\ (Has(limit, "low_free") => limit.low_free \in Int)
  BY LimitFields
<1>2. LowOn(type, limit) \in Int /\ (LowExceeded(v, type, limit) <=> v <= LowOn(type, limit))
  BY <1>1 DEF LowOn, LowExceeded
<1>3. LowOff(type, limit) \in Int /\ (LowReleased(v, type, limit) <=> v >= LowOff(type, limit))
  BY <1>1 DEF LowOff, LowReleased
<1>4. QED BY <1>2, <1>3

LEMMA NoSide ==
    ASSUME NEW v, NEW type, NEW limit
    PROVE  /\ ~Has(limit, "up_limit") =>
                 UpReleased(v, type, limit) /\ ~UpExceeded(v, type, limit)
           /\ ~Has(limit, "low_limit") =>
                 LowReleased(v, type, limit) /\ ~LowExceeded(v, type, limit)
BY DEF UpReleased, UpExceeded, LowReleased, LowExceeded

\* NextStatus is the hysteresis between On and Off, on both sides at once.
LEMMA Hysteresis ==
    ASSUME NEW old \in Statuses, NEW v \in Int, NEW type, NEW limit, IntLimit(limit),
           Ordered(type, limit)
    PROVE  LET new == NextStatus(old, v, type, limit)
           IN  /\ FollowsUp(old, new, v, type, limit)
               /\ FollowsLow(old, new, v, type, limit)
               /\ Settles(new, v, type, limit)
<1> DEFINE new == NextStatus(old, v, type, limit)
<1>1. /\ Has(limit, "up_limit") => UpOff(type, limit) < UpOn(type, limit)
      /\ Has(limit, "low_limit") => LowOn(type, limit) < LowOff(type, limit)
      /\ Has(limit, "up_limit") /\ Has(limit, "low_limit") => LowOn(type, limit) < UpOn(type, limit)
  BY DEF Ordered
<1>2. FollowsUp(old, new, v, type, limit)
  <2>1. CASE Has(limit, "up_limit")
    <3>1. CASE Has(limit, "low_limit")
      BY <1>1, <2>1, <3>1, UpBounds, LowBounds DEF FollowsUp, NextStatus, Statuses
    <3>2. CASE ~Has(limit, "low_limit")
      BY <1>1, <2>1, <3>2, UpBounds, NoSide DEF FollowsUp, NextStatus, Statuses
    <3>3. QED BY <3>1, <3>2
  <2>2. CASE ~Has(limit, "up_limit")
    BY <2>2, NoSide DEF FollowsUp, NextStatus, Statuses
  <2>3. QED BY <2>1, <2>2
<1>3. FollowsLow(old, new, v, type, limit)
  <2>1. CASE Has(limit, "low_limit")
    <3>1. CASE Has(limit, "up_limit")
      BY <1>1, <2>1, <3>1, UpBounds, LowBounds DEF FollowsLow, NextStatus, Statuses
    <3>2. CASE ~Has(limit, "up_limit")
      BY <1>1, <2>1, <3>2, LowBounds, NoSide DEF FollowsLow, NextStatus, Statuses
    <3>3. QED BY <3>1, <3>2
  <2>2. CASE ~Has(limit, "low_limit")
    BY <2>2, NoSide DEF FollowsLow, NextStatus, Statuses
  <2>3. QED BY <2>1, <2>2
<1>4. /\ ~(UpExceeded(v, type, limit) /\ UpReleased(v, type, limit))
      /\ ~(LowExceeded(v, type, limit) /\ LowReleased(v, type, limit))
  <2>1. ~(UpExceeded(v, type, limit) /\ UpReleased(v, type, limit))
    BY <1>1, UpBounds, NoSide
  <2>2. ~(LowExceeded(v, type, limit) /\ LowReleased(v, type, limit))
    BY <1>1, LowBounds, NoSide
  <2>3. QED BY <2>1, <2>2
<1>5. Settles(new, v, type, limit)
  BY <1>4 DEF Settles, NextStatus, Statuses
<1>6. QED BY <1>2, <1>3, <1>5

----------------------------------------------------------------------------
LEMMA Sizes ==
    ASSUME NEW d \in Devices
    PROVE  /\ Len(Types[d]) \in Nat \ {0} /\ DOMAIN Types[d] = 1..Len(Types[d])
           /\ \A p \in 1..Len(Types[d]) : Len(Types[d][p]) \in Nat \ {0}
<1>1. Types[d] \in Seq(Seq({"analog", "enum"}) \ {<<>>}) /\ Types[d] # <<>>
  BY UartAssumption
<1>2. \A p \in 1..Len(Types[d]) : Types[d][p] \in Seq({"analog", "enum"}) /\ Types[d][p] # <<>>
  BY <1>1
<1>3. QED BY <1>1, <1>2

\* The device keeps its properties and parameters, of which it is none itself.
LEMMA SameDevice ==
    ASSUME device \in Devices
    PROVE  /\ device' = device => Properties' = Properties /\ Params' = Params
           /\ device' = device => \A p \in Properties : ListSize(p)' = ListSize(p)
           /\ Device \notin Params
           /\ \A p \in Properties : \A k \in 1..ListSize(p) : <<p, k>> \in Params
           /\ Properties = 1..Len(Types[device])
           /\ \A p \in Properties : ListSize(p) \in Nat \ {0}
<1>1. /\ Properties = 1..Len(Types[device])
      /\ \A p \in Properties : ListSize(p) \in Nat \ {0}
  BY Sizes DEF Properties, ListSize
<1>2. Device \notin Params
  BY <1>1 DEF Device, Params
<1>3. \A p \in Properties : \A k \in 1..ListSize(p) : <<p, k>> \in Params
  BY DEF Params
<1>4. device' = device => /\ Properties' = Properties /\ Params' = Params
                          /\ \A p \in Properties : ListSize(p)' = ListSize(p)
  BY DEF Properties, Params, ListSize
<1>5. QED BY <1>1, <1>2, <1>3, <1>4

\* A parameter is a property and a place in its list.
LEMMA ParamIs ==
    ASSUME NEW param \in Params
    PROVE  /\ param[1] \in Properties /\ param[2] \in 1..ListSize(param[1])
           /\ param = <<param[1], param[2]>>
BY DEF Params

LEMMA InitInv == Init => IInv
<1> SUFFICES ASSUME Init PROVE IInv
  OBVIOUS
<1>1. device \in Devices /\ table \in Limits[device] /\ Properties = 1..Len(Types[device])
  BY SameDevice DEF Init
<1>2. Lists
  <2>1. 1 \in Properties
    BY <1>1, Sizes
  <2>2. QED BY <1>1, <2>1 DEF Init, Lists
<1>3. Comparing /\ Counted
  <2>1. pc = "ask" /\ com_fail_count = 0 /\ com_fail_flag = FALSE /\ silent = 0
    BY DEF Init
  <2>2. com_fail_flag \in BOOLEAN
    BY <2>1, Zenon
  <2>3. com_fail_count \in Nat /\ silent \in 0..2 /\ ~(com_fail_count > 0)
    BY <2>1
  <2>4. Comparing
    BY <2>1 DEF Comparing
  <2>5. QED BY <2>2, <2>3, <2>4 DEF Counted
<1>4. LimitsAreInts
  <2>1. IntLimit(table)
    BY <1>1, UartAssumption DEF IntLimit
  <2>2. IntLimit(NoLimits)
    BY DEF IntLimit, NoLimits
  <2>3. QED BY <2>1, <2>2 DEF Init, LimitsAreInts
<1>5. AlarmsMatchLatch
  BY ParamIs DEF Init, AlarmsMatchLatch, Status
<1>6. QED BY <1>2, <1>3, <1>4, <1>5 DEF IInv

\* Limits that are read, or kept, are integers.
LEMMA ReadLimitsInts ==
    ASSUME IInv, device' = device, ReadLimits \/ UNCHANGED config PROVE LimitsAreInts'
<1>1. Properties' = Properties /\ property \in Properties
  BY SameDevice DEF IInv, Lists
<1>2. table' = table /\ (limits' = limits \/ limits' = [limits EXCEPT ![property] = table])
  BY DEF ReadLimits, QueryLimits, config
<1>3. QED BY <1>1, <1>2 DEF IInv, LimitsAreInts, IntLimit

\* An alarm of the device changes nothing but its own entry.
LEMMA DeviceAlarm ==
    ASSUME IInv, NEW raise \in BOOLEAN, record_com_fail(raise)
    PROVE  /\ raised' \in [Params \cup {Device} -> BOOLEAN]
           /\ \A param \in Params : raised'[param] = raised[param]
           /\ ~lost' => raised'[Device] = raise
BY SameDevice DEF IInv, Lists, record_com_fail

\* The same latches, and of the parameters the same alarms.
LEMMA SameStatus ==
    ASSUME IInv, device' = device, last' = last,
           raised' \in [Params \cup {Device} -> BOOLEAN],
           \A param \in Params : raised'[param] = raised[param],
           ~lost' => (com_fail_flag' <=> raised'[Device]),
           com_fail_flag' => silent' = 2,
           property' \in Properties
    PROVE  Lists' /\ AlarmsMatchLatch'
<1>1. /\ Properties' = Properties /\ Params' = Params
      /\ \A p \in Properties : ListSize(p)' = ListSize(p)
  BY SameDevice DEF IInv, Lists
<1>2. Lists'
  BY <1>1 DEF IInv, Lists, List
<1>3. \A param \in Params : Status(param)' = Status(param)
  BY DEF Status
<1>4. AlarmsMatchLatch'
  BY <1>1, <1>3 DEF IInv, AlarmsMatchLatch
<1>5. QED BY <1>2, <1>4

LEMMA NextPropertyIs ==
    ASSUME IInv, NextProperty PROVE property' \in Properties /\ pc' # "compare"
BY SameDevice DEF IInv, Lists, NextProperty

\* The requests that bring no values to compare.
LEMMA NoValuesInv ==
    ASSUME IInv, WriteFails \/ NoAnswer \/ BadAnswer PROVE IInv'
<1>1. /\ device' = device /\ last' = last /\ ReadLimits /\ NextProperty
      /\ property' \in Properties /\ pc' # "compare"
  BY NextPropertyIs DEF WriteFails, NoAnswer, BadAnswer
<1>2. LimitsAreInts' /\ Comparing'
  BY <1>1, ReadLimitsInts DEF Comparing
<1>3. CASE WriteFails \/ BadAnswer
  <2>1. raised' = raised /\ UNCHANGED com
    BY <1>3 DEF WriteFails, BadAnswer
  <2>2. Lists' /\ AlarmsMatchLatch'
    BY <1>1, <2>1, SameStatus DEF com, IInv, Lists, AlarmsMatchLatch
  <2>3. Counted'
    BY <2>1 DEF com, IInv, Counted
  <2>4. QED BY <1>2, <2>2, <2>3 DEF IInv
<1>4. CASE NoAnswer
  <2>1. silent' = (IF silent < 2 THEN silent + 1 ELSE 2) /\ CountSilence
    BY <1>4 DEF NoAnswer
  <2>2. CASE com_fail_flag
    <3>1. /\ raised' = raised /\ lost' = lost /\ com_fail_flag' = com_fail_flag
          /\ com_fail_count' = com_fail_count /\ silent' = 2 /\ silent = 2
      BY <2>1, <2>2 DEF CountSilence, IInv, AlarmsMatchLatch
    <3>2. Lists' /\ AlarmsMatchLatch'
      BY <1>1, <3>1, SameStatus DEF IInv, Lists, AlarmsMatchLatch
    <3>3. Counted'
      BY <3>1 DEF IInv, Counted
    <3>4. QED BY <1>2, <3>2, <3>3 DEF IInv
  <2>3. CASE ~com_fail_flag
    <3>1. /\ com_fail_count' = com_fail_count + 1 /\ com_fail_flag' = (com_fail_count > 0)
          /\ com_fail_flag' => record_com_fail(TRUE)
          /\ ~com_fail_flag' => raised' = raised /\ lost' = lost
      BY <2>1, <2>3 DEF CountSilence
    <3>2. silent' \in 1..2 /\ (com_fail_flag' => silent' = 2)
      <4>1. silent \in 0..2 /\ com_fail_count \in Nat /\ (com_fail_count > 0 => silent > 0)
        BY DEF IInv, Counted
      <4>2. silent' \in 1..2 /\ (silent > 0 => silent' = 2)
        BY <2>1, <4>1
      <4>3. com_fail_flag' => com_fail_count > 0
        BY <3>1
      <4>4. QED BY <4>1, <4>2, <4>3
    <3>3. Counted'
      BY <3>1, <3>2 DEF IInv, Counted
    <3>4. /\ raised' \in [Params \cup {Device} -> BOOLEAN]
          /\ \A param \in Params : raised'[param] = raised[param]
          /\ ~lost' => (com_fail_flag' <=> raised'[Device])
      <4>1. CASE com_fail_flag'
        BY <3>1, <4>1, DeviceAlarm
      <4>2. CASE ~com_fail_flag'
        BY <2>3, <3>1, <4>2 DEF IInv, Lists, AlarmsMatchLatch
      <4>3. QED BY <4>1, <4>2
    <3>5. Lists' /\ AlarmsMatchLatch'
      BY <1>1, <3>2, <3>4, SameStatus
    <3>6. QED BY <1>2, <3>3, <3>5 DEF IInv
  <2>4. QED BY <2>2, <2>3
<1>5. QED BY <1>3, <1>4

\* The first answer makes a list of its own, in which nothing is in alarm.
LEMMA FirstAnswerInv == ASSUME IInv, FirstAnswer PROVE IInv'
<1>1. /\ device' = device /\ property' = property /\ pc' = "answered"
      /\ raised' = raised /\ UNCHANGED com /\ ReadLimits /\ last[property] = NoList
  BY DEF FirstAnswer
<1>2. PICK v \in [1..ListSize(property) -> Readings[device]] :
        last' = [last EXCEPT ![property] = [k \in DOMAIN v |->
                                              [value |-> v[k], status |-> "NORMAL"]]]
  BY DEF FirstAnswer
<1> DEFINE new == [k \in 1..ListSize(property) |-> [value |-> v[k], status |-> "NORMAL"]]
<1>3. device \in Devices /\ property \in Properties
  BY DEF IInv, Lists
<1>4. new \in List(property)
  <2>1. \A k \in 1..ListSize(property) : v[k] \in Int
    BY <1>3, UartAssumption
  <2>2. QED BY <2>1 DEF List, Statuses
<1>5. /\ last' = [p \in Properties |-> last'[p]]
      /\ last'[property] = new /\ \A p \in Properties \ {property} : last'[p] = last[p]
  BY <1>2, <1>3 DEF IInv, Lists
<1>6. /\ Properties' = Properties /\ Params' = Params
      /\ \A p \in Properties : ListSize(p)' = ListSize(p)
  BY <1>1, <1>3, SameDevice
<1>7. Lists'
  BY <1>1, <1>3, <1>4, <1>5, <1>6 DEF IInv, Lists, List
<1>8. \A param \in Params : Status(param)' = Status(param)
  <2> SUFFICES ASSUME NEW param \in Params PROVE Status(param)' = Status(param)
    OBVIOUS
  <2>1. param[1] \in Properties /\ param[2] \in 1..ListSize(param[1])
    BY ParamIs
  <2>2. CASE param[1] = property
    BY <1>1, <1>5, <2>1, <2>2 DEF Status
  <2>3. CASE param[1] # property
    BY <1>5, <2>1, <2>3 DEF Status
  <2>4. QED BY <2>2, <2>3
<1>9. AlarmsMatchLatch'
  BY <1>1, <1>6, <1>8 DEF com, IInv, AlarmsMatchLatch
<1>10. LimitsAreInts' /\ Comparing' /\ Counted'
  BY <1>1, ReadLimitsInts DEF com, IInv, Comparing, Counted
<1>11. QED BY <1>7, <1>9, <1>10 DEF IInv

LEMMA GoodAnswerInv == ASSUME IInv, GoodAnswer PROVE IInv'
<1>1. /\ device' = device /\ property' = property /\ last' = last /\ i' = 1
      /\ raised' = raised /\ UNCHANGED com /\ ReadLimits /\ last[property] # NoList
      /\ values' \in [1..ListSize(property) -> Readings[device]]
  BY DEF GoodAnswer
<1>2. device \in Devices /\ property \in Properties
  BY DEF IInv, Lists
<1>3. Lists' /\ AlarmsMatchLatch'
  BY <1>1, <1>2, SameStatus DEF com, IInv, Lists, AlarmsMatchLatch
<1>4. Comparing'
  <2>1. values' \in [1..ListSize(property) -> Int]
    BY <1>1, <1>2, UartAssumption
  <2>2. ListSize(property)' = ListSize(property) /\ 1 \in 1..ListSize(property)
    BY <1>1, <1>2, SameDevice DEF ListSize
  <2>3. QED BY <1>1, <2>1, <2>2 DEF Comparing
<1>5. LimitsAreInts' /\ Counted'
  BY <1>1, ReadLimitsInts DEF com, IInv, Counted
<1>6. QED BY <1>3, <1>4, <1>5 DEF IInv

----------------------------------------------------------------------------
\* The entry of the parameter that is compared takes a new value and status s, and its last
\* alarm says so.
Latches(s) ==
    /\ last' = [last EXCEPT ![property][i] = [value |-> values[i], status |-> s]]
    /\ raised' \in [Params \cup {Device} -> BOOLEAN]
    /\ raised'[<<property, i>>] <=> s # "NORMAL"
    /\ \A param \in (Params \cup {Device}) \ {<<property, i>>} : raised'[param] = raised[param]

LEMMA LatchInv ==
    ASSUME IInv, pc = "compare", device' = device, property' = property, values' = values,
           UNCHANGED com, UNCHANGED config, NextParam, NEW s \in Statuses, Latches(s)
    PROVE  /\ IInv'
           /\ \A param \in Params : param = <<property, i>> => Status(param)' = s
           /\ \A param \in Params : param # <<property, i>> => Status(param)' = Status(param)
<1>1. /\ device \in Devices /\ property \in Properties /\ i \in 1..ListSize(property)
      /\ last[property] \in List(property) /\ values[i] \in Int
      /\ values \in [1..ListSize(property) -> Int]
      /\ last = [p \in Properties |-> last[p]]
  BY DEF IInv, Lists, Comparing
<1>2. /\ Properties' = Properties /\ Params' = Params
      /\ \A p \in Properties : ListSize(p)' = ListSize(p)
      /\ Device \notin Params /\ <<property, i>> \in Params
      /\ ListSize(property) \in Nat \ {0}
  BY <1>1, SameDevice
<1> DEFINE entry == [value |-> values[i], status |-> s]
           list  == [last[property] EXCEPT ![i] = entry]
<1>3. /\ last' = [p \in Properties |-> last'[p]]
      /\ last'[property] = list /\ \A p \in Properties \ {property} : last'[p] = last[p]
  BY <1>1 DEF Latches
<1>4. /\ list \in List(property)
      /\ list[i] = entry /\ \A k \in 1..ListSize(property) \ {i} : list[k] = last[property][k]
  BY <1>1 DEF List
<1>5. list # NoList /\ last[property] # NoList
  <2>1. DOMAIN list = 1..ListSize(property) /\ DOMAIN last[property] = 1..ListSize(property)
    BY <1>1, <1>4 DEF List
  <2>2. DOMAIN NoList = {}
    BY DEF NoList
  <2>3. QED BY <1>1, <2>1, <2>2
<1> HIDE DEF list
<1>6. Lists'
  <2>1. \A p \in Properties' : last'[p] # NoList => last'[p] \in List(p)'
    BY <1>1, <1>2, <1>3, <1>4 DEF IInv, Lists, List
  <2>2. last' = [p \in Properties' |-> last'[p]]
    BY <1>2, <1>3
  <2>3. QED BY <1>1, <1>2, <2>1, <2>2 DEF Lists, Latches
<1>7. ASSUME NEW param \in Params, param = <<property, i>> PROVE Status(param)' = s
  <2>1. param[1] = property /\ param[2] = i
    BY <1>7
  <2>2. list[i].status = s
    BY <1>4
  <2>3. QED BY <1>1, <1>3, <1>5, <2>1, <2>2 DEF Status
<1>8. ASSUME NEW param \in Params, param # <<property, i>>
      PROVE  Status(param)' = Status(param)
  <2>1. param[1] \in Properties /\ param[2] \in 1..ListSize(param[1])
        /\ param = <<param[1], param[2]>>
    BY ParamIs
  <2>2. CASE param[1] = property
    <3>1. param[2] # i
      BY <1>8, <2>1, <2>2
    <3>2. QED BY <1>3, <1>4, <1>5, <2>1, <2>2, <3>1 DEF Status
  <2>3. CASE param[1] # property
    BY <1>3, <2>1, <2>3 DEF Status
  <2>4. QED BY <2>2, <2>3
<1>9. AlarmsMatchLatch'
  <2>1. \A param \in Params : (Status(param)' # "NORMAL") <=> raised'[param]
    <3> SUFFICES ASSUME NEW param \in Params
                 PROVE  (Status(param)' # "NORMAL") <=> raised'[param]
      OBVIOUS
    <3>1. CASE param = <<property, i>>
      BY <1>7, <3>1 DEF Latches
    <3>2. CASE param # <<property, i>>
      BY <1>8, <3>2 DEF IInv, AlarmsMatchLatch, Latches
    <3>3. QED BY <3>1, <3>2
  <2>2. raised'[Device] = raised[Device]
    BY <1>2 DEF Latches
  <2>3. QED BY <1>2, <2>1, <2>2 DEF com, IInv, AlarmsMatchLatch
<1>10. Comparing'
  <2>1. CASE i < ListSize(property)
    BY <1>1, <1>2, <1>3, <1>5, <2>1 DEF NextParam, Comparing
  <2>2. CASE ~(i < ListSize(property))
    BY <2>2 DEF NextParam, Comparing
  <2>3. QED BY <2>1, <2>2
<1>11. LimitsAreInts' /\ Counted'
  BY ReadLimitsInts DEF com, IInv, Counted
<1>12. QED BY <1>6, <1>7, <1>8, <1>9, <1>10, <1>11 DEF IInv

LEMMA ComparedIs ==
    ASSUME IInv, pc = "compare"
    PROVE  /\ last[property][i] \in [value : Int, status : Statuses]
           /\ Status(<<property, i>>) = last[property][i].status
           /\ values[i] \in Int /\ <<property, i>> \in Params
           /\ IntLimit(limits[property])
<1>1. /\ device \in Devices /\ property \in Properties /\ i \in 1..ListSize(property)
      /\ last[property] # NoList /\ last[property] \in List(property)
      /\ values \in [1..ListSize(property) -> Int]
  BY DEF IInv, Lists, Comparing
<1>2. QED BY <1>1, SameDevice DEF List, Status, IInv, LimitsAreInts

LEMMA CompareInv ==
    ASSUME IInv, Compare
    PROVE  /\ IInv'
           /\ \A param \in Params : param = <<property, i>> =>
                 Status(param)' = NextStatus(Status(param), values[i], TypeOf(param),
                                             limits[property])
           /\ \A param \in Params : param # <<property, i>> => Status(param)' = Status(param)
<1> DEFINE old == last[property][i]
           s == NextStatus(old.status, values[i], TypeOf(<<property, i>>), limits[property])
<1>1. /\ pc = "compare" /\ device' = device /\ property' = property /\ values' = values
      /\ UNCHANGED com /\ UNCHANGED config /\ NextParam
      /\ last' = [last EXCEPT ![property][i] = [value |-> values[i], status |-> s]]
      /\ raised' = IF s = old.status THEN raised
                   ELSE [raised EXCEPT ![<<property, i>>] = (s # "NORMAL")]
  BY DEF Compare
<1>2. /\ old.status \in Statuses /\ old.status = Status(<<property, i>>)
      /\ <<property, i>> \in Params
  BY <1>1, ComparedIs
<1>3. s \in Statuses
  BY <1>2, StatusType
<1> HIDE DEF s
<1>4. Latches(s)
  <2>1. raised \in [Params \cup {Device} -> BOOLEAN]
        /\ (raised[<<property, i>>] <=> old.status # "NORMAL")
    BY <1>2 DEF IInv, Lists, AlarmsMatchLatch
  <2>2. CASE s = old.status
    BY <1>1, <2>1, <2>2 DEF Latches
  <2>3. CASE s # old.status
    BY <1>1, <1>2, <2>1, <2>3 DEF Latches
  <2>4. QED BY <2>2, <2>3
<1>5. PICK t \in Statuses : t = s
  BY <1>3
<1>6. Latches(t)
  BY <1>4, <1>5
<1>7. /\ IInv' /\ \A param \in Params : param = <<property, i>> => Status(param)' = t
      /\ \A param \in Params : param # <<property, i>> => Status(param)' = Status(param)
  BY <1>1, <1>6, LatchInv
<1>8. QED BY <1>2, <1>5, <1>7 DEF s

LEMMA CompareRefusedInv == ASSUME IInv, CompareRefused PROVE IInv'
<1> DEFINE old == last[property][i]
<1>1. /\ pc = "compare" /\ device' = device /\ property' = property /\ values' = values
      /\ UNCHANGED com /\ UNCHANGED config /\ NextParam /\ raised' = raised
      /\ last' = [last EXCEPT ![property][i] = [old EXCEPT !.value = values[i]]]
  BY DEF CompareRefused, NotLatched
<1>2. /\ old \in [value : Int, status : Statuses] /\ old.status = Status(<<property, i>>)
      /\ <<property, i>> \in Params
  BY <1>1, ComparedIs
<1>3. [old EXCEPT !.value = values[i]] = [value |-> values[i], status |-> old.status]
  BY <1>2
<1>4. PICK t \in Statuses : t = old.status
  BY <1>2
<1>5. Latches(t)
  BY <1>1, <1>2, <1>3, <1>4 DEF Latches, IInv, Lists, AlarmsMatchLatch
<1>6. QED BY <1>1, <1>5, LatchInv

----------------------------------------------------------------------------
LEMMA DeviceAnsweredInv == ASSUME IInv, DeviceAnswered PROVE IInv'
<1>1. /\ device' = device /\ last' = last /\ UNCHANGED config
      /\ com_fail_count' = 0 /\ silent' = 0 /\ com_fail_flag' = FALSE
      /\ property' \in Properties /\ pc' # "compare"
      /\ IF com_fail_flag THEN record_com_fail(FALSE) ELSE UNCHANGED <<raised, lost>>
  BY NextPropertyIs DEF DeviceAnswered
<1>2. /\ raised' \in [Params \cup {Device} -> BOOLEAN]
      /\ \A param \in Params : raised'[param] = raised[param]
      /\ ~lost' => ~raised'[Device]
  <2>1. CASE com_fail_flag
    BY <1>1, <2>1, DeviceAlarm
  <2>2. CASE ~com_fail_flag
    BY <1>1, <2>2 DEF IInv, Lists, AlarmsMatchLatch
  <2>3. QED BY <2>1, <2>2
<1>3. Lists' /\ AlarmsMatchLatch'
  <2>1. ~lost' => (com_fail_flag' <=> raised'[Device])
    BY <1>1, <1>2
  <2>2. com_fail_flag' => silent' = 2
    BY <1>1
  <2>3. QED BY <1>1, <1>2, <2>1, <2>2, SameStatus
<1>4. Counted'
  <2>1. com_fail_flag' \in BOOLEAN
    BY <1>1, Zenon
  <2>2. com_fail_count' \in Nat /\ silent' \in 0..2 /\ ~(com_fail_count' > 0)
    BY <1>1
  <2>3. QED BY <2>1, <2>2 DEF Counted
<1>5. LimitsAreInts' /\ Comparing'
  BY <1>1, ReadLimitsInts DEF Comparing
<1>6. QED BY <1>3, <1>4, <1>5 DEF IInv

\* The end of a pass, a change of the table, and a step of no consequence.
LEMMA OtherInv ==
    ASSUME IInv, PassEnds \/ ChangeLimits \/ uartVars' = uartVars PROVE IInv'
<1>1. /\ device' = device /\ last' = last /\ raised' = raised /\ UNCHANGED com
      /\ values' = values /\ i' = i /\ limits' = limits
  BY DEF PassEnds, ChangeLimits, uartVars, com, pass
<1>2. device \in Devices /\ property \in Properties
  BY DEF IInv, Lists
<1>2a. /\ Properties' = Properties /\ \A p \in Properties : ListSize(p)' = ListSize(p)
      /\ 1 \in Properties
  BY <1>1, <1>2, SameDevice, Sizes
<1>3. property' \in Properties /\ (pc' = "compare" => pc = "compare" /\ property' = property)
  BY <1>2, <1>2a DEF PassEnds, ChangeLimits, uartVars, pass
<1>4. Lists' /\ AlarmsMatchLatch'
  BY <1>1, <1>3, SameStatus DEF com, IInv, Lists, AlarmsMatchLatch
<1>5. Comparing' /\ Counted'
  BY <1>1, <1>2, <1>3, <1>2a DEF com, IInv, Comparing, Counted
<1>6. table' = table \/ table' \in Limits[device]
  BY DEF PassEnds, ChangeLimits, uartVars
<1>7. LimitsAreInts'
  BY <1>1, <1>2, <1>6, <1>2a, UartAssumption DEF IInv, LimitsAreInts, IntLimit
<1>8. QED BY <1>4, <1>5, <1>7 DEF IInv

LEMMA NextInv == IInv /\ [Next]_uartVars => IInv'
BY NoValuesInv, FirstAnswerInv, GoodAnswerInv, CompareRefusedInv, CompareInv, DeviceAnsweredInv,
   OtherInv DEF Next, Poll

\* The invariant is inductive, for any devices, readings and limits.
THEOREM InductiveInvariant == Spec => []IInv
BY InitInv, NextInv, PTL DEF Spec

\* Latches and offered alarms agree, for any devices, readings and limits.
THEOREM LatchesMatch == Spec => []AlarmsMatchLatch
<1>1. IInv => AlarmsMatchLatch
  BY DEF IInv
<1>2. QED BY <1>1, InductiveInvariant, PTL

\* The status follows the reading between limit and release value, for any limits whose
\* release values are on their right sides.
THEOREM StatusFollows == Spec => StatusFollowsReading
<1>1. IInv /\ [Next]_uartVars =>
        [\A param \in Params : Compare /\ param = <<property, i>> =>
            LET v == values[i]  limit == limits[property]  type == TypeOf(param)
            IN  Ordered(type, limit) =>
                    /\ FollowsUp(Status(param), Status(param)', v, type, limit)
                    /\ FollowsLow(Status(param), Status(param)', v, type, limit)
                    /\ Settles(Status(param)', v, type, limit)]_uartVars
  <2> SUFFICES ASSUME IInv, NEW param \in Params, Compare, param = <<property, i>>,
                      Ordered(TypeOf(param), limits[property])
               PROVE  /\ FollowsUp(Status(param), Status(param)', values[i], TypeOf(param),
                                   limits[property])
                      /\ FollowsLow(Status(param), Status(param)', values[i], TypeOf(param),
                                    limits[property])
                      /\ Settles(Status(param)', values[i], TypeOf(param), limits[property])
    OBVIOUS
  <2>1. Status(param) \in Statuses /\ values[i] \in Int /\ IntLimit(limits[property])
    <3>1. pc = "compare"
      BY DEF Compare
    <3>2. Status(<<property, i>>) \in Statuses
      BY <3>1, ComparedIs
    <3>3. QED BY <3>1, <3>2, ComparedIs
  <2>2. Status(param)' = NextStatus(Status(param), values[i], TypeOf(param), limits[property])
    BY CompareInv
  <2>3. QED BY <2>1, <2>2, Hysteresis
<1>2. QED BY <1>1, InductiveInvariant, PTL DEF Spec, StatusFollowsReading
----------------------------------------------------------------------------
(***************************************************************************)
(* The page, the limits and the types                                      *)
(***************************************************************************)
\* The request the pass stands before, and the parameters of the requests behind it.
Reached   == IF pc \in {"answered", "put"} THEN property + 1 ELSE property
Before(p) == {param \in Params : param[1] < p}

\* What the page shows so far, when the pass is clean: Filled entries.
Filled        == IF pc = "compare" THEN param_cnt + i - 1 ELSE param_cnt
IsDone(param) == \/ param[1] < Reached
                 \/ pc = "compare" /\ param[1] = property /\ param[2] < i
Shown(param)  == [param |-> param,
                  alarm_type |-> IF param[1] \in fault THEN "COM_FAULT" ELSE Status(param)]

\* Where the pass is.
Passing ==
    /\ pc \in {"ask", "compare", "answered", "put"}
    /\ i \in 1..ListSize(property) /\ (pc # "compare" => i = 1)
    /\ pc = "put" => property = Len(Types[device])
    /\ fault \subseteq {p \in Properties : p < Reached} /\ clean \in BOOLEAN
    /\ late \in Properties \cup {0} /\ answers \in Properties \cup {0}

\* Readings are readings, and the silence is counted to two.
Readers ==
    /\ pc = "compare" => values \in [1..ListSize(property) -> Readings[device]]
    /\ \A p \in Properties : last[p] # NoList =>
          last[p] \in [1..ListSize(p) -> [value : Readings[device], status : Statuses]]
    /\ com_fail_count \in 0..2 /\ (~com_fail_flag => com_fail_count <= 1)

\* The parameters behind the pass are counted, all of them in a clean pass.
PageCounted ==
    /\ param_cnt \in Nat /\ param_cnt <= Cardinality(Before(Reached))
    /\ clean => param_cnt = Cardinality(Before(Reached))
    /\ cnt \in 0..Cardinality(Params)
    /\ clean /\ pc \in {"answered", "put"} => cnt = param_cnt

PageEntries ==
    /\ page = [n \in 1..Cardinality(Params) |-> page[n]]
    /\ \A n \in 1..Cardinality(Params) :
          page[n] # NoEntry => page[n].param \in Params
                               /\ page[n].alarm_type \in Statuses \cup {"COM_FAULT"}

\* In a clean pass the first entries are those of the parameters behind it.
PageFilled ==
    clean =>
        /\ \A param \in Params : IsDone(param) => \E n \in 1..Filled : page[n] = Shown(param)
        /\ \A n \in 1..Filled : page[n].param \in Params /\ IsDone(page[n].param)
        /\ \A m, n \in 1..Filled : page[m].param = page[n].param => m = n

\* A pass that reads the limits has those of the table, but for what changed behind it and
\* for what it was refused.
LimitsRead ==
    /\ update \in BOOLEAN /\ alarm_flag \in BOOLEAN
    /\ update => \A p \in Properties : \/ limits[p] = table \/ p \in missed
                                       \/ p >= property /\ pc # "put"
    /\ update /\ pc \in {"compare", "answered"} =>
          limits[property] = table \/ property \in missed
    /\ LimitsAreCurrent

PageIInv == /\ IInv /\ Passing /\ Readers /\ PageCounted /\ PageEntries /\ PageFilled /\ LimitsRead

----------------------------------------------------------------------------
\* The parameters of one request, and of those before it.
LEMMA ParamsFinite == ASSUME device \in Devices PROVE IsFiniteSet(Params)
<1> DEFINE Of(p) == {<<p, k>> : k \in 1..ListSize(p)}
           All   == {Of(p) : p \in Properties}
<1>1. Properties = 1..Len(Types[device]) /\ Len(Types[device]) \in Nat
      /\ \A p \in Properties : ListSize(p) \in Nat \ {0}
  BY SameDevice, Sizes
<1>2. ASSUME NEW p \in Properties PROVE IsFiniteSet(Of(p))
  <2> DEFINE f == [k \in 1..ListSize(p) |-> <<p, k>>]
  <2>1. f \in Surjection(1..ListSize(p), Of(p))
    BY DEF Surjection
  <2>2. IsFiniteSet(1..ListSize(p))
    BY <1>1, FS_Interval
  <2>3. QED BY <2>1, <2>2, FS_Surjection
<1>3. IsFiniteSet(All)
  <2> DEFINE g == [p \in Properties |-> Of(p)]
  <2> HIDE DEF Of
  <2>1. g \in Surjection(Properties, All)
    BY DEF Surjection
  <2>2. IsFiniteSet(Properties)
    BY <1>1, FS_Interval
  <2>3. QED BY <2>1, <2>2, FS_Surjection
<1>4. \A T \in All : IsFiniteSet(T)
  BY <1>2
<1>5. Params = UNION All
  BY DEF Params
<1> HIDE DEF All
<1>6. QED BY <1>3, <1>4, <1>5, FS_UNION

LEMMA CountBefore ==
    ASSUME device \in Devices
    PROVE  /\ Cardinality(Params) \in Nat /\ Before(1) = {} /\ Cardinality({}) = 0
           /\ Before(Len(Types[device]) + 1) = Params
           /\ \A p \in Int : /\ Cardinality(Before(p)) \in Nat
                             /\ Cardinality(Before(p)) <= Cardinality(Params)
           /\ \A p \in Properties :
                 Cardinality(Before(p + 1)) = Cardinality(Before(p)) + ListSize(p)
<1>1. Properties = 1..Len(Types[device]) /\ Len(Types[device]) \in Nat
      /\ \A p \in Properties : ListSize(p) \in Nat \ {0}
  BY SameDevice, Sizes
<1>2. IsFiniteSet(Params) /\ Cardinality(Params) \in Nat
  BY ParamsFinite, FS_CardinalityType
<1>3. \A p \in Int : /\ IsFiniteSet(Before(p)) /\ Cardinality(Before(p)) \in Nat
                     /\ Cardinality(Before(p)) <= Cardinality(Params)
  <2> TAKE p \in Int
  <2>1. Before(p) \in SUBSET Params
    BY DEF Before
  <2>2. IsFiniteSet(Before(p)) /\ Cardinality(Before(p)) <= Cardinality(Params)
    BY <1>2, <2>1, FS_Subset
  <2>3. QED BY <2>2, FS_CardinalityType
<1>4. Before(1) = {} /\ Before(Len(Types[device]) + 1) = Params
  <2>1. \A param \in Params : param[1] \in Properties
    BY ParamIs
  <2>2. \A param \in Params : ~(param[1] < 1) /\ param[1] < Len(Types[device]) + 1
    BY <1>1, <2>1
  <2>3. QED BY <2>2 DEF Before
<1>5. ASSUME NEW p \in Properties
      PROVE  Cardinality(Before(p + 1)) = Cardinality(Before(p)) + ListSize(p)
  <2> DEFINE Of == {<<p, k>> : k \in 1..ListSize(p)}
             f  == [k \in 1..ListSize(p) |-> <<p, k>>]
  <2>1. f \in Surjection(1..ListSize(p), Of) /\ f \in Injection(1..ListSize(p), Of)
    <3>1. f \in Surjection(1..ListSize(p), Of)
      BY DEF Surjection
    <3>2. \A a, b \in 1..ListSize(p) : <<p, a>> = <<p, b>> => a = b
      OBVIOUS
    <3>3. f \in [1..ListSize(p) -> Of] /\ \A a, b \in 1..ListSize(p) : f[a] = f[b] => a = b
      BY <3>2
    <3>4. QED BY <3>1, <3>3 DEF Injection, IsInjective
  <2>2. IsFiniteSet(1..ListSize(p)) /\ Cardinality(1..ListSize(p)) = ListSize(p)
    <3>1. 1 \in Int /\ ListSize(p) \in Int /\ ~(1 > ListSize(p))
      BY <1>1
    <3> DEFINE size == ListSize(p)
    <3> HIDE DEF size
    <3>2. IsFiniteSet(1..size) /\ Cardinality(1..size) = size - 1 + 1
      BY <3>1, FS_Interval DEF size
    <3>3. size - 1 + 1 = size
      BY <3>1 DEF size
    <3>4. QED BY <3>2, <3>3 DEF size
  <2>3. IsFiniteSet(Of) /\ Cardinality(Of) = ListSize(p)
    BY <2>1, <2>2, FS_Surjection
  <2>4. Before(p + 1) = Before(p) \cup Of
    <3>1. Of \subseteq Params
      BY DEF Params
    <3>2. \A param \in Params : param[1] \in Int /\ (param[1] = p => param \in Of)
      BY <1>1, ParamIs
    <3>3. \A param \in Of : param[1] = p
      OBVIOUS
    <3>4. p \in Int
      BY <1>1
    <3> HIDE DEF Of
    <3>5. \A param \in Params : param[1] < p + 1 <=> param[1] < p \/ param[1] = p
      BY <3>2, <3>4
    <3>6. QED BY <3>1, <3>2, <3>3, <3>4, <3>5 DEF Before
  <2>5. Before(p) \cap Of = {}
    <3>1. ~(p < p)
      BY <1>1
    <3>2. \A param \in Of : param[1] = p
      OBVIOUS
    <3>3. QED BY <3>1, <3>2 DEF Before
  <2>6. p \in Int
    BY <1>1
  <2> HIDE DEF Of
  <2>7. Cardinality(Before(p + 1)) =
           Cardinality(Before(p)) + Cardinality(Of) - Cardinality(Before(p) \cap Of)
    BY <1>3, <2>3, <2>4, <2>6, FS_Union
  <2>8. Cardinality(Before(p) \cap Of) = 0
    BY <2>5, FS_EmptySet
  <2>9. Cardinality(Before(p)) \in Nat /\ ListSize(p) \in Nat
    BY <1>1, <1>3, <2>6
  <2>10. QED BY <2>3, <2>7, <2>8, <2>9
<1>6. QED BY <1>2, <1>3, <1>4, <1>5, FS_EmptySet

\* The numbers of a pass.
LEMMA Where ==
    ASSUME PageIInv
    PROVE  /\ device \in Devices /\ property \in Properties /\ property \in Nat \ {0}
           /\ Properties = 1..Len(Types[device]) /\ Len(Types[device]) \in Nat \ {0}
           /\ \A p \in Properties : ListSize(p) \in Nat \ {0}
           /\ i \in 1..ListSize(property) /\ i \in Nat \ {0} /\ param_cnt \in Nat
           /\ Reached \in {property, property + 1}
           /\ pc \in {"ask", "compare"} => Reached = property
           /\ pc \in {"answered", "put"} => Reached = property + 1
           /\ DOMAIN page = 1..Cardinality(Params) /\ Cardinality(Params) \in Nat
           /\ pc \in {"ask", "compare"} => param_cnt + ListSize(property) <= Cardinality(Params)
           /\ \A param \in Params : /\ param[1] \in Properties /\ param[1] \in Int
                                    /\ param[2] \in 1..ListSize(param[1]) /\ param[2] \in Int
                                    /\ param = <<param[1], param[2]>>
<1>1. device \in Devices /\ property \in Properties
  BY DEF PageIInv, IInv, Lists
<1>2. /\ Properties = 1..Len(Types[device]) /\ Len(Types[device]) \in Nat \ {0}
      /\ \A p \in Properties : ListSize(p) \in Nat \ {0}
  BY <1>1, SameDevice, Sizes
<1>3. i \in 1..ListSize(property) /\ param_cnt \in Nat
  BY DEF PageIInv, Passing, PageCounted
<1>4. /\ Reached \in {property, property + 1}
      /\ pc \in {"ask", "compare"} => Reached = property
      /\ pc \in {"answered", "put"} => Reached = property + 1
  BY DEF Reached
<1>5. page = [n \in 1..Cardinality(Params) |-> page[n]]
  BY DEF PageIInv, PageEntries
<1>6. ASSUME pc \in {"ask", "compare"} PROVE param_cnt + ListSize(property) <= Cardinality(Params)
  <2>1. param_cnt <= Cardinality(Before(property))
    BY <1>4, <1>6 DEF PageIInv, PageCounted
  <2>2. /\ Cardinality(Before(property + 1)) = Cardinality(Before(property)) + ListSize(property)
        /\ Cardinality(Before(property + 1)) <= Cardinality(Params)
        /\ Cardinality(Before(property)) \in Nat /\ Cardinality(Params) \in Nat
    <3>1. property \in Int /\ property + 1 \in Int
      BY <1>1, <1>2
    <3>2. QED BY <1>1, <3>1, CountBefore
  <2>3. ListSize(property) \in Nat
    BY <1>1, <1>2
  <2>4. QED BY <1>3, <2>1, <2>2, <2>3
<1>7. Cardinality(Params) \in Nat
  BY <1>1, CountBefore
<1>8. \A param \in Params : /\ param[1] \in Properties /\ param[2] \in 1..ListSize(param[1])
                            /\ param = <<param[1], param[2]>>
  BY ParamIs
<1>9. QED BY <1>1, <1>2, <1>3, <1>4, <1>5, <1>6, <1>7, <1>8

\* The device keeps its parameters, and so their numbers.
LEMMA SameCounts ==
    ASSUME PageIInv, device' = device
    PROVE  /\ Params' = Params /\ Properties' = Properties /\ Types[device]' = Types[device]
           /\ \A p \in Properties : ListSize(p)' = ListSize(p)
           /\ \A p : Before(p)' = Before(p)
<1>1. device \in Devices
  BY DEF PageIInv, IInv, Lists
<1>2. QED BY <1>1, SameDevice DEF Before

\* The next request, or the end of the pass.
LEMMA NextPlace ==
    ASSUME PageIInv, NextProperty
    PROVE  /\ property' \in Properties /\ pc' \in {"ask", "put"} /\ Reached' = property + 1
           /\ pc' = "put" => property' = property /\ property = Len(Types[device])
           /\ pc' = "ask" => property' = property + 1
<1>1. property \in 1..Len(Types[device]) /\ Properties = 1..Len(Types[device])
      /\ Len(Types[device]) \in Nat
  BY Where
<1>2. QED BY <1>1 DEF NextProperty, Reached

----------------------------------------------------------------------------
(***************************************************************************)
(* The limits                                                              *)
(***************************************************************************)
\* A request of the pass, up to the next one: the limits of its property are read, if any are.
LEMMA RequestLimits ==
    ASSUME PageIInv, device' = device,
           \/ pc = "ask" /\ ReadLimits
           \/ pc \in {"compare", "answered"} /\ UNCHANGED config,
           \/ pc' \in {"compare", "answered"} /\ property' = property
           \/ NextProperty
    PROVE  LimitsRead'
<1>1. /\ property \in Properties /\ \A p \in Properties : p \in Int
      /\ Properties' = Properties
      /\ limits = [p \in Properties |-> limits[p]]
  BY Where, SameCounts DEF PageIInv, IInv, LimitsAreInts
<1>2. /\ update' = update /\ alarm_flag' = alarm_flag /\ table' = table
      /\ update \in BOOLEAN /\ alarm_flag \in BOOLEAN
  BY DEF ReadLimits, config, PageIInv, LimitsRead
<1>3. \A p \in Properties \ {property} : limits'[p] = limits[p] /\ (p \in missed => p \in missed')
  BY <1>1 DEF ReadLimits, QueryLimits, config
<1>4. update => limits'[property] = table \/ property \in missed'
  BY <1>1 DEF ReadLimits, QueryLimits, config, PageIInv, LimitsRead
<1>5. ~update => limits' = limits /\ missed' = missed
  BY DEF ReadLimits, QueryLimits, config
<1>6. \/ property' = property
      \/ property' = property + 1 /\ pc' = "ask"
  BY DEF NextProperty
<1>7. \A p \in Properties : \/ limits'[p] = table' \/ p \in missed'
                            \/ update' /\ p >= property' /\ pc' # "put"
                            \/ ~update' /\ alarm_flag'
  <2> TAKE p \in Properties
  <2>1. CASE ~update
    BY <1>2, <1>5, <2>1 DEF PageIInv, LimitsRead, LimitsAreCurrent
  <2>2. CASE update /\ p = property
    BY <1>2, <1>4, <2>2
  <2>3. CASE update /\ p # property
    <3>1. limits[p] = table \/ p \in missed \/ p >= property
      BY <2>3 DEF PageIInv, LimitsRead
    <3>2. CASE limits[p] = table \/ p \in missed
      BY <1>2, <1>3, <2>3, <3>2
    <3>3. CASE p >= property
      <4>1. p >= property + 1 /\ p >= property
        BY <1>1, <2>3, <3>3
      <4>2. CASE pc' # "put"
        BY <1>2, <1>6, <2>3, <4>1, <4>2
      <4>3. CASE pc' = "put"
        <5>1. property = Len(Types[device])
          BY <4>3, NextPlace
        <5>2. QED BY <4>1, <5>1, Where
      <4>4. QED BY <4>2, <4>3
    <3>4. QED BY <3>1, <3>2, <3>3
  <2>4. QED BY <2>1, <2>2, <2>3
<1>8. update' /\ pc' \in {"compare", "answered"} =>
          limits'[property'] = table' \/ property' \in missed'
  BY <1>2, <1>4 DEF NextProperty
<1>9. QED BY <1>1, <1>2, <1>7, <1>8 DEF LimitsRead, LimitsAreCurrent

\* The end of a pass that read the limits has them all; a change is read in the next pass,
\* or in the one under way where it has not been read yet.
LEMMA OtherLimits ==
    ASSUME PageIInv, PassEnds \/ ChangeLimits \/ uartVars' = uartVars PROVE LimitsRead'
<1>1. /\ device' = device /\ Properties' = Properties /\ limits' = limits
      /\ \A p \in Properties : p \in Int /\ p >= 1 /\ property \in Int
      /\ update \in BOOLEAN /\ alarm_flag \in BOOLEAN
  <2>1. device' = device /\ limits' = limits
    BY DEF PassEnds, ChangeLimits, uartVars
  <2>2. QED BY <2>1, Where, SameCounts DEF PageIInv, LimitsRead
<1>2. CASE PassEnds
  <2>1. pc = "put" /\ pc' = "ask" /\ property' = 1 /\ table' = table /\ missed' = missed
    BY <1>2 DEF PassEnds
  <2>2. CASE update
    <3>1. update' = FALSE /\ alarm_flag' = FALSE
      BY <1>2, <2>2 DEF PassEnds
    <3>2. \A p \in Properties : limits[p] = table \/ p \in missed
      BY <2>1, <2>2 DEF PageIInv, LimitsRead
    <3>3. update' \in BOOLEAN /\ alarm_flag' \in BOOLEAN
      BY <3>1, Zenon
    <3>4. QED BY <1>1, <2>1, <3>1, <3>2, <3>3 DEF LimitsRead, LimitsAreCurrent
  <2>3. CASE ~update
    <3>1. update' = alarm_flag /\ alarm_flag' = alarm_flag
      BY <1>2, <2>3 DEF PassEnds
    <3>2. \A p \in Properties : limits[p] = table \/ p \in missed \/ alarm_flag
      BY <2>3 DEF PageIInv, LimitsRead, LimitsAreCurrent
    <3>3. QED BY <1>1, <2>1, <3>1, <3>2 DEF LimitsRead, LimitsAreCurrent
  <2>4. QED BY <2>2, <2>3
<1>3. CASE ChangeLimits
  <2>1. /\ pc' = pc /\ property' = property /\ pc \in {"ask", "put"} /\ update' = update
        /\ alarm_flag' = TRUE
        /\ update => \A p \in Properties : p < property \/ pc = "put" => p \in missed'
    BY <1>3 DEF ChangeLimits, pass
  <2>2. alarm_flag' \in BOOLEAN
    BY <2>1, Zenon
  <2>3. ASSUME update, NEW p \in Properties
        PROVE  p \in missed' \/ (p >= property /\ pc # "put")
    <3>1. CASE p < property \/ pc = "put"
      BY <2>1, <2>3, <3>1
    <3>2. CASE ~(p < property) /\ pc # "put"
      BY <1>1, <3>2
    <3>3. QED BY <3>1, <3>2
  <2>4. QED BY <1>1, <2>1, <2>2, <2>3 DEF LimitsRead, LimitsAreCurrent
<1>4. CASE uartVars' = uartVars
  BY <1>1, <1>4 DEF uartVars, PageIInv, LimitsRead, LimitsAreCurrent
<1>5. QED BY <1>2, <1>3, <1>4

----------------------------------------------------------------------------
(***************************************************************************)
(* The page                                                                *)
(***************************************************************************)
\* A step of a clean pass shows the parameters it is done with behind those already shown.
LEMMA Appends ==
    ASSUME PageIInv, clean, device' = device, NEW F \in Nat, F = Filled,
           NEW G \in Nat, G = Filled', F <= G,
           \A n \in 1..F : page'[n] = page[n],
           \A param \in Params : IsDone(param) => IsDone(param)' /\ Shown(param)' = Shown(param),
           \A n \in (F + 1)..G : /\ page'[n].param \in Params
                                 /\ IsDone(page[n].param)' /\ ~IsDone(page'[n].param),
           \A m, n \in (F + 1)..G : page'[m].param = page'[n].param => m = n,
           \A param \in Params : IsDone(param)' /\ ~IsDone(param) =>
              \E n \in (F + 1)..G : page'[n] = Shown(param)'
    PROVE  PageFilled'
<1>1. /\ \A param \in Params : IsDone(param) => \E n \in 1..F : page[n] = Shown(param)
      /\ \A n \in 1..F : page[n].param \in Params /\ IsDone(page[n].param)
      /\ \A m, n \in 1..F : page[m].param = page[n].param => m = n
  BY DEF PageIInv, PageFilled
<1>2. Params' = Params
  BY SameCounts
<1>3. 1..G = 1..F \cup (F + 1)..G
  OBVIOUS
<1>4. \A param \in Params : IsDone(param)' => \E n \in 1..G : page'[n] = Shown(param)'
  <2> TAKE param \in Params
  <2>1. CASE IsDone(param)
    <3>1. PICK n \in 1..F : page[n] = Shown(param)
      BY <1>1, <2>1
    <3>2. QED BY <1>3, <2>1, <3>1
  <2>2. CASE ~IsDone(param)
    BY <1>3, <2>2
  <2>3. QED BY <2>1, <2>2
<1>5. \A n \in 1..G : page'[n].param \in Params /\ IsDone(page[n].param)'
  <2> TAKE n \in 1..G
  <2>1. CASE n \in 1..F
    BY <1>1, <2>1
  <2>2. CASE n \in (F + 1)..G
    BY <2>2
  <2>3. QED BY <1>3, <2>1, <2>2
<1>6. \A m, n \in 1..G : page'[m].param = page'[n].param => m = n
  <2> SUFFICES ASSUME NEW m \in 1..G, NEW n \in 1..G, page'[m].param = page'[n].param PROVE m = n
    OBVIOUS
  <2>1. CASE m \in 1..F /\ n \in 1..F
    BY <1>1, <2>1
  <2>2. CASE m \in (F + 1)..G /\ n \in (F + 1)..G
    BY <2>2
  <2>3. CASE m \in 1..F /\ n \in (F + 1)..G
    BY <1>1, <2>3
  <2>4. CASE m \in (F + 1)..G /\ n \in 1..F
    BY <1>1, <2>4
  <2>5. QED BY <1>3, <2>1, <2>2, <2>3, <2>4
<1>7. QED BY <1>2, <1>4, <1>5, <1>6 DEF PageFilled

\* A step that leaves the page, the parameters it is done with and what it would show.
LEMMA SamePage ==
    ASSUME PageIInv, device' = device, page' = page, cnt' = cnt, param_cnt' = param_cnt,
           clean' \in BOOLEAN, clean' => clean,
           Reached' = Reached, Filled' = Filled, fault' = fault,
           \A param \in Params : /\ IsDone(param)' <=> IsDone(param)
                                 /\ Status(param)' = Status(param),
           pc' \in {"answered", "put"} => pc \in {"answered", "put"}
    PROVE  PageCounted' /\ PageEntries' /\ PageFilled'
<1>1. Params' = Params /\ \A p : Before(p)' = Before(p)
  BY SameCounts
<1>2. /\ Cardinality(Params)' = Cardinality(Params)
      /\ Cardinality(Before(Reached))' = Cardinality(Before(Reached))
  BY <1>1
<1>3. PageCounted'
  BY <1>2 DEF PageIInv, PageCounted
<1>4. PageEntries'
  BY <1>1 DEF PageIInv, PageEntries
<1>5. \A param \in Params : Shown(param)' = Shown(param)
  BY DEF Shown
<1>6. PageFilled'
  BY <1>1, <1>5 DEF PageIInv, PageFilled
<1>7. QED BY <1>3, <1>4, <1>6

\* An unanswered request, or one that was answered badly, shows its parameters as faulty.
LEMMA FaultPage ==
    ASSUME PageIInv, pc = "ask", device' = device, last' = last, i' = i, clean' = clean,
           communication_fault(property), NextProperty, fault' = fault \cup {property}
    PROVE  PageCounted' /\ PageEntries' /\ PageFilled'
<1> DEFINE L == ListSize(property)
<1>1. /\ property \in Properties /\ property \in Int /\ L \in Nat \ {0} /\ param_cnt \in Nat
      /\ Reached = property /\ Filled = param_cnt /\ device \in Devices
      /\ param_cnt + L <= Cardinality(Params) /\ Cardinality(Params) \in Nat
      /\ DOMAIN page = 1..Cardinality(Params)
  BY Where DEF Filled
<1>2. /\ pc' \in {"ask", "put"} /\ Reached' = property + 1
  BY NextPlace
<1>3. /\ Params' = Params /\ \A p : Before(p)' = Before(p)
      /\ Cardinality(Params)' = Cardinality(Params)
      /\ Cardinality(Before(Reached))' = Cardinality(Before(property + 1))
  BY <1>2, SameCounts
<1>4. /\ param_cnt' = param_cnt + L /\ cnt' = param_cnt + L /\ Filled' = param_cnt + L
      /\ page' = [n \in 1..Cardinality(Params) |->
                    IF n \in (param_cnt + 1)..(param_cnt + L)
                    THEN [param |-> <<property, n - param_cnt>>, alarm_type |-> "COM_FAULT"]
                    ELSE page[n]]
  BY <1>1, <1>2 DEF communication_fault, Behind, Filled
<1> HIDE DEF L
<1>5. PageCounted'
  <2>1. Cardinality(Before(property + 1)) = Cardinality(Before(property)) + L
    BY <1>1, CountBefore DEF L
  <2>2. /\ Cardinality(Before(property)) \in Nat
        /\ param_cnt <= Cardinality(Before(property))
        /\ clean => param_cnt = Cardinality(Before(property))
    BY <1>1, CountBefore DEF PageIInv, PageCounted
  <2>3. param_cnt + L \in 0..Cardinality(Params)
    BY <1>1
  <2>4. QED BY <1>1, <1>3, <1>4, <2>1, <2>2, <2>3 DEF PageCounted
<1>6. \A k \in 1..L : <<property, k>> \in Params
  BY <1>1 DEF Params, L
<1>7. \A n \in (param_cnt + 1)..(param_cnt + L) :
         /\ n - param_cnt \in 1..L /\ n \in 1..Cardinality(Params)
         /\ page'[n] = [param |-> <<property, n - param_cnt>>, alarm_type |-> "COM_FAULT"]
         /\ page'[n].param = <<property, n - param_cnt>> /\ page'[n].param \in Params
         /\ page'[n].alarm_type \in Statuses \cup {"COM_FAULT"}
  <2> TAKE n \in (param_cnt + 1)..(param_cnt + L)
  <2>1. n - param_cnt \in 1..L /\ n \in 1..Cardinality(Params)
    BY <1>1
  <2>2. page'[n] = [param |-> <<property, n - param_cnt>>, alarm_type |-> "COM_FAULT"]
    BY <1>4, <2>1
  <2>3. QED BY <1>6, <2>1, <2>2
<1>8. \A n \in 1..Cardinality(Params) :
         n \notin (param_cnt + 1)..(param_cnt + L) => page'[n] = page[n]
  BY <1>4
<1>9. PageEntries'
  <2>1. page' = [n \in 1..Cardinality(Params) |-> page'[n]]
    BY <1>4
  <2>2. ASSUME NEW n \in 1..Cardinality(Params), page'[n] # NoEntry
        PROVE  page'[n].param \in Params /\ page'[n].alarm_type \in Statuses \cup {"COM_FAULT"}
    <3>1. CASE n \in (param_cnt + 1)..(param_cnt + L)
      BY <1>7, <3>1
    <3>2. CASE n \notin (param_cnt + 1)..(param_cnt + L)
      BY <1>8, <2>2, <3>2 DEF PageIInv, PageEntries
    <3>3. QED BY <3>1, <3>2
  <2>3. QED BY <1>3, <2>1, <2>2 DEF PageEntries
<1>10. ASSUME clean PROVE PageFilled'
  <2>1. PICK F \in Nat : F = param_cnt
    BY <1>1
  <2>2. PICK G \in Nat : G = param_cnt + L
    BY <1>1
  <2>3. F <= G /\ F = Filled /\ G = Filled' /\ G <= Cardinality(Params)
    BY <1>1, <1>4, <2>1, <2>2
  <2>4. \A n \in 1..F : page'[n] = page[n]
    <3>1. \A n \in 1..F : n \in 1..Cardinality(Params) /\ n \notin (param_cnt + 1)..(param_cnt + L)
      BY <1>1, <2>1
    <3>2. QED BY <1>8, <3>1
  <2>5. \A param \in Params : /\ IsDone(param) <=> param[1] < property
                              /\ IsDone(param)' <=> param[1] < property + 1
                              /\ param[1] \in Int
    BY <1>1, <1>2, Where DEF IsDone
  <2>6. \A param \in Params : IsDone(param) => IsDone(param)' /\ Shown(param)' = Shown(param)
    <3> SUFFICES ASSUME NEW param \in Params, IsDone(param)
                 PROVE  IsDone(param)' /\ Shown(param)' = Shown(param)
      OBVIOUS
    <3>1. param[1] < property /\ param[1] # property /\ param[1] < property + 1
      BY <1>1, <2>5
    <3>2. QED BY <2>5, <3>1 DEF Shown, Status
  <2>7. \A n \in (F + 1)..G : /\ page'[n].param \in Params
                              /\ IsDone(page[n].param)' /\ ~IsDone(page'[n].param)
    <3> TAKE n \in (F + 1)..G
    <3>1. page'[n].param \in Params /\ page'[n].param[1] = property
      <4>1. n \in (param_cnt + 1)..(param_cnt + L)
        BY <2>1, <2>2
      <4>2. page'[n].param \in Params /\ page'[n].param = <<property, n - param_cnt>>
        BY <1>7, <4>1
      <4>3. QED BY <4>2
    <3>2. PICK param \in Params : param = page'[n].param
      BY <3>1
    <3>3. IsDone(param)' /\ ~IsDone(param)
      BY <1>1, <2>5, <3>1, <3>2
    <3>4. QED BY <3>1, <3>2, <3>3
  <2>8. \A m, n \in (F + 1)..G : page'[m].param = page'[n].param => m = n
    <3> SUFFICES ASSUME NEW m \in (F + 1)..G, NEW n \in (F + 1)..G,
                        page'[m].param = page'[n].param
                 PROVE  m = n
      OBVIOUS
    <3>1. m - param_cnt = n - param_cnt
      <4>1. m \in (param_cnt + 1)..(param_cnt + L) /\ n \in (param_cnt + 1)..(param_cnt + L)
        BY <2>1, <2>2
      <4>2. /\ page'[m].param = <<property, m - param_cnt>>
            /\ page'[n].param = <<property, n - param_cnt>>
        BY <1>7, <4>1
      <4>3. <<property, m - param_cnt>> = <<property, n - param_cnt>>
        BY <4>2
      <4>4. QED BY <4>3
    <3>2. QED BY <1>1, <2>1, <2>2, <3>1
  <2>9. \A param \in Params : IsDone(param)' /\ ~IsDone(param) =>
           \E n \in (F + 1)..G : page'[n] = Shown(param)'
    <3> SUFFICES ASSUME NEW param \in Params, IsDone(param)', ~IsDone(param)
                 PROVE  \E n \in (F + 1)..G : page'[n] = Shown(param)'
      OBVIOUS
    <3>1. param[1] = property /\ param[2] \in 1..L /\ param = <<property, param[2]>>
      <4>1. param[1] = property
        BY <1>1, <2>5
      <4>2. QED BY <4>1, Where DEF L
    <3>2. PICK n \in (F + 1)..G : n = param_cnt + param[2]
      BY <1>1, <2>1, <2>2, <3>1
    <3>3. n - param_cnt = param[2]
      BY <1>1, <3>1, <3>2
    <3>4. page'[n] = [param |-> <<property, param[2]>>, alarm_type |-> "COM_FAULT"]
      BY <1>7, <2>1, <2>2, <3>3
    <3>5. QED BY <3>1, <3>4 DEF Shown
  <2>10. QED BY <1>10, <2>3, <2>4, <2>6, <2>7, <2>8, <2>9, Appends
<1>11. PageFilled'
  BY <1>10 DEF PageFilled
<1>12. QED BY <1>5, <1>9, <1>11

\* Where the comparing is after one more parameter.
LEMMA NextParamPlace ==
    ASSUME PageIInv, pc = "compare", device' = device, property' = property, NextParam
    PROVE  /\ pc' \in {"compare", "answered"} /\ i' \in 1..ListSize(property)
           /\ pc' # "compare" => i' = 1
           /\ Reached' \in {property, property + 1}
           /\ Filled' = param_cnt + i
           /\ \A param \in Params :
                 IsDone(param)' <=> IsDone(param) \/ param = <<property, i>>
<1>1. /\ property \in Properties /\ property \in Int /\ i \in 1..ListSize(property)
      /\ ListSize(property) \in Nat \ {0} /\ param_cnt \in Nat /\ Reached = property
      /\ \A param \in Params : /\ param[1] \in Int /\ param[2] \in Int
                               /\ param[2] \in 1..ListSize(param[1])
                               /\ param = <<param[1], param[2]>>
  BY Where
<1>2. \A param \in Params : IsDone(param) <=> \/ param[1] < property
                                              \/ param[1] = property /\ param[2] < i
  BY <1>1 DEF IsDone
<1>3. CASE i < ListSize(property)
  <2>1. i' = i + 1 /\ pc' = pc /\ param_cnt' = param_cnt /\ Reached' = property
    BY <1>3 DEF NextParam, Reached
  <2>2. Filled' = param_cnt + i
    BY <1>1, <2>1 DEF Filled
  <2>3. \A param \in Params : IsDone(param)' <=> \/ param[1] < property
                                                 \/ param[1] = property /\ param[2] < i + 1
    BY <2>1 DEF IsDone
  <2>4. \A param \in Params : IsDone(param)' <=> IsDone(param) \/ param = <<property, i>>
    <3> TAKE param \in Params
    <3>1. param[2] < i + 1 <=> param[2] < i \/ param[2] = i
      BY <1>1
    <3>2. param = <<property, i>> <=> param[1] = property /\ param[2] = i
      BY <1>1
    <3>3. QED BY <1>2, <2>3, <3>1, <3>2
  <2>5. i' \in 1..ListSize(property)
    BY <1>1, <1>3, <2>1
  <2>6. QED BY <2>1, <2>2, <2>4, <2>5
<1>4. CASE ~(i < ListSize(property))
  <2>1. /\ i' = 1 /\ pc' = "answered" /\ param_cnt' = param_cnt + ListSize(property)
        /\ i = ListSize(property) /\ Reached' = property + 1
    BY <1>1, <1>4 DEF NextParam, Reached, Behind
  <2>2. Filled' = param_cnt + i
    BY <2>1 DEF Filled
  <2>3. \A param \in Params : IsDone(param)' <=> param[1] < property + 1
    BY <2>1 DEF IsDone
  <2>4. \A param \in Params : IsDone(param)' <=> IsDone(param) \/ param = <<property, i>>
    <3> TAKE param \in Params
    <3>1. param[1] < property + 1 <=> param[1] < property \/ param[1] = property
      BY <1>1
    <3>2. param[1] = property => (param[2] < i \/ param[2] = i)
      BY <1>1, <2>1
    <3>3. param = <<property, i>> <=> param[1] = property /\ param[2] = i
      BY <1>1
    <3>4. QED BY <1>2, <2>3, <3>1, <3>2, <3>3
  <2>5. i' \in 1..ListSize(property)
    BY <1>1, <2>1
  <2>6. QED BY <2>1, <2>2, <2>4, <2>5
<1>5. QED BY <1>3, <1>4

LEMMA NextParamCounted ==
    ASSUME PageIInv, pc = "compare", device' = device, property' = property, NextParam,
           clean' => clean
    PROVE  PageCounted'
<1>1. /\ property \in Properties /\ property \in Int /\ device \in Devices /\ Reached = property
      /\ ListSize(property) \in Nat \ {0} /\ param_cnt \in Nat
      /\ param_cnt + ListSize(property) <= Cardinality(Params) /\ Cardinality(Params) \in Nat
  BY Where
<1>2. /\ \A p : Before(p)' = Before(p)
      /\ Cardinality(Params)' = Cardinality(Params)
      /\ Cardinality(Before(Reached))' = Cardinality(Before(Reached'))
  BY SameCounts
<1>3. /\ Cardinality(Before(property)) \in Nat /\ param_cnt <= Cardinality(Before(property))
      /\ clean => param_cnt = Cardinality(Before(property))
      /\ cnt \in 0..Cardinality(Params)
  BY <1>1, CountBefore DEF PageIInv, PageCounted
<1>4. CASE i < ListSize(property)
  <2>1. pc' = pc /\ param_cnt' = param_cnt /\ cnt' = cnt /\ Reached' = property
    BY <1>4 DEF NextParam, Reached
  <2>2. QED BY <1>1, <1>2, <1>3, <2>1 DEF PageCounted
<1>5. CASE ~(i < ListSize(property))
  <2>1. /\ param_cnt' = param_cnt + ListSize(property) /\ cnt' = param_cnt'
        /\ Reached' = property + 1
    BY <1>5 DEF NextParam, Reached, Behind
  <2>2. Cardinality(Before(property + 1)) = Cardinality(Before(property)) + ListSize(property)
    BY <1>1, CountBefore
  <2>3. param_cnt + ListSize(property) \in 0..Cardinality(Params)
    BY <1>1
  <2>4. QED BY <1>1, <1>2, <1>3, <2>1, <2>2, <2>3 DEF PageCounted
<1>6. QED BY <1>4, <1>5

\* A compared parameter is shown, with the status it has got, or the pass is not clean.
LEMMA ComparePage ==
    ASSUME PageIInv, Compare PROVE PageCounted' /\ PageEntries' /\ PageFilled'
<1> DEFINE old == last[property][i]
           s == NextStatus(old.status, values[i], TypeOf(<<property, i>>), limits[property])
<1>1. /\ pc = "compare" /\ device' = device /\ property' = property /\ fault' = fault
      /\ NextParam
      /\ \/ page' = Entry(s) /\ clean' = clean
         \/ clean' = FALSE /\ page' = page
  BY DEF Compare
<1>2. /\ property \in Properties /\ property \in Int /\ device \in Devices /\ Reached = property
      /\ i \in 1..ListSize(property) /\ ListSize(property) \in Nat /\ param_cnt \in Nat
      /\ param_cnt + ListSize(property) <= Cardinality(Params) /\ Cardinality(Params) \in Nat
      /\ Filled = param_cnt + i - 1
  BY <1>1, Where DEF Filled
<1>3. /\ IInv /\ old.status = Status(<<property, i>>) /\ old.status \in Statuses
      /\ <<property, i>> \in Params
  BY <1>1, ComparedIs DEF PageIInv
<1>4. s \in Statuses
  BY <1>3, StatusType
<1>5. /\ \A param \in Params : param = <<property, i>> => Status(param)' = s
      /\ \A param \in Params : param # <<property, i>> => Status(param)' = Status(param)
  <2>1. Compare /\ IInv
    BY <1>3
  <2>2. QED BY <1>3, <2>1, CompareInv
<1> HIDE DEF s
<1>6. PageCounted'
  BY <1>1, NextParamCounted
<1>7. Params' = Params /\ Cardinality(Params)' = Cardinality(Params)
  BY <1>1, SameCounts
<1>8. CASE clean' = FALSE /\ page' = page
  BY <1>6, <1>7, <1>8 DEF PageIInv, PageEntries, PageFilled
<1>9. CASE page' = Entry(s) /\ clean' = clean
  <2>1. PICK G \in Nat : G = param_cnt + i
    BY <1>2
  <2>2. PICK F \in Nat : F = param_cnt + i - 1
    BY <1>2
  <2>3. /\ F = Filled /\ F <= G /\ G \in 1..Cardinality(Params) /\ (F + 1)..G = {G}
        /\ \A n \in 1..F : n # G
    BY <1>2, <2>1, <2>2
  <2>4. page = [n \in 1..Cardinality(Params) |-> page[n]]
    BY DEF PageIInv, PageEntries
  <2>5. /\ page' = [n \in 1..Cardinality(Params) |-> page'[n]]
        /\ page'[G] = [param |-> <<property, i>>, alarm_type |-> s]
        /\ \A n \in 1..Cardinality(Params) : n # G => page'[n] = page[n]
    BY <1>9, <2>1, <2>3, <2>4 DEF Entry
  <2>6. PageEntries'
    BY <1>3, <1>4, <1>7, <2>5 DEF PageIInv, PageEntries
  <2>7. /\ G = Filled'
        /\ \A param \in Params : IsDone(param)' <=> IsDone(param) \/ param = <<property, i>>
    BY <1>1, <2>1, NextParamPlace
  <2>8. ~IsDone(<<property, i>>) /\ property \notin fault
    <3>1. ~(property < property) /\ ~(i < i)
      BY <1>2
    <3>2. QED BY <1>2, <3>1 DEF IsDone, PageIInv, Passing
  <2>9. \A param \in Params : IsDone(param) => IsDone(param)' /\ Shown(param)' = Shown(param)
    BY <1>1, <1>5, <2>7, <2>8 DEF Shown
  <2>10. PICK q \in Params : q = <<property, i>>
    BY <1>3
  <2>11. Shown(q)' = page'[G] /\ page'[G].param = q
    <3>1. q[1] = property /\ Status(q)' = s
      BY <1>5, <2>10
    <3>2. Shown(q)' = [param |-> q, alarm_type |-> s]
      BY <1>1, <2>8, <3>1 DEF Shown
    <3>3. QED BY <2>5, <2>10, <3>2
  <2>12. CASE clean
    <3>1. \A n \in 1..F : page'[n] = page[n]
      <4>1. \A n \in 1..F : n \in 1..Cardinality(Params) /\ n # G
        BY <1>2, <2>1, <2>2
      <4>2. QED BY <2>5, <4>1
    <3>2. \A n \in (F + 1)..G : /\ page'[n].param \in Params
                                /\ IsDone(page[n].param)' /\ ~IsDone(page'[n].param)
      <4>1. IsDone(q)' /\ ~IsDone(q)
        BY <2>7, <2>8, <2>10
      <4>2. IsDone(page[G].param)' /\ ~IsDone(page'[G].param)
        BY <2>11, <4>1
      <4>3. QED BY <2>3, <2>11, <4>2
    <3>3. \A m, n \in (F + 1)..G : page'[m].param = page'[n].param => m = n
      BY <2>3
    <3>4. \A param \in Params : IsDone(param)' /\ ~IsDone(param) =>
             \E n \in (F + 1)..G : page'[n] = Shown(param)'
      BY <2>3, <2>7, <2>10, <2>11
    <3>5. QED BY <1>1, <1>6, <2>3, <2>6, <2>7, <2>9, <2>12, <3>1, <3>2, <3>3, <3>4, Appends
  <2>13. CASE ~clean
    BY <1>6, <1>9, <2>6, <2>13 DEF PageFilled
  <2>14. QED BY <2>12, <2>13
<1>10. QED BY <1>1, <1>8, <1>9

----------------------------------------------------------------------------
(***************************************************************************)
(* The steps                                                               *)
(***************************************************************************)
\* The readings of an answer that is still compared, and of those before it.
LEMMA SameReaders ==
    ASSUME PageIInv, device' = device, last' = last,
           com_fail_count' \in 0..2, ~com_fail_flag' => com_fail_count' <= 1,
           pc' = "compare" => pc = "compare" /\ property' = property /\ values' = values
    PROVE  Readers'
<1>1. Properties' = Properties /\ \A p \in Properties : ListSize(p)' = ListSize(p)
      /\ property \in Properties
  BY Where, SameCounts
<1>2. pc' = "compare" => values' \in [1..ListSize(property)' -> Readings[device']]
  <2>1. pc' = "compare" => ListSize(property)' = ListSize(property)
    BY DEF ListSize
  <2>2. QED BY <2>1 DEF PageIInv, Readers
<1>3. \A p \in Properties' : last'[p] # NoList =>
         last'[p] \in [1..ListSize(p)' -> [value : Readings[device'], status : Statuses]]
  BY <1>1 DEF PageIInv, Readers
<1>4. QED BY <1>2, <1>3 DEF Readers

\* Behind a request the pass stands before the next one, or at its end.
LEMMA RequestPassing ==
    ASSUME PageIInv, device' = device, NextProperty, pc # "compare", i' = i,
           fault' \subseteq fault \cup {property}, clean' \in BOOLEAN,
           late' \in Properties \cup {0}, answers' \in Properties \cup {0}
    PROVE  Passing'
<1>1. /\ Properties' = Properties /\ Types[device]' = Types[device] /\ property \in Properties
      /\ \A p \in Properties : ListSize(p)' = ListSize(p)
      /\ \A p \in Properties : p \in Int /\ ListSize(p) \in Nat \ {0}
      /\ Reached \in {property, property + 1}
  BY Where, SameCounts
<1>2. /\ property' \in Properties /\ pc' \in {"ask", "put"} /\ Reached' = property + 1
      /\ pc' = "put" => property' = property /\ property = Len(Types[device])
  BY NextPlace
<1>3. i' = 1 /\ 1 \in 1..ListSize(property')
  BY <1>1, <1>2 DEF PageIInv, Passing
<1>4. fault' \subseteq {p \in Properties : p < property + 1}
  BY <1>1 DEF PageIInv, Passing
<1>5. ListSize(property)' = ListSize(property')
  BY <1>1, <1>2 DEF ListSize
<1>6. QED BY <1>1, <1>2, <1>3, <1>4, <1>5 DEF Passing

\* Of a request that brought no values every parameter is faulty, or its write failed.
LEMMA NoValuesStep ==
    ASSUME PageIInv, WriteFails \/ NoAnswer \/ BadAnswer PROVE PageIInv'
<1>1. /\ pc = "ask" /\ device' = device /\ last' = last /\ i' = i /\ ReadLimits /\ NextProperty
      /\ fault' \subseteq fault \cup {property} /\ late' \in {late, property}
      /\ answers' = answers
  BY DEF WriteFails, NoAnswer, BadAnswer
<1>2. clean \in BOOLEAN /\ property \in Properties
  BY Where DEF PageIInv, Passing
<1>3. clean' \in BOOLEAN
  BY <1>2 DEF WriteFails, NoAnswer, BadAnswer
<1>4. IInv'
  BY NoValuesInv DEF PageIInv
<1>5. Passing'
  <2>1. late' \in Properties \cup {0} /\ answers' \in Properties \cup {0}
    BY <1>1, <1>2 DEF PageIInv, Passing
  <2>2. QED BY <1>1, <1>3, <2>1, RequestPassing
<1>6. Readers'
  <2>1. com_fail_count' \in 0..2 /\ (~com_fail_flag' => com_fail_count' <= 1)
    <3>1. com_fail_count \in 0..2 /\ (~com_fail_flag => com_fail_count <= 1)
      BY DEF PageIInv, Readers
    <3>2. CASE NoAnswer
      <4>1. CountSilence
        BY <3>2 DEF NoAnswer
      <4>2. CASE com_fail_flag
        BY <3>1, <4>1, <4>2 DEF CountSilence
      <4>3. CASE ~com_fail_flag
        <5>1. com_fail_count' = com_fail_count + 1 /\ com_fail_flag' = (com_fail_count > 0)
          BY <4>1, <4>3 DEF CountSilence
        <5>2. com_fail_count \in 0..1
          BY <3>1, <4>3
        <5>3. com_fail_count' \in 0..2 /\ (~(com_fail_count > 0) => com_fail_count' <= 1)
          BY <5>1, <5>2
        <5>4. QED BY <5>1, <5>3, Zenon
      <4>4. QED BY <4>2, <4>3
    <3>3. CASE WriteFails \/ BadAnswer
      BY <3>1, <3>3 DEF WriteFails, BadAnswer, com
    <3>4. QED BY <3>2, <3>3
  <2>2. pc' # "compare"
    BY <1>1, NextPlace
  <2>3. QED BY <1>1, <2>1, <2>2, SameReaders
<1>7. LimitsRead'
  BY <1>1, RequestLimits
<1>8. PageCounted' /\ PageEntries' /\ PageFilled'
  <2>1. CASE NoAnswer \/ BadAnswer
    <3>1. communication_fault(property) /\ fault' = fault \cup {property} /\ clean' = clean
      BY <2>1 DEF NoAnswer, BadAnswer
    <3>2. QED BY <1>1, <3>1, FaultPage
  <2>2. CASE WriteFails
    <3>1. clean' = FALSE /\ page' = page /\ cnt' = cnt /\ param_cnt' = param_cnt
      BY <2>2 DEF WriteFails
    <3>2. /\ property \in Int /\ device \in Devices /\ Reached = property /\ param_cnt \in Nat
          /\ ListSize(property) \in Nat
      BY <1>1, Where
    <3>3. Reached' = property + 1 /\ Cardinality(Params)' = Cardinality(Params)
          /\ Params' = Params
          /\ Cardinality(Before(Reached))' = Cardinality(Before(Reached'))
      BY <1>1, NextPlace, SameCounts
    <3>4. /\ Cardinality(Before(property)) \in Nat
          /\ Cardinality(Before(property + 1)) = Cardinality(Before(property)) + ListSize(property)
      BY <1>2, <3>2, CountBefore
    <3>5. param_cnt <= Cardinality(Before(property)) /\ cnt \in 0..Cardinality(Params)
      BY <3>2 DEF PageIInv, PageCounted
    <3>6. PageCounted'
      BY <3>1, <3>2, <3>3, <3>4, <3>5 DEF PageCounted
    <3>7. QED BY <3>1, <3>3, <3>6 DEF PageIInv, PageEntries, PageFilled
  <2>3. QED BY <2>1, <2>2
<1>9. QED BY <1>4, <1>5, <1>6, <1>7, <1>8 DEF PageIInv

\* The answer that makes the list, and the one whose values are compared with it.
LEMMA AnswerStep == ASSUME PageIInv, FirstAnswer \/ GoodAnswer PROVE PageIInv'
<1>1. /\ pc = "ask" /\ device' = device /\ property' = property /\ ReadLimits /\ Accepted
      /\ pc' \in {"compare", "answered"} /\ param_cnt' = param_cnt /\ cnt' = cnt
      /\ page' = page /\ fault' = fault /\ UNCHANGED com /\ i' = 1
  BY DEF FirstAnswer, GoodAnswer, PageIInv, Passing
<1>2. /\ Properties' = Properties /\ Types[device]' = Types[device] /\ Params' = Params
      /\ \A p \in Properties : ListSize(p)' = ListSize(p)
      /\ \A p : Before(p)' = Before(p)
  BY <1>1, SameCounts
<1>3. /\ property \in Properties /\ property \in Int /\ device \in Devices /\ Reached = property
      /\ ListSize(property) \in Nat \ {0} /\ param_cnt \in Nat /\ clean \in BOOLEAN
      /\ Reached' \in {property, property + 1}
  BY <1>1, Where DEF PageIInv, Passing, Reached
<1>4. IInv'
  BY FirstAnswerInv, GoodAnswerInv DEF PageIInv
<1>5. LimitsRead'
  BY <1>1, RequestLimits
<1>6. late' \in Properties \cup {0} /\ answers' \in Properties \cup {0}
  BY <1>1, <1>3 DEF Accepted, PageIInv, Passing
<1>7. clean' \in BOOLEAN
  BY <1>3 DEF FirstAnswer, GoodAnswer
<1>8. Passing'
  <2>1. fault \subseteq {p \in Properties : p < property}
    BY <1>3 DEF PageIInv, Passing
  <2>2. \A p \in Properties : p < property => p < property + 1
    BY <1>3, Where
  <2>3. fault \subseteq {p \in Properties : p < Reached'}
    BY <1>3, <2>1, <2>2
  <2>4. 1 \in 1..ListSize(property) /\ ListSize(property)' = ListSize(property)
    BY <1>1, <1>2, <1>3
  <2>5. QED BY <1>1, <1>2, <1>6, <1>7, <2>3, <2>4 DEF Passing
<1>9. CASE FirstAnswer
  <2>1. PICK v \in [1..ListSize(property) -> Readings[device]] :
          last' = [last EXCEPT ![property] = [k \in DOMAIN v |->
                                                [value |-> v[k], status |-> "NORMAL"]]]
    BY <1>9 DEF FirstAnswer
  <2>2. pc' = "answered" /\ clean' = FALSE /\ Reached' = property + 1
    BY <1>1, <1>9 DEF FirstAnswer, Reached
  <2>3. Readers'
    <3> DEFINE new == [k \in 1..ListSize(property) |-> [value |-> v[k], status |-> "NORMAL"]]
    <3>1. new \in [1..ListSize(property) -> [value : Readings[device], status : Statuses]]
      BY DEF Statuses
    <3>2. last'[property] = new /\ \A p \in Properties \ {property} : last'[p] = last[p]
      BY <1>3, <2>1 DEF PageIInv, IInv, Lists
    <3> HIDE DEF new
    <3>3. \A p \in Properties' : last'[p] # NoList =>
             last'[p] \in [1..ListSize(p)' -> [value : Readings[device'], status : Statuses]]
      BY <1>1, <1>2, <3>1, <3>2 DEF PageIInv, Readers
    <3>4. QED BY <1>1, <2>2, <3>3 DEF PageIInv, Readers, com
  <2>4. PageCounted'
    <3>1. /\ Cardinality(Before(property)) \in Nat
          /\ Cardinality(Before(property + 1)) = Cardinality(Before(property)) + ListSize(property)
      BY <1>3, CountBefore
    <3>2. param_cnt <= Cardinality(Before(property)) /\ cnt \in 0..Cardinality(Params)
      BY <1>3 DEF PageIInv, PageCounted
    <3>3. Cardinality(Params)' = Cardinality(Params)
          /\ Cardinality(Before(Reached))' = Cardinality(Before(property + 1))
      BY <1>2, <2>2
    <3>4. QED BY <1>1, <1>3, <2>2, <3>1, <3>2, <3>3 DEF PageCounted
  <2>5. PageEntries' /\ PageFilled'
    BY <1>1, <1>2, <2>2 DEF PageIInv, PageEntries, PageFilled
  <2>6. QED BY <1>4, <1>5, <1>8, <2>3, <2>4, <2>5 DEF PageIInv
<1>10. CASE GoodAnswer
  <2>1. /\ pc' = "compare" /\ clean' = clean /\ last' = last
        /\ values' \in [1..ListSize(property) -> Readings[device]]
    BY <1>10 DEF GoodAnswer
  <2>2. Readers'
    <3>1. \A p \in Properties' : last'[p] # NoList =>
             last'[p] \in [1..ListSize(p)' -> [value : Readings[device'], status : Statuses]]
      BY <1>1, <1>2, <2>1 DEF PageIInv, Readers
    <3>2. values' \in [1..ListSize(property)' -> Readings[device']]
      BY <1>1, <2>1 DEF ListSize
    <3>3. QED BY <1>1, <3>1, <3>2 DEF PageIInv, Readers, com
  <2>3. Reached' = property /\ Filled' = param_cnt /\ Filled = param_cnt
    BY <1>1, <1>3, <2>1 DEF Reached, Filled
  <2>4. \A param \in Params : IsDone(param)' <=> IsDone(param)
    <3>1. \A param \in Params : ~(param[2] < 1)
      BY Where
    <3>2. QED BY <1>1, <1>3, <2>1, <2>3, <3>1 DEF IsDone
  <2>5. \A param \in Params : Status(param)' = Status(param)
    BY <2>1 DEF Status
  <2>6. PageCounted' /\ PageEntries' /\ PageFilled'
    <3>1. Reached' = Reached /\ Filled' = Filled
      BY <1>3, <2>3
    <3>2. QED BY <1>1, <1>7, <2>1, <2>4, <2>5, <3>1, SamePage
  <2>7. QED BY <1>4, <1>5, <1>8, <2>2, <2>6 DEF PageIInv
<1>11. QED BY <1>9, <1>10

\* One parameter compared.
LEMMA CompareStep == ASSUME PageIInv, Compare \/ CompareRefused PROVE PageIInv'
<1>1. /\ pc = "compare" /\ device' = device /\ property' = property /\ values' = values
      /\ UNCHANGED com /\ UNCHANGED config /\ NextParam /\ fault' = fault
      /\ late' = late /\ answers' = answers /\ (clean' = clean \/ clean' = FALSE)
  BY DEF Compare, CompareRefused
<1>2. /\ Properties' = Properties /\ Types[device]' = Types[device] /\ Params' = Params
      /\ \A p \in Properties : ListSize(p)' = ListSize(p)
      /\ Cardinality(Params)' = Cardinality(Params)
  BY <1>1, SameCounts
<1>3. /\ property \in Properties /\ property \in Int /\ Reached = property /\ device \in Devices
      /\ i \in 1..ListSize(property) /\ clean \in BOOLEAN
  BY <1>1, Where DEF PageIInv, Passing
<1>4. IInv'
  BY CompareInv, CompareRefusedInv DEF PageIInv
<1>5. /\ pc' \in {"compare", "answered"} /\ i' \in 1..ListSize(property)
      /\ pc' # "compare" => i' = 1
      /\ Reached' \in {property, property + 1}
  BY <1>1, NextParamPlace
<1>6. Passing'
  <2>1. \A p \in Properties : p < property => p < Reached'
    BY <1>3, <1>5, Where
  <2>2. fault \subseteq {p \in Properties : p < Reached'}
    BY <1>3, <2>1 DEF PageIInv, Passing
  <2>3. ListSize(property)' = ListSize(property) /\ clean' \in BOOLEAN
    BY <1>1, <1>2, <1>3
  <2>4. QED BY <1>1, <1>2, <1>5, <2>2, <2>3 DEF PageIInv, Passing
<1>7. LimitsRead'
  BY <1>1, <1>5, RequestLimits
<1>8. Readers'
  <2> DEFINE old == last[property][i]
             Entries == [value : Readings[device], status : Statuses]
  <2>1. /\ values \in [1..ListSize(property) -> Readings[device]]
        /\ last[property] \in [1..ListSize(property) -> Entries]
        /\ last = [p \in Properties |-> last[p]]
    BY <1>1, <1>3 DEF PageIInv, Readers, IInv, Comparing, Lists
  <2>2. PICK e \in Entries : last' = [last EXCEPT ![property][i] = e]
    <3>1. CASE Compare
      <4> DEFINE s == NextStatus(old.status, values[i], TypeOf(<<property, i>>), limits[property])
      <4>1. last' = [last EXCEPT ![property][i] = [value |-> values[i], status |-> s]]
        BY <3>1 DEF Compare
      <4>2. s \in Statuses
        BY <1>3, <2>1, StatusType
      <4> HIDE DEF s
      <4>3. [value |-> values[i], status |-> s] \in Entries
        BY <1>3, <2>1, <4>2
      <4>4. QED BY <4>1, <4>3
    <3>2. CASE CompareRefused
      <4>1. last' = [last EXCEPT ![property][i] = [old EXCEPT !.value = values[i]]]
        BY <3>2 DEF CompareRefused, NotLatched
      <4>2. [old EXCEPT !.value = values[i]] \in Entries
        BY <1>3, <2>1
      <4>3. QED BY <4>1, <4>2
    <3>3. QED BY <3>1, <3>2
  <2>3. /\ last'[property] = [last[property] EXCEPT ![i] = e]
        /\ \A p \in Properties \ {property} : last'[p] = last[p]
    BY <1>3, <2>1, <2>2
  <2>4. last'[property] \in [1..ListSize(property) -> Entries]
    BY <1>3, <2>1, <2>2, <2>3
  <2>5. \A p \in Properties : last'[p] # NoList => last'[p] \in [1..ListSize(p) -> Entries]
    BY <2>3, <2>4 DEF PageIInv, Readers
  <2>6. \A p \in Properties' : last'[p] # NoList =>
           last'[p] \in [1..ListSize(p)' -> [value : Readings[device'], status : Statuses]]
    BY <1>1, <1>2, <2>5
  <2>7. values' \in [1..ListSize(property)' -> Readings[device']]
    BY <1>1, <1>2, <1>3, <2>1
  <2>8. QED BY <1>1, <2>6, <2>7 DEF PageIInv, Readers, com
<1>9. PageCounted' /\ PageEntries' /\ PageFilled'
  <2>1. CASE Compare
    BY <2>1, ComparePage
  <2>2. CASE CompareRefused
    <3>1. clean' = FALSE /\ page' = page
      BY <2>2 DEF CompareRefused
    <3>2. PageCounted'
      BY <1>1, <3>1, NextParamCounted
    <3>3. QED BY <1>2, <3>1, <3>2 DEF PageIInv, PageEntries, PageFilled
  <2>3. QED BY <2>1, <2>2
<1>10. QED BY <1>4, <1>6, <1>7, <1>8, <1>9 DEF PageIInv

\* The device is there again: the next request.
LEMMA DeviceAnsweredStep == ASSUME PageIInv, DeviceAnswered PROVE PageIInv'
<1>1. /\ pc = "answered" /\ device' = device /\ NextProperty /\ UNCHANGED config
      /\ i' = i /\ param_cnt' = param_cnt /\ late' = late /\ last' = last /\ page' = page
      /\ cnt' = cnt /\ clean' = clean /\ fault' = fault /\ answers' = 0
      /\ com_fail_count' = 0
  BY DEF DeviceAnswered
<1>2. Reached = property + 1 /\ Filled = param_cnt /\ clean \in BOOLEAN
  BY <1>1 DEF Reached, Filled, PageIInv, Passing
<1>3. pc' \in {"ask", "put"} /\ Reached' = property + 1 /\ Filled' = param_cnt
  BY <1>1, NextPlace DEF Filled
<1>4. IInv'
  BY DeviceAnsweredInv DEF PageIInv
<1>5. Passing'
  BY <1>1, <1>2, RequestPassing DEF PageIInv, Passing
<1>6. Readers'
  BY <1>1, <1>3, SameReaders
<1>7. LimitsRead'
  BY <1>1, RequestLimits
<1>8. PageCounted' /\ PageEntries' /\ PageFilled'
  <2>1. \A param \in Params : (IsDone(param)' <=> IsDone(param)) /\ Status(param)' = Status(param)
    BY <1>1, <1>2, <1>3 DEF IsDone, Status
  <2>2. Reached' = Reached /\ Filled' = Filled
    BY <1>2, <1>3
  <2>3. QED BY <1>1, <1>2, <2>1, <2>2, SamePage
<1>9. QED BY <1>4, <1>5, <1>6, <1>7, <1>8 DEF PageIInv

\* The next pass begins with an empty page of its own.
LEMMA PassEndsStep == ASSUME PageIInv, PassEnds PROVE PageIInv'
<1>1. /\ pc = "put" /\ device' = device /\ i' = i /\ last' = last /\ page' = page /\ cnt' = cnt
      /\ UNCHANGED com /\ pc' = "ask" /\ property' = 1 /\ param_cnt' = 0 /\ clean' = TRUE
      /\ fault' = {} /\ late' = 0 /\ answers' = answers
  BY DEF PassEnds
<1>2. /\ Properties' = Properties /\ Types[device]' = Types[device] /\ Params' = Params
      /\ \A p \in Properties : ListSize(p)' = ListSize(p)
      /\ \A p : Before(p)' = Before(p)
  BY <1>1, SameCounts
<1>3. /\ device \in Devices /\ 1 \in Properties /\ ListSize(1) \in Nat \ {0}
      /\ \A param \in Params : param[1] \in Int /\ param[1] \in Properties
  BY Where
<1>4. Reached' = 1 /\ Filled' = 0
  BY <1>1 DEF Reached, Filled
<1>5. IInv'
  BY OtherInv DEF PageIInv
<1>6. Passing'
  <2>1. clean' \in BOOLEAN
    BY <1>1, Zenon
  <2>2. ListSize(property)' = ListSize(1) /\ 1 \in 1..ListSize(1)
    BY <1>1, <1>2, <1>3 DEF ListSize
  <2>3. i' = 1
    BY <1>1 DEF PageIInv, Passing
  <2>4. QED BY <1>1, <1>2, <1>3, <2>1, <2>2, <2>3 DEF PageIInv, Passing
<1>7. Readers'
  BY <1>1, SameReaders DEF com, PageIInv, Readers
<1>8. LimitsRead'
  BY OtherLimits
<1>9. PageCounted'
  <2>1. Before(1) = {} /\ Cardinality({}) = 0
    BY <1>3, CountBefore
  <2>2. Cardinality(Before(Reached))' = 0 /\ Cardinality(Params)' = Cardinality(Params)
    BY <1>2, <1>4, <2>1
  <2>3. cnt' \in 0..Cardinality(Params)
    BY <1>1 DEF PageIInv, PageCounted
  <2>4. QED BY <1>1, <2>2, <2>3 DEF PageCounted
<1>10. PageEntries'
  BY <1>1, <1>2 DEF PageIInv, PageEntries
<1>11. PageFilled'
  <2>1. \A param \in Params : ~IsDone(param)'
    <3>1. \A param \in Params : ~(param[1] < 1)
      BY <1>3, Where
    <3>2. QED BY <1>1, <1>4, <3>1 DEF IsDone
  <2>2. 1..0 = {}
    OBVIOUS
  <2>3. QED BY <1>2, <1>4, <2>1, <2>2 DEF PageFilled
<1>12. QED BY <1>5, <1>6, <1>7, <1>8, <1>9, <1>10, <1>11 DEF PageIInv

\* A change of the limits, and a step of no consequence, leave the pass where it is.
LEMMA QuietStep == ASSUME PageIInv, ChangeLimits \/ uartVars' = uartVars PROVE PageIInv'
<1>1. /\ device' = device /\ UNCHANGED pass /\ UNCHANGED com
      /\ late' = late /\ last' = last /\ page' = page /\ cnt' = cnt
  BY DEF ChangeLimits, uartVars, pass, com
<1>2. /\ Properties' = Properties /\ Types[device]' = Types[device]
      /\ \A p \in Properties : ListSize(p)' = ListSize(p)
  BY <1>1, SameCounts
<1>3. Reached' = Reached /\ Filled' = Filled /\ clean \in BOOLEAN
  BY <1>1 DEF pass, Reached, Filled, PageIInv, Passing
<1>4. IInv'
  BY OtherInv DEF PageIInv
<1>5. Passing'
  <2>1. ListSize(property)' = ListSize(property)
    BY <1>1 DEF pass, ListSize
  <2>2. QED BY <1>1, <1>2, <1>3, <2>1 DEF pass, PageIInv, Passing, IInv, Lists
<1>6. Readers'
  BY <1>1, SameReaders DEF pass, com, PageIInv, Readers
<1>7. LimitsRead'
  BY OtherLimits
<1>8. PageCounted' /\ PageEntries' /\ PageFilled'
  <2>1. \A param \in Params : (IsDone(param)' <=> IsDone(param)) /\ Status(param)' = Status(param)
    BY <1>1, <1>3 DEF pass, IsDone, Status
  <2>2. QED BY <1>1, <1>3, <2>1, SamePage DEF pass
<1>9. QED BY <1>4, <1>5, <1>6, <1>7, <1>8 DEF PageIInv

LEMMA PageInit == Init => PageIInv
<1> SUFFICES ASSUME Init PROVE PageIInv
  OBVIOUS
<1>1. /\ device \in Devices /\ pc = "ask" /\ property = 1 /\ i = 1 /\ param_cnt = 0 /\ late = 0
      /\ last = [p \in Properties |-> NoList] /\ com_fail_count = 0 /\ com_fail_flag = FALSE
      /\ update = TRUE /\ alarm_flag \in BOOLEAN
      /\ page = [n \in 1..Cardinality(Params) |-> NoEntry] /\ cnt = 0
      /\ clean = TRUE /\ fault = {} /\ answers = 0
  BY DEF Init
<1>2. /\ Properties = 1..Len(Types[device]) /\ Len(Types[device]) \in Nat \ {0}
      /\ \A p \in Properties : ListSize(p) \in Nat \ {0}
  BY <1>1, SameDevice, Sizes
<1>3. Reached = 1 /\ Filled = 0
  BY <1>1 DEF Reached, Filled
<1>4. Passing
  <2>1. clean \in BOOLEAN
    BY <1>1, Zenon
  <2>2. QED BY <1>1, <1>2, <2>1 DEF Passing
<1>5. Readers
  BY <1>1 DEF Readers
<1>6. PageCounted
  <2>1. Before(1) = {} /\ Cardinality({}) = 0 /\ Cardinality(Params) \in Nat
    BY <1>1, CountBefore
  <2>2. QED BY <1>1, <1>3, <2>1 DEF PageCounted
<1>7. PageEntries
  BY <1>1 DEF PageEntries
<1>8. PageFilled
  <2>1. \A param \in Params : ~IsDone(param)
    <3>1. \A param \in Params : ~(param[1] < 1)
      BY <1>2, ParamIs
    <3>2. QED BY <1>1, <1>3, <3>1 DEF IsDone
  <2>2. 1..0 = {}
    OBVIOUS
  <2>3. QED BY <1>3, <2>1, <2>2 DEF PageFilled
<1>9. LimitsRead
  <2>1. update \in BOOLEAN
    BY <1>1, Zenon
  <2>2. \A p \in Properties : p >= property
    BY <1>1, <1>2
  <2>3. QED BY <1>1, <2>1, <2>2 DEF LimitsRead, LimitsAreCurrent
<1>10. QED BY <1>4, <1>5, <1>6, <1>7, <1>8, <1>9, InitInv DEF PageIInv

LEMMA PageNext == PageIInv /\ [Next]_uartVars => PageIInv'
BY NoValuesStep, AnswerStep, CompareStep, DeviceAnsweredStep, PassEndsStep, QuietStep
DEF Next, Poll

\* The page fills in the order of the requests, with the limits the pass has read: an
\* inductive invariant for any devices, readings and limits.
THEOREM PageInductiveInvariant == Spec => []PageIInv
BY PageInit, PageNext, PTL DEF Spec

\* The variables keep their types, and the page the room of one entry for each parameter.
THEOREM UartTypeCorrect == Spec => []TypeOK
<1>1. PageIInv => TypeOK
  <2> SUFFICES ASSUME PageIInv PROVE TypeOK
    OBVIOUS
  <2>1. /\ device \in Devices /\ pc \in {"ask", "compare", "answered", "put"}
        /\ property \in Properties /\ i \in 1..ListSize(property)
        /\ late \in Properties \cup {0} /\ answers \in Properties \cup {0}
    BY DEF PageIInv, IInv, Lists, Passing
  <2>2. param_cnt \in 0..Cardinality(Params) /\ cnt \in 0..Cardinality(Params)
    <3>1. Reached \in Int /\ device \in Devices /\ Cardinality(Params) \in Nat
      BY Where
    <3>2. /\ Cardinality(Before(Reached)) \in Nat
          /\ Cardinality(Before(Reached)) <= Cardinality(Params)
      BY <3>1, CountBefore
    <3>3. QED BY <3>1, <3>2 DEF PageIInv, PageCounted
  <2>3. /\ \A p \in Properties : last[p] # NoList =>
              last[p] \in [1..ListSize(p) -> [value : Readings[device], status : Statuses]]
        /\ com_fail_count \in 0..2 /\ com_fail_flag \in BOOLEAN
    BY DEF PageIInv, Readers, IInv, Counted
  <2>4. update \in BOOLEAN /\ alarm_flag \in BOOLEAN /\ raised \in [Params \cup {Device} -> BOOLEAN]
    BY DEF PageIInv, LimitsRead, IInv, Lists
  <2>5. \A n \in DOMAIN page : page[n] # NoEntry => page[n].param \in Params
                                  /\ page[n].alarm_type \in Statuses \cup {"COM_FAULT"}
    BY Where DEF PageIInv, PageEntries
  <2>6. QED BY <2>1, <2>2, <2>3, <2>4, <2>5 DEF TypeOK
<1>2. QED BY <1>1, PageInductiveInvariant, PTL

\* The page of a pass that reached the device with every request and found every block has
\* each parameter exactly once, as it is, for any devices.
THEOREM PageIsShown == Spec => []PageShowsDevice
<1>1. PageIInv => PageShowsDevice
  <2> SUFFICES ASSUME PageIInv, pc = "put", clean
               PROVE  /\ cnt = Cardinality(Params)
                      /\ \A param \in Params :
                            \E n \in 1..cnt :
                               /\ page[n] = Shown(param)
                               /\ \A m \in 1..cnt : page[m].param = param => m = n
    BY DEF PageShowsDevice, Shown
  <2>1. /\ device \in Devices /\ Len(Types[device]) \in Nat /\ Properties = 1..Len(Types[device])
        /\ property = Len(Types[device]) /\ Reached = Len(Types[device]) + 1
    BY Where DEF PageIInv, Passing
  <2>2. cnt = Cardinality(Params) /\ Filled = cnt
    <3>1. cnt = param_cnt /\ Filled = param_cnt /\ param_cnt = Cardinality(Before(Reached))
      BY DEF Filled, PageIInv, PageCounted
    <3>2. Before(Reached) = Params
      BY <2>1, CountBefore
    <3>3. QED BY <3>1, <3>2
  <2>3. \A param \in Params : IsDone(param)
    BY <2>1, Where DEF IsDone
  <2>4. /\ \A param \in Params : \E n \in 1..cnt : page[n] = Shown(param)
        /\ \A m, n \in 1..cnt : page[m].param = page[n].param => m = n
    BY <2>2, <2>3 DEF PageIInv, PageFilled
  <2>5. ASSUME NEW param \in Params
        PROVE  \E n \in 1..cnt : /\ page[n] = Shown(param)
                                 /\ \A m \in 1..cnt : page[m].param = param => m = n
    <3>1. PICK n \in 1..cnt : page[n] = Shown(param)
      BY <2>4
    <3>2. page[n].param = param
      BY <3>1 DEF Shown
    <3>3. QED BY <2>4, <3>1, <3>2
  <2>6. QED BY <2>2, <2>5
<1>2. QED BY <1>1, PageInductiveInvariant, PTL

\* A change of the limits reaches the thread, but for what it changes behind the pass that
\* reads them and for what that pass is refused, for any devices and limits.
THEOREM LimitsReachTheThread == Spec => []LimitsAreCurrent
<1>1. PageIInv => LimitsAreCurrent
  BY DEF PageIInv, LimitsRead
<1>2. QED BY <1>1, PageInductiveInvariant, PTL
=============================================================================
