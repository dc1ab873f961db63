-------------------------- MODULE SchedulerProofs --------------------------
(* Proofs about Scheduler and the cadence arithmetic it rests on. *)
EXTENDS Scheduler, TLAPS

-----------------------------------------------------------------------------
(* Remainders. *)

\* Every integer is a multiple of the period and a remainder.
LEMMA Split ==
  \A W \in Nat \ {0}, x \in Int : \E q \in Int, r \in 0..(W - 1) :
    x = W * q + r /\ r = x % W /\ q = x \div W
  <1> TAKE W \in Nat \ {0}, x \in Int
  <1>1. (x % W) \in 0..(W - 1) /\ x = W * (x \div W) + (x % W) /\ x \div W \in Int
    OBVIOUS
  <1> QED BY <1>1

\* A multiple of the period and a remainder are what they are divided into.
LEMMA Rejoined ==
  \A W \in Nat \ {0} : \A q \in Int, r \in 0..(W - 1) :
    (W * q + r) % W = r /\ (W * q + r) \div W = q
  OBVIOUS

\* Whole periods do not show in the remainder.
LEMMA Periodic ==
  \A W \in Nat \ {0}, x \in Int, k \in Int : (x + W * k) % W = x % W
  <1> TAKE W \in Nat \ {0}, x \in Int, k \in Int
  <1>1. PICK q \in Int, r \in 0..(W - 1) : x = W * q + r /\ r = x % W
    BY Split
  <1>2. x + W * k = W * (q + k) + r
    BY <1>1
  <1>3. (W * (q + k) + r) % W = r
    <2>1. q + k \in Int
      OBVIOUS
    <2> QED BY <2>1, Rejoined
  <1>4. QED BY <1>1, <1>2, <1>3

LEMMA OneTurn == \A W \in Nat \ {0}, x \in Int : (x + W) % W = x % W
  <1> TAKE W \in Nat \ {0}, x \in Int
  <1>1. PICK q \in Int, r \in 0..(W - 1) : x = W * q + r /\ r = x % W
    BY Split
  <1>2. x + W = W * (q + 1) + r /\ q + 1 \in Int
    BY <1>1
  <1>3. (W * (q + 1) + r) % W = r
    BY <1>2, Rejoined
  <1>4. QED BY <1>1, <1>2, <1>3

\* A clock may be wound before or after something is added to it.
LEMMA Wound ==
  \A W \in Nat \ {0}, x \in Int, y \in Int : ((x % W) + y) % W = (x + y) % W
  <1> TAKE W \in Nat \ {0}, x \in Int, y \in Int
  <1>1. PICK q \in Int, r \in 0..(W - 1) : x = W * q + r /\ r = x % W
    BY Split
  <1>2. x + y = (r + y) + W * q /\ r + y \in Int
    BY <1>1
  <1>3. ((r + y) + W * q) % W = (r + y) % W
    BY <1>2, Periodic
  <1>4. QED BY <1>1, <1>2, <1>3

\* The time of day is the same on a clock that shows the week.
LEMMA DayInWeek ==
  \A D \in Nat \ {0}, M \in Nat \ {0}, x \in Int : (x % (D * M)) % D = x % D
  <1> TAKE D \in Nat \ {0}, M \in Nat \ {0}, x \in Int
  <1>1. D * M \in Nat \ {0}
    OBVIOUS
  <1>2. PICK q \in Int, r \in 0..(D * M - 1) : x = (D * M) * q + r /\ r = x % (D * M)
    BY <1>1, Split
  <1>3. x = r + D * (M * q) /\ M * q \in Int /\ r \in Int
    BY <1>2
  <1>4. (r + D * (M * q)) % D = r % D
    BY <1>3, Periodic
  <1>5. QED BY <1>3, <1>4, <1>2

Meets(W, x, p, d) ==
  /\ d \in 1..W
  /\ (x + d) % W = p
  /\ \A k \in 1..(d - 1) : (x + k) % W # p

\* From x, the point p of a cycle is first met after Ahead(p - x, W).
LEMMA FirstMet ==
  ASSUME NEW W \in Nat \ {0}, NEW x \in 0..(W - 1), NEW p \in 0..(W - 1),
         NEW d, d = Ahead(p - x, W)
  PROVE  Meets(W, x, p, d)
  <1>1. d \in 1..W /\ (d = p - x \/ d = p - x + W)
    BY DEF Ahead
  <1>2. (x + d) % W = p
    <2>1. x + d = p \/ x + d = p + W
      BY <1>1
    <2>2. (p + W) % W = p % W
      <3>1. p \in Int
        OBVIOUS
      <3>2. QED BY <3>1, OneTurn, Zenon
    <2>3. p % W = p
      OBVIOUS
    <2>4. QED BY <2>1, <2>2, <2>3
  <1>3. ASSUME NEW k \in 1..(d - 1) PROVE (x + k) % W # p
    <2>1. CASE x + k < W
      <3>1. (x + k) % W = x + k
        BY <2>1
      <3>2. x + k # p
        BY <2>1 DEF Ahead
      <3>3. QED BY <3>1, <3>2
    <2>2. CASE x + k >= W
      <3>1. PICK y \in 0..(W - 1) : x + k = y + W
        <4>1. x + k - W \in 0..(W - 1) /\ x + k = (x + k - W) + W
          BY <2>2, <1>1
        <4>2. QED BY <4>1
      <3>2. (y + W) % W = y
        <4>1. (y + W) % W = y % W
          <5>1. y \in Int
            OBVIOUS
          <5>2. QED BY <5>1, OneTurn, Zenon
        <4>2. y % W = y
          OBVIOUS
        <4>3. QED BY <4>1, <4>2
      <3>3. y # p
        BY <1>1, <3>1
      <3>4. QED BY <3>1, <3>2, <3>3
    <2>3. QED BY <2>1, <2>2, <1>1
  <1>4. QED BY <1>1, <1>2, <1>3 DEF Meets

-----------------------------------------------------------------------------
(* compute_next_run. *)

AllCadences == Daily \cup Weekly \cup Interval

\* The week is made of days.
LEMMA WeekSize == Week \in Nat \ {0} /\ Day \in Nat \ {0} /\ Days \in Nat \ {0} /\ Day <= Week
  <1>1. Day \in Nat \ {0} /\ Days \in Nat \ {0}
    BY CadenceAssumption DEF CadenceAssumption
  <1>2. QED BY <1>1 DEF Week

\* A moment of the week is a day and a time of day.
LEMMA Moment ==
  ASSUME NEW x \in Clock
  PROVE  /\ x = Day * Weekday(x) + TimeOfDay(x)
         /\ Weekday(x) \in 0..(Days - 1)
         /\ TimeOfDay(x) \in 0..(Day - 1)
  <1>1. Day \in Nat \ {0} /\ Days \in Nat \ {0}
    BY WeekSize
  <1>2. x \in 0..(Day * Days - 1)
    BY DEF Clock, Week
  <1>3. PICK q \in Int, r \in 0..(Day - 1) : x = Day * q + r /\ r = x % Day /\ q = x \div Day
    BY <1>1, <1>2, Split
  <1>4. q >= 0
    <2>1. SUFFICES ASSUME q <= -1 PROVE FALSE
      BY <1>3
    <2>2. Day * q <= -Day
      BY <2>1, <1>1, <1>3
    <2>3. QED BY <2>2, <1>1, <1>2, <1>3
  <1>5. q <= Days - 1
    <2>1. SUFFICES ASSUME q >= Days PROVE FALSE
      BY <1>1, <1>3
    <2>2. Day * q >= Day * Days
      BY <2>1, <1>1, <1>3
    <2>3. QED BY <2>2, <1>1, <1>2, <1>3
  <1>6. QED BY <1>3, <1>4, <1>5, <1>1 DEF Weekday, TimeOfDay

\* Two moments of the week with the same day and time are one.
LEMMA MomentAgain ==
  ASSUME NEW w \in 0..(Days - 1), NEW m \in 0..(Day - 1)
  PROVE  /\ Day * w + m \in Clock
         /\ Weekday(Day * w + m) = w
         /\ TimeOfDay(Day * w + m) = m
  <1>1. Day \in Nat \ {0} /\ Days \in Nat \ {0}
    BY WeekSize
  <1>2. Day * w >= 0 /\ Day * w <= Day * (Days - 1)
    BY <1>1
  <1>3. Day * (Days - 1) = Day * Days - Day
    BY <1>1
  <1>4. Day * w + m \in Clock
    BY <1>1, <1>2, <1>3 DEF Clock, Week
  <1>5. (Day * w + m) % Day = m /\ (Day * w + m) \div Day = w
    <2>1. w \in Int
      OBVIOUS
    <2>2. QED BY <1>1, <2>1, Rejoined
  <1>6. QED BY <1>4, <1>5 DEF Weekday, TimeOfDay

\* What FirstFall says of one cadence at one moment.
First(c, now) ==
  /\ NextRun(c, now) \in 1..(Week + Longest)
  /\ Falls(c, (now + NextRun(c, now)) % Week)
  /\ c.kind # "interval" =>
       \A sooner \in 1..(NextRun(c, now) - 1) : ~Falls(c, (now + sooner) % Week)

LEMMA FirstDaily ==
  ASSUME NEW c \in Daily, NEW now \in Clock
  PROVE  First(c, now)
  <1> DEFINE m == TimeOfDay(now)
             d == NextRun(c, now)
  <1>1. Day \in Nat \ {0} /\ Days \in Nat \ {0} /\ Week \in Nat \ {0} /\ Day <= Week
    BY WeekSize
  <1>2. m \in 0..(Day - 1)
    BY Moment
  <1>3. c.kind = "daily" /\ c.time \in 0..(Day - 1)
    BY DEF Daily
  <1>4. d = Ahead(c.time - m, Day)
    BY <1>3 DEF NextRun
  <1>5. /\ d \in 1..Day
        /\ (m + d) % Day = c.time
        /\ \A k \in 1..(d - 1) : (m + k) % Day # c.time
    <2> HIDE DEF m, d
    <2>1. Meets(Day, m, c.time, d)
      BY <1>1, <1>2, <1>3, <1>4, FirstMet
    <2>2. QED BY <2>1 DEF Meets
  <1>6. ASSUME NEW k \in Int PROVE TimeOfDay((now + k) % Week) = (m + k) % Day
    <2>1. now \in Int /\ now + k \in Int
      BY <1>1 DEF Clock
    <2>2. ((now + k) % Week) % Day = (now + k) % Day
      BY <1>1, <2>1, DayInWeek DEF Week
    <2>3. ((now % Day) + k) % Day = (now + k) % Day
      BY <1>1, <2>1, Wound
    <2>4. QED BY <2>2, <2>3 DEF TimeOfDay
  <1>7. d \in 1..(Week + Longest)
    BY <1>1, <1>5, CadenceAssumption DEF CadenceAssumption
  <1>8. Falls(c, (now + d) % Week)
    <2>1. d \in Int
      BY <1>5, <1>1
    <2>2. QED BY <2>1, <1>3, <1>5, <1>6 DEF Falls
  <1>9. ASSUME NEW sooner \in 1..(d - 1) PROVE ~Falls(c, (now + sooner) % Week)
    <2>1. sooner \in Int
      OBVIOUS
    <2>2. QED BY <2>1, <1>3, <1>5, <1>6 DEF Falls
  <1>10. QED BY <1>7, <1>8, <1>9 DEF First

LEMMA FirstWeekly ==
  ASSUME NEW c \in Weekly, NEW now \in Clock
  PROVE  First(c, now)
  <1> DEFINE m == TimeOfDay(now)
             q == Weekday(now)
             p == Day * c.weekday + c.time
             d == NextRun(c, now)
  <1>1. Day \in Nat \ {0} /\ Days \in Nat \ {0} /\ Week \in Nat \ {0} /\ Day <= Week
    BY WeekSize
  <1>2. now = Day * q + m /\ m \in 0..(Day - 1) /\ q \in 0..(Days - 1) /\ now \in 0..(Week - 1)
    BY Moment DEF Clock
  <1>3. c.kind = "weekly" /\ c.time \in 0..(Day - 1) /\ c.weekday \in 0..(Days - 1)
    BY DEF Weekly
  <1>4. p \in 0..(Week - 1) /\ Weekday(p) = c.weekday /\ TimeOfDay(p) = c.time
    BY <1>3, MomentAgain DEF Clock
  <1>5. d = Ahead(c.time - m + Day * ((c.weekday - q) % Days), Week)
    BY <1>3 DEF NextRun
  <1>6. d = Ahead(p - now, Week)
    <2>1. CASE c.weekday >= q
      <3>1. (c.weekday - q) % Days = c.weekday - q
        BY <2>1, <1>1, <1>2, <1>3
      <3>2. Day * (c.weekday - q) = Day * c.weekday - Day * q
        BY <1>1, <1>2, <1>3
      <3>3. c.time - m + Day * (c.weekday - q) = p - now
        BY <3>2, <1>1, <1>2, <1>3
      <3>4. QED BY <3>1, <3>3, <1>5
    <2>2. CASE c.weekday < q
      <3>1. (c.weekday - q) % Days = c.weekday - q + Days
        BY <2>2, <1>1, <1>2, <1>3
      <3>2. Day * (c.weekday - q + Days) = Day * c.weekday - Day * q + Week
        BY <1>1, <1>2, <1>3 DEF Week
      <3>3. c.time - m + Day * (c.weekday - q + Days) = p - now + Week
        BY <3>2, <1>1, <1>2, <1>3
      <3>4. p < now
        <4>1. Day * c.weekday <= Day * (q - 1)
          BY <2>2, <1>1, <1>2, <1>3
        <4>2. Day * (q - 1) = Day * q - Day
          BY <1>1, <1>2
        <4>3. QED BY <4>1, <4>2, <1>1, <1>2, <1>3
      <3>5. p - now + Week > 0
        BY <1>2, <1>4, <1>1
      <3>6. d = p - now + Week
        BY <3>1, <3>3, <3>5, <1>5 DEF Ahead
      <3>7. ~(p - now > 0)
        BY <3>4, <1>2, <1>4
      <3>8. QED BY <3>6, <3>7 DEF Ahead
    <2>3. QED BY <2>1, <2>2, <1>2, <1>3
  <1>7. /\ d \in 1..Week
        /\ (now + d) % Week = p
        /\ \A k \in 1..(d - 1) : (now + k) % Week # p
    <2> HIDE DEF p, d
    <2>1. Meets(Week, now, p, d)
      BY <1>1, <1>2, <1>4, <1>6, FirstMet
    <2>2. QED BY <2>1 DEF Meets
  <1>8. d \in 1..(Week + Longest)
    BY <1>1, <1>7, CadenceAssumption DEF CadenceAssumption
  <1>9. Falls(c, (now + d) % Week)
    BY <1>3, <1>4, <1>7 DEF Falls
  <1>10. ASSUME NEW sooner \in 1..(d - 1) PROVE ~Falls(c, (now + sooner) % Week)
    <2> DEFINE x == (now + sooner) % Week
    <2>1. sooner \in Int /\ now + sooner \in Int
      BY <1>1, <1>2, <1>7
    <2>2. x \in Clock
      <3>1. \E k \in Int, r \in 0..(Week - 1) : r = (now + sooner) % Week
        BY <1>1, <2>1, Split
      <3>2. QED BY <3>1 DEF Clock
    <2>3. x # p
      BY <1>7
    <2>4. x = Day * Weekday(x) + TimeOfDay(x)
      BY <2>2, Moment
    <2> HIDE DEF x
    <2>5. ~(TimeOfDay(x) = c.time /\ Weekday(x) = c.weekday)
      BY <2>3, <2>4
    <2>6. ~Falls(c, x)
      BY <2>5, <1>3 DEF Falls
    <2>7. QED BY <2>6 DEF x
  <1>11. QED BY <1>8, <1>9, <1>10 DEF First

LEMMA FirstInterval ==
  ASSUME NEW c \in Interval, NEW now \in Clock
  PROVE  First(c, now)
  <1>1. c.kind = "interval" /\ c.every \in 1..Longest
    BY DEF Interval
  <1>2. NextRun(c, now) = c.every
    BY <1>1 DEF NextRun
  <1>3. NextRun(c, now) \in 1..(Week + Longest)
    BY <1>1, <1>2, WeekSize, CadenceAssumption DEF CadenceAssumption
  <1>4. QED BY <1>1, <1>3 DEF First, Falls

\* compute_next_run on every cadence: strictly ahead, on the cadence, and with
\* nothing of the cadence before it.
LEMMA NextRunIsFirst ==
  ASSUME NEW c \in AllCadences, NEW now \in Clock
  PROVE  First(c, now)
  BY FirstDaily, FirstWeekly, FirstInterval DEF AllCadences

-----------------------------------------------------------------------------
(* Types. *)

LEMMA Planned ==
  ASSUME NEW c \in Cadences, NEW now \in Clock
  PROVE  NextRun(c, now) \in 1..(Week + Longest) /\ Falls(c, (now + NextRun(c, now)) % Week)
  <1>1. c \in AllCadences
    BY SchedulerAssumption DEF SchedulerAssumption, AllCadences
  <1>2. QED BY <1>1, NextRunIsFirst DEF First

\* The clock never leaves the week, nor a fire time its range.
LEMMA Bounds ==
  /\ Week \in Nat \ {0}
  /\ Longest \in Nat
  /\ \A x \in Int : x % Week \in Clock
  <1>1. Week \in Nat \ {0}
    BY WeekSize
  <1>2. \A x \in Int : \E r \in 0..(Week - 1) : r = x % Week
    BY <1>1, Split
  <1>3. QED BY <1>1, <1>2, CadenceAssumption DEF Clock, CadenceAssumption

LEMMA TypedStep ==
  TypeOK /\ RowInv /\ [Next]_vars => TypeOK' /\ RowInv'
  <1> SUFFICES ASSUME TypeOK, RowInv, [Next]_vars PROVE TypeOK' /\ RowInv'
    OBVIOUS
  <1> USE Bounds
  <1>1. CASE Pass
    <2>1. clock + 1 \in Int
      BY DEF TypeOK, Clock
    <2>2. clock' \in Clock
      BY <1>1, <2>1 DEF Pass
    <2>3. due' \in [Schedules -> 0..(Week + Longest)]
      <3>1. \A s \in Schedules : (IF due[s] > 0 THEN due[s] - 1 ELSE 0) \in 0..(Week + Longest)
        <4>1. PICK top \in Nat : top = Week + Longest
          OBVIOUS
        <4>2. \A s \in Schedules : due[s] \in 0..top
          BY <4>1 DEF TypeOK
        <4>3. \A d \in 0..top : (IF d > 0 THEN d - 1 ELSE 0) \in 0..top
          BY <4>1, SMT
        <4>4. QED BY <4>1, <4>2, <4>3
      <3>2. QED BY <1>1, <3>1 DEF Pass
    <2>4. QED BY <1>1, <2>2, <2>3 DEF Pass, TypeOK, RowInv, runVars
  <1>2. ASSUME NEW by \in {-1, 1}, SetClock(by) PROVE TypeOK' /\ RowInv'
    <2>1. clock + Week + by \in Int
      BY DEF TypeOK, Clock
    <2>2. clock' \in Clock
      BY <1>2, <2>1 DEF SetClock
    <2>3. drift' \in [Schedules -> -1..1]
      BY <1>2 DEF SetClock
    <2>4. QED BY <1>2, <2>2, <2>3 DEF SetClock, TypeOK, RowInv, runVars
  <1>3. ASSUME NEW S \in SUBSET Schedules, Launch(S), UNCHANGED <<clock, rowVars, patch>>
        PROVE TypeOK' /\ RowInv'
    <2>1. \A s \in S : NewSession(s) \in Sessions
      BY <1>3 DEF Launch, NewSession, Unused
    <2>2. QED BY <1>3, <2>1 DEF Launch, TypeOK, RowInv, rowVars
  <1>4. CASE Tick
    <2>1. {s \in Schedules : Due(s)} \in SUBSET Schedules
      OBVIOUS
    <2>2. QED BY <1>3, <1>4, <2>1 DEF Tick
  <1>5. ASSUME NEW s \in Schedules, RunNow(s) PROVE TypeOK' /\ RowInv'
    BY <1>3, <1>5 DEF RunNow
  <1>6. ASSUME NEW s \in Schedules, NEW n \in Sessions, Execute(s, n) PROVE TypeOK' /\ RowInv'
    BY <1>6 DEF Execute, TypeOK, RowInv, rowVars
  <1>7. ASSUME NEW s \in Schedules, NEW n \in Sessions, Finish(s, n) PROVE TypeOK' /\ RowInv'
    <2>1. CASE Exists(s) /\ Plan(s, cadence[s], FALSE)
      <3>1. cadence[s] \in Cadences
        BY <2>1 DEF RowInv, Exists
      <3>2. NextRun(cadence[s], clock) \in 1..(Week + Longest)
        BY <3>1, Planned DEF TypeOK
      <3>3. /\ due' \in [Schedules -> 0..(Week + Longest)]
            /\ drift' \in [Schedules -> -1..1]
            /\ stale' \in [Schedules -> BOOLEAN]
        BY <2>1, <3>2 DEF Plan, TypeOK
      <3>4. QED BY <1>7, <3>3 DEF Finish, TypeOK, RowInv
    <2>2. CASE ~Exists(s) /\ UNCHANGED <<due, drift, stale>>
      BY <1>7, <2>2 DEF Finish, TypeOK, RowInv
    <2>3. QED BY <1>7, <2>1, <2>2 DEF Finish
  <1>8. ASSUME NEW s \in Schedules, NEW n \in Sessions, Forget(s, n) PROVE TypeOK' /\ RowInv'
    BY <1>8 DEF Forget, TypeOK, RowInv, rowVars
  <1>9. ASSUME NEW s \in Schedules, NEW c \in Cadences, NEW enabled \in {"on", "off"},
               Create(s, c, enabled)
        PROVE TypeOK' /\ RowInv'
    <2>1. NextRun(c, clock) \in 1..(Week + Longest)
      BY Planned DEF TypeOK
    <2>2. QED BY <1>9, <2>1 DEF Create, Plan, TypeOK, RowInv, runVars
  <1>10. ASSUME NEW s \in Schedules, Delete(s) PROVE TypeOK' /\ RowInv'
    BY <1>10 DEF Delete, Exists, TypeOK, RowInv, runVars
  <1>11. ASSUME NEW s \in Schedules, NEW e \in Editors, PatchRead(e, s) PROVE TypeOK' /\ RowInv'
    <2>1. cadence[s] \in Cadences
      BY <1>11 DEF PatchRead, RowInv, Exists
    <2>2. QED BY <1>11, <2>1 DEF PatchRead, TypeOK, RowInv, rowVars, runVars
  <1>12. ASSUME NEW e \in Editors, PatchWrite(e) PROVE TypeOK' /\ RowInv'
    <2> DEFINE s == patch[e].of
               seen == patch[e].seen
    <2>1. s \in Schedules /\ seen \in Cadences
      BY <1>12 DEF PatchWrite, TypeOK
    <2> HIDE DEF s, seen
    <2>2. ASSUME Exists(s), NEW c \in Cadences \cup {None}, NEW enabled \in {"on", "off", None},
                 Amend(s, seen, c, enabled)
          PROVE /\ row' \in [Schedules -> {"new", "on", "off", "deleted"}]
                /\ cadence' \in [Schedules -> Cadences \cup {None}]
                /\ due' \in [Schedules -> 0..(Week + Longest)]
                /\ drift' \in [Schedules -> -1..1]
                /\ stale' \in [Schedules -> BOOLEAN]
                /\ RowInv'
      <3>1. (IF c = None THEN seen ELSE c) \in Cadences
        BY <2>1
      <3>2. NextRun(IF c = None THEN seen ELSE c, clock) \in 1..(Week + Longest)
        BY <3>1, Planned DEF TypeOK
      <3>3. /\ due' \in [Schedules -> 0..(Week + Longest)]
            /\ drift' \in [Schedules -> -1..1]
            /\ stale' \in [Schedules -> BOOLEAN]
        <4>1. 1..(Week + Longest) \subseteq 0..(Week + Longest) /\ 0 \in -1..1
          OBVIOUS
        <4>2. /\ due \in [Schedules -> 0..(Week + Longest)] /\ drift \in [Schedules -> -1..1]
              /\ stale \in [Schedules -> BOOLEAN]
          BY DEF TypeOK
        <4> QED BY <2>2, <3>2, <4>1, <4>2 DEF Amend, Plan
      <3>4. QED BY <2>1, <2>2, <3>3 DEF Amend, Exists, TypeOK, RowInv
    <2>3. CASE ~Exists(s) /\ UNCHANGED rowVars
      BY <1>12, <2>3 DEF PatchWrite, TypeOK, RowInv, rowVars, runVars
    <2>4. UNCHANGED <<clock, runVars>> /\ patch' = [patch EXCEPT ![e] = None]
      BY <1>12 DEF PatchWrite
    <2>5. \/ \E c \in Cadences \cup {None}, enabled \in {"on", "off", None} :
               Exists(s) /\ Amend(s, seen, c, enabled)
          \/ ~Exists(s) /\ UNCHANGED rowVars
      BY <1>12 DEF PatchWrite, s, seen
    <2>6. QED BY <2>2, <2>3, <2>4, <2>5 DEF TypeOK, runVars
  <1>13. CASE Restart
    BY <1>13 DEF Restart, TypeOK, RowInv, rowVars
  <1>14. CASE UNCHANGED vars
    BY <1>14 DEF vars, TypeOK, RowInv, rowVars, runVars
  <1>15. QED
    BY <1>1, <1>2, <1>4, <1>5, <1>6, <1>7, <1>8, <1>9, <1>10, <1>11, <1>12, <1>13, <1>14 DEF Next

LEMMA TypedInit == Init => TypeOK /\ RowInv
  <1> USE Bounds
  <1>1. Init => TypeOK
    BY DEF Init, TypeOK, Clock
  <1>2. QED BY <1>1 DEF Init, RowInv

\* Whatever requests, ticks, runs, clock changes and restarts do, the rows and
\* the table keep their shape; no fire time is negative or beyond a week.
THEOREM TypeCorrect == Spec => []TypeOK
  <1>1. Init => TypeOK /\ RowInv
    BY TypedInit
  <1>2. TypeOK /\ RowInv /\ [Next]_vars => TypeOK' /\ RowInv'
    BY TypedStep
  <1>3. QED BY <1>1, <1>2, PTL DEF Spec

\* compute_next_run at every moment the server meets (FirstFall, for weeks of any
\* length): the next fire time is ahead, on the cadence, and the first such.
THEOREM FirstFallAlways == Spec => []FirstFall
  <1>1. TypeOK => FirstFall
    <2> SUFFICES ASSUME TypeOK, NEW c \in Daily \cup Weekly \cup Interval
                 PROVE  /\ NextRun(c, clock) > 0
                        /\ Falls(c, (clock + NextRun(c, clock)) % Week)
                        /\ c.kind # "interval" =>
                             \A sooner \in 1..(NextRun(c, clock) - 1) :
                               ~Falls(c, (clock + sooner) % Week)
      BY DEF FirstFall
    <2>1. First(c, clock)
      BY NextRunIsFirst DEF AllCadences, TypeOK
    <2>2. NextRun(c, clock) > 0
      BY <2>1, Bounds DEF First
    <2>3. QED BY <2>1, <2>2 DEF First
  <1>2. QED BY <1>1, TypeCorrect, PTL

-----------------------------------------------------------------------------
(* Runs. *)

LEMMA TableStep ==
  TypeOK /\ TableInv /\ [Next]_vars => TableInv'
  <1> SUFFICES ASSUME TypeOK, TableInv, [Next]_vars,
                      NEW s \in Schedules, NEW n \in Sessions, run'[s][n] # "none"
               PROVE  table'[s] = n
    BY DEF TableInv
  <1>1. run[s][n] # "none" => table[s] = n
    BY DEF TableInv
  <1>2. CASE UNCHANGED runVars
    BY <1>1, <1>2 DEF runVars
  <1>3. CASE Tick
    <2>1. CASE Due(s)
      <3>1. table[s] = None
        BY <2>1 DEF Due
      <3>2. run[s][n] = "none"
        BY <1>1, <3>1, SchedulerAssumption DEF SchedulerAssumption
      <3>3. run'[s] = [run[s] EXCEPT ![NewSession(s)] = "launched"] /\ table'[s] = NewSession(s)
        BY <1>3, <2>1 DEF Tick, Launch
      <3>4. QED BY <3>2, <3>3 DEF TypeOK
    <2>2. CASE ~Due(s)
      <3>1. run'[s] = run[s] /\ table'[s] = table[s]
        BY <1>3, <2>2 DEF Tick, Launch
      <3>2. QED BY <1>1, <3>1
    <2>3. QED BY <2>1, <2>2
  <1>4. ASSUME NEW t \in Schedules, RunNow(t) PROVE table'[s] = n
    <2>1. CASE s = t
      <3>1. table[s] = None
        BY <1>4, <2>1 DEF RunNow
      <3>2. run[s][n] = "none"
        BY <1>1, <3>1, SchedulerAssumption DEF SchedulerAssumption
      <3>3. run'[s] = [run[s] EXCEPT ![NewSession(s)] = "launched"] /\ table'[s] = NewSession(s)
        BY <1>4, <2>1 DEF RunNow, Launch
      <3>4. QED BY <3>2, <3>3 DEF TypeOK
    <2>2. CASE s # t
      <3>1. run'[s] = run[s] /\ table'[s] = table[s]
        BY <1>4, <2>2 DEF RunNow, Launch
      <3>2. QED BY <1>1, <3>1
    <2>3. QED BY <2>1, <2>2
  <1>5. ASSUME NEW t \in Schedules, NEW m \in Sessions, Execute(t, m) \/ Finish(t, m)
        PROVE table'[s] = n
    <2>1. PICK after \in {"running", "over"} :
            /\ run[t][m] # "none"
            /\ run' = [run EXCEPT ![t][m] = after]
      BY <1>5 DEF Execute, Finish
    <2>2. run[s][n] # "none"
      BY <2>1 DEF TypeOK
    <2>3. QED BY <1>1, <1>5, <2>2 DEF Execute, Finish
  <1>6. ASSUME NEW t \in Schedules, NEW m \in Sessions, Forget(t, m) PROVE table'[s] = n
    <2>1. CASE s = t
      <3>1. table[s] = m
        BY <1>6, <2>1 DEF Forget, TableInv
      <3>2. run[s][n] # "none" /\ n # m
        BY <1>6, <2>1 DEF Forget, TypeOK
      <3>3. QED BY <1>1, <3>1, <3>2
    <2>2. CASE s # t
      BY <1>1, <1>6, <2>2 DEF Forget, TypeOK
    <2>3. QED BY <2>1, <2>2
  <1>7. CASE Restart
    BY <1>7 DEF Restart
  <1>8. Pass \/ (\E by \in {-1, 1} : SetClock(by)) => UNCHANGED runVars
    BY DEF Pass, SetClock
  <1>9. ASSUME NEW t \in Schedules,
               \/ \E c \in Cadences, enabled \in {"on", "off"} : Create(t, c, enabled)
               \/ Delete(t)
               \/ \E e \in Editors : PatchRead(e, t)
        PROVE  UNCHANGED runVars
    BY <1>9 DEF Create, Delete, PatchRead
  <1>10. (\E e \in Editors : PatchWrite(e)) \/ UNCHANGED vars => UNCHANGED runVars
    BY DEF PatchWrite, vars
  <1>11. QED BY <1>2, <1>3, <1>4, <1>5, <1>6, <1>7, <1>8, <1>9, <1>10 DEF Next

\* No two runs of a schedule are ever in flight together (NeverOverlap): _running
\* knows every task until its callback has run, and both ways to launch look there.
THEOREM OneRun == Spec => []NeverOverlap
  <1>1. Init => TypeOK /\ RowInv /\ TableInv
    BY TypedInit DEF Init, TableInv
  <1>2. TypeOK /\ RowInv /\ TableInv /\ [Next]_vars => TypeOK' /\ RowInv' /\ TableInv'
    BY TypedStep, TableStep
  <1>3. TableInv => NeverOverlap
    <2> SUFFICES ASSUME TableInv, NEW s \in Schedules, NEW m \in Sessions, NEW n \in Sessions,
                        Live(s, m), Live(s, n)
                 PROVE  m = n
      BY DEF NeverOverlap
    <2>1. table[s] = m /\ table[s] = n
      BY DEF TableInv, Live
    <2>2. QED BY <2>1
  <1>4. QED BY <1>1, <1>2, <1>3, PTL DEF Spec

-----------------------------------------------------------------------------
(* Fire times. *)

LEMMA DueStep ==
  ASSUME [Next]_vars, TypeOK, NEW s \in Schedules, row[s] = "on", due[s] = 0, due'[s] # 0
  PROVE  \/ \E n \in Sessions : run[s][n] = "running" /\ run'[s][n] = "over"
         \/ \E e \in Editors : patch[e] # None /\ patch'[e] = None
  <1>1. CASE Pass
    BY <1>1 DEF Pass
  <1>2. ASSUME NEW by \in {-1, 1}, SetClock(by) PROVE FALSE
    BY <1>2 DEF SetClock
  <1>3. CASE Tick
    BY <1>3 DEF Tick, rowVars
  <1>4. ASSUME NEW t \in Schedules, RunNow(t) PROVE FALSE
    BY <1>4 DEF RunNow, rowVars
  <1>5. ASSUME NEW t \in Schedules, NEW n \in Sessions, Execute(t, n) \/ Forget(t, n) PROVE FALSE
    BY <1>5 DEF Execute, Forget, rowVars
  <1>6. ASSUME NEW t \in Schedules, NEW n \in Sessions, Finish(t, n)
        PROVE  run[s][n] = "running" /\ run'[s][n] = "over"
    <2>1. t = s
      BY <1>6 DEF Finish, Plan, TypeOK
    <2>2. QED BY <1>6, <2>1 DEF Finish, TypeOK
  <1>7. ASSUME NEW t \in Schedules, NEW c \in Cadences, NEW enabled \in {"on", "off"},
               Create(t, c, enabled)
        PROVE  FALSE
    BY <1>7 DEF Create, Plan, TypeOK
  <1>8. ASSUME NEW t \in Schedules, Delete(t) \/ \E e \in Editors : PatchRead(e, t) PROVE FALSE
    BY <1>8 DEF Delete, PatchRead, rowVars
  <1>9. ASSUME NEW e \in Editors, PatchWrite(e) PROVE patch[e] # None /\ patch'[e] = None
    BY <1>9 DEF PatchWrite, TypeOK
  <1>10. CASE Restart
    BY <1>10 DEF Restart, rowVars
  <1>11. CASE UNCHANGED vars
    BY <1>11 DEF vars, rowVars
  <1>12. QED
    BY <1>1, <1>2, <1>3, <1>4, <1>5, <1>6, <1>7, <1>8, <1>9, <1>10, <1>11 DEF Next

\* A due schedule stays due until a run of it ends or a PATCH plans anew
\* (DueUntilRun): neither a launch nor a restart uses an occurrence up.
THEOREM NothingDueIsLost == Spec => DueUntilRun
  <1>1. TypeOK /\ [Next]_vars =>
          [\A s \in Schedules : row[s] = "on" /\ due[s] = 0 /\ due'[s] # 0 =>
             \/ \E n \in Sessions : run[s][n] = "running" /\ run'[s][n] = "over"
             \/ \E e \in Editors : patch[e] # None /\ patch'[e] = None]_vars
    BY DueStep
  <1>2. QED BY <1>1, TypeCorrect, PTL DEF Spec, DueUntilRun

\* The moment a fire time stands for, on the clock as it was when it was planned.
Aim(s) == (clock + due[s] - drift[s] + Week) % Week

\* A plan made now aims at a moment of its cadence.
LEMMA PlanAims ==
  ASSUME TypeOK, NEW s \in Schedules, NEW c \in Cadences, NEW old, Plan(s, c, old), clock' = clock
  PROVE  Falls(c, Aim(s)')
  <1> USE Bounds
  <1>1. due'[s] = NextRun(c, clock) /\ drift'[s] = 0
    BY DEF Plan, TypeOK
  <1> DEFINE x == clock + NextRun(c, clock)
  <1>2. x \in Int /\ clock \in Int /\ NextRun(c, clock) \in Int
    BY Planned DEF TypeOK, Clock
  <1>3. clock' + due'[s] - drift'[s] + Week = x + Week
    BY <1>1, <1>2
  <1>4. (x + Week) % Week = x % Week
    <2> HIDE DEF x
    <2>1. QED BY <1>2, OneTurn, Zenon
  <1>5. Aim(s)' = x % Week
    BY <1>3, <1>4 DEF Aim
  <1>6. QED BY <1>5, Planned DEF TypeOK

LEMMA AimKept ==
  ASSUME TypeOK, NEW s \in Schedules, due[s] > 0,
         (Pass /\ due'[s] > 0) \/ \E by \in {-1, 1} : SetClock(by)
  PROVE  Aim(s)' = Aim(s)
  <1>1. clock \in Int /\ due[s] \in Int /\ drift[s] \in Int /\ Week \in Int
    BY Bounds DEF TypeOK, Clock
  <1>2. CASE Pass /\ due'[s] > 0
    <2> DEFINE x == clock + 1
               y == due[s] - 1 - drift[s] + Week
    <2>1. clock' = x % Week /\ due'[s] = due[s] - 1 /\ drift'[s] = drift[s]
      BY <1>2 DEF Pass, TypeOK
    <2>2. x \in Int /\ y \in Int /\ x % Week \in Int
      BY <1>1, Bounds DEF Clock
    <2>3. clock' + due'[s] - drift'[s] + Week = (x % Week) + y
      BY <1>1, <2>1, <2>2
    <2>4. clock + due[s] - drift[s] + Week = x + y
      BY <1>1
    <2>5. ((x % Week) + y) % Week = (x + y) % Week
      <3> HIDE DEF x, y
      <3>1. QED BY <2>2, Wound, WeekSize
    <2>6. QED BY <2>3, <2>4, <2>5 DEF Aim
  <1>3. ASSUME NEW by \in {-1, 1}, SetClock(by) PROVE Aim(s)' = Aim(s)
    <2> DEFINE x == clock + Week + by
               y == due[s] - (drift[s] + by) + Week
               z == clock + due[s] - drift[s] + Week
    <2>1. clock' = x % Week /\ due'[s] = due[s] /\ drift'[s] = drift[s] + by
      BY <1>3 DEF SetClock
    <2>2. x \in Int /\ y \in Int /\ z \in Int /\ x % Week \in Int
      BY <1>1, Bounds DEF Clock
    <2>3. clock' + due'[s] - drift'[s] + Week = (x % Week) + y
      BY <1>1, <2>1, <2>2
    <2>4. x + y = z + Week
      BY <1>1
    <2> HIDE DEF x, y, z
    <2>5. ((x % Week) + y) % Week = (x + y) % Week
      BY <2>2, Wound, WeekSize
    <2>6. (z + Week) % Week = z % Week
      BY <2>2, OneTurn, WeekSize, Zenon
    <2>7. Aim(s)' = z % Week
      BY <2>3, <2>4, <2>5, <2>6 DEF Aim
    <2>8. QED BY <2>7 DEF Aim, z
  <1>4. QED BY <1>2, <1>3

LEMMA FitStep ==
  ASSUME TypeOK, RowInv, PlanFitsCadence, [Next]_vars
  PROVE  PlanFitsCadence'
  <1> SUFFICES ASSUME NEW s \in Schedules, Exists(s)', due'[s] > 0, ~stale'[s]
               PROVE  Falls(cadence'[s], Aim(s)')
    BY DEF PlanFitsCadence, Aim
  <1>1. Exists(s) /\ due[s] > 0 /\ ~stale[s] => Falls(cadence[s], Aim(s))
    BY DEF PlanFitsCadence, Aim
  <1>2. ASSUME UNCHANGED <<row, cadence, due, drift, stale, clock>> PROVE Falls(cadence'[s], Aim(s)')
    BY <1>1, <1>2 DEF Exists, Aim
  <1>3. CASE Pass
    <2>1. Exists(s) /\ due[s] > 0 /\ cadence' = cadence /\ stale' = stale
      BY <1>3 DEF Pass, TypeOK, Exists
    <2>2. QED BY <1>1, <1>3, <2>1, AimKept
  <1>4. ASSUME NEW by \in {-1, 1}, SetClock(by) PROVE Falls(cadence'[s], Aim(s)')
    <2>1. Exists(s) /\ due[s] > 0 /\ cadence' = cadence /\ stale' = stale
      BY <1>4 DEF SetClock, Exists
    <2>2. QED BY <1>1, <1>4, <2>1, AimKept
  <1>5. ASSUME NEW t \in Schedules, NEW n \in Sessions, Finish(t, n)
        PROVE  Falls(cadence'[s], Aim(s)')
    <2>1. CASE s = t
      <3>1. Exists(s) /\ Plan(s, cadence[s], FALSE) /\ cadence' = cadence /\ clock' = clock
        BY <1>5, <2>1 DEF Finish, Exists
      <3>2. cadence[s] \in Cadences
        BY <3>1 DEF RowInv, Exists
      <3>3. QED BY <3>1, <3>2, PlanAims
    <2>2. CASE s # t
      <3>1. due'[s] = due[s] /\ drift'[s] = drift[s] /\ stale'[s] = stale[s] /\ UNCHANGED <<row, cadence, clock>>
        BY <1>5, <2>2 DEF Finish, Plan, TypeOK
      <3>2. QED BY <1>1, <3>1 DEF Exists, Aim
    <2>3. QED BY <2>1, <2>2
  <1>6. ASSUME NEW t \in Schedules, NEW c \in Cadences, NEW enabled \in {"on", "off"},
               Create(t, c, enabled)
        PROVE  Falls(cadence'[s], Aim(s)')
    <2>1. CASE s = t
      <3>1. Plan(s, c, FALSE) /\ clock' = clock /\ cadence'[s] = c
        BY <1>6, <2>1 DEF Create, TypeOK
      <3>2. QED BY <3>1, PlanAims
    <2>2. CASE s # t
      <3>1. /\ due'[s] = due[s] /\ drift'[s] = drift[s] /\ clock' = clock
            /\ row'[s] = row[s] /\ cadence'[s] = cadence[s] /\ stale'[s] = stale[s]
        BY <1>6, <2>2 DEF Create, Plan, TypeOK
      <3>2. QED BY <1>1, <3>1 DEF Exists, Aim
    <2>3. QED BY <2>1, <2>2
  <1>7. ASSUME NEW t \in Schedules, Delete(t) PROVE Falls(cadence'[s], Aim(s)')
    <2>1. Exists(s) /\ UNCHANGED <<cadence, due, drift, stale, clock>>
      BY <1>7 DEF Delete, Exists, TypeOK
    <2>2. QED BY <1>1, <2>1 DEF Aim
  <1>8. ASSUME NEW e \in Editors, PatchWrite(e) PROVE Falls(cadence'[s], Aim(s)')
    <2> DEFINE t == patch[e].of
               seen == patch[e].seen
    <2>1. t \in Schedules /\ clock' = clock
      BY <1>8 DEF PatchWrite, TypeOK
    <2>2. ASSUME Exists(t), NEW c \in Cadences \cup {None}, NEW enabled \in {"on", "off", None},
                 Amend(t, seen, c, enabled)
          PROVE  Falls(cadence'[s], Aim(s)')
      <3> HIDE DEF t, seen
      <3>1. cadence[t] \in Cadences
        BY <2>1, <2>2 DEF RowInv, Exists
      <3>2. CASE s # t
        <4>1. /\ due'[s] = due[s] /\ drift'[s] = drift[s] /\ clock' = clock
              /\ row'[s] = row[s] /\ cadence'[s] = cadence[s] /\ stale'[s] = stale[s]
          BY <2>1, <2>2, <3>2 DEF Amend, Plan, TypeOK
        <4>2. QED BY <1>1, <4>1 DEF Exists, Aim
      <3>3. CASE s = t /\ c # None
        <4>1. Plan(s, c, FALSE) /\ cadence'[s] = c /\ c \in Cadences
          BY <2>2, <3>3 DEF Amend, TypeOK
        <4>2. QED BY <2>1, <4>1, PlanAims
      <3>4. CASE s = t /\ c = None /\ enabled = "on"
        <4>1. Plan(s, seen, seen # cadence[s]) /\ cadence'[s] = cadence[s]
          BY <2>1, <2>2, <3>4 DEF Amend
        <4>2. seen = cadence[s]
          BY <4>1 DEF Plan, TypeOK
        <4>3. QED BY <2>1, <3>1, <3>4, <4>1, <4>2, PlanAims
      <3>5. CASE s = t /\ c = None /\ enabled # "on"
        <4>1. UNCHANGED <<cadence, due, drift, stale, clock>>
          BY <2>1, <2>2, <3>5 DEF Amend
        <4>2. QED BY <1>1, <2>2, <3>5, <4>1 DEF Aim
      <3>6. QED BY <3>2, <3>3, <3>4, <3>5
    <2>3. CASE UNCHANGED rowVars
      BY <1>2, <2>1, <2>3 DEF rowVars
    <2>4. QED BY <1>8, <2>2, <2>3 DEF PatchWrite
  <1>9. \/ Tick \/ Restart \/ UNCHANGED vars
        \/ \E t \in Schedules : RunNow(t) \/ \E e \in Editors : PatchRead(e, t)
        \/ \E t \in Schedules, n \in Sessions : Execute(t, n) \/ Forget(t, n)
        => UNCHANGED <<row, cadence, due, drift, stale, clock>>
    BY DEF Tick, Restart, vars, RunNow, PatchRead, Execute, Forget, rowVars
  <1>10. QED BY <1>2, <1>3, <1>4, <1>5, <1>6, <1>7, <1>8, <1>9 DEF Next

\* Every stored fire time is one of the row's present cadence (PlanFitsCadence), for
\* any weeks, cadences and number of PATCH requests in flight together, until one of
\* them plans by a cadence that another replaced; the next plan ends that again.
THEOREM PlansFit == Spec => []PlanFitsCadence
  <1> DEFINE I == TypeOK /\ RowInv /\ PlanFitsCadence
  <1>1. Init => I
    BY TypedInit DEF Init, PlanFitsCadence
  <1>2. I /\ [Next]_vars => I'
    BY TypedStep, FitStep
  <1>3. I => PlanFitsCadence
    OBVIOUS
  <1>4. QED BY <1>1, <1>2, <1>3, PTL DEF Spec

=============================================================================
