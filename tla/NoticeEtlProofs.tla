--------------------------- MODULE NoticeEtlProofs ---------------------------
(***************************************************************************)
(* Theorems about NoticeEtl, for every set of notices and users, every     *)
(* batch size and every bound of the clock, the kills and the publishes.   *)
(***************************************************************************)
EXTENDS NoticeEtl, FiniteSetTheorems, TLAPS

\* The queue stays a queue of notices when the process gives one back.
LEMMA RequeueType ==
    ASSUME queue \in Seq(Notices), cur \in Notices \cup {NoNotice}
    PROVE  Requeue \in Seq(Notices)
BY DEF Requeue

\* Setting a mark keeps the types of the two tables of marks.
LEMMA SetMarkType ==
    ASSUME TypeOK, NEW n, NEW s, NEW m \in Mark, NEW t \in Int, SetMark(n, s, m, t)
    PROVE  /\ mark' \in [Keys -> Mark \cup {NoMark}]
           /\ until' \in [Keys -> Int]
<1>1. now + Second * MarkLife(t) \in Int
  BY ConstantsAssumption DEF MarkLife, TypeOK
<1> QED
  BY <1>1 DEF SetMark, TypeOK

\* What a computed ttl is worth: it is not negative until the notice is overdue,
\* and less than a second is missing to the expiry.
LEMMA TtlBounds ==
    ASSUME TypeOK, NEW n \in Notices
    PROVE  /\ TtlFromDatetime(n) \in Int
           /\ Reaches(n, TtlFromDatetime(n))
           /\ TtlFromDatetime(n) >= 0 <=> ~Overdue(n)
<1>1. ExpireAt[n] \in Nat /\ now \in Nat /\ Second \in Nat \ {0}
  BY ConstantsAssumption DEF TypeOK
<1>2. ASSUME NEW a \in Nat
      PROVE  /\ a \div Second \in Nat
             /\ Second * (a \div Second) <= a /\ a < Second * (a \div Second) + Second
             /\ a \div Second = 0 <=> a < Second
  BY <1>1, <1>2
<1>3. CASE now <= ExpireAt[n]
  <2> DEFINE q == (ExpireAt[n] - now) \div Second
  <2>1. q \in Nat /\ ExpireAt[n] - now < Second * q + Second /\ Second * q \in Nat
    BY <1>1, <1>2, <1>3
  <2>2. TtlFromDatetime(n) = q
    BY <1>3 DEF TtlFromDatetime
  <2> HIDE DEF q
  <2> QED
    BY <1>1, <1>3, <2>1, <2>2 DEF Reaches, Overdue
<1>4. CASE ~(now <= ExpireAt[n])
  <2> DEFINE q == (now - ExpireAt[n]) \div Second
  <2>1. /\ q \in Nat /\ Second * q \in Nat /\ Second * q <= now - ExpireAt[n]
        /\ q = 0 <=> now - ExpireAt[n] < Second
    BY <1>1, <1>2, <1>4
  <2>2. TtlFromDatetime(n) = -q
    BY <1>4 DEF TtlFromDatetime
  <2> HIDE DEF q
  <2>3. Second * (-q) = -(Second * q)
    BY <1>1, <2>1
  <2> QED
    BY <1>1, <1>4, <2>1, <2>2, <2>3 DEF Reaches, Overdue
<1> QED
  BY <1>3, <1>4

\* A lifetime that Redis refuses belongs to a ttl below zero.
LEMMA RefusedIsNegative ==
    ASSUME NEW t \in Int, ~CanMark(t)
    PROVE  t < 0
BY ConstantsAssumption DEF CanMark, MarkLife

\* What is left of the local state after the end of the process.
LEMMA ForgetType ==
    ASSUME Forget
    PROVE  /\ isRun' \in BOOLEAN /\ loaderOpen' \in BOOLEAN
           /\ ttl' \in Int /\ loadTtl' \in Int
           /\ todo' = {} /\ infos' = {} /\ msgUser' = NoUser
<1>1. isRun' \in BOOLEAN /\ loaderOpen' \in BOOLEAN
  BY DEF Forget
<1>2. ttl' \in Int /\ loadTtl' \in Int
  BY DEF Forget
<1> QED
  BY <1>1, <1>2 DEF Forget

\* The invariant holds before the first start.
LEMMA InitRound == Init => RoundInv
<1> SUFFICES ASSUME Init PROVE RoundInv
  OBVIOUS
<1> USE ConstantsAssumption DEF Init
<1>1. TypeOK
  <2>1. mark \in [Keys -> Mark \cup {NoMark}] /\ until \in [Keys -> Int]
    OBVIOUS
  <2>2. sent \in [Pairs -> Nat] /\ published \in [Notices -> Nat]
    OBVIOUS
  <2>3. queue \in Seq(Notices)
    OBVIOUS
  <2>4. isRun \in BOOLEAN /\ loaderOpen \in BOOLEAN
    OBVIOUS
  <2>5. ttl \in Int /\ loadTtl \in Int /\ now \in Nat /\ crashes \in Nat
    OBVIOUS
  <2>6. /\ pc \in PC
        /\ cur \in Notices \cup {NoNotice}
        /\ cur \in Notices => todo \subseteq Positions(cur)
        /\ infos \subseteq Users
        /\ msgUser \in Users \cup {NoUser}
    BY DEF PC
  <2>7. /\ declared \subseteq Consumed
        /\ acked \subseteq Notices
        /\ late \subseteq Notices
        /\ missed \subseteq Pairs
    OBVIOUS
  <2> HIDE DEF Init
  <2> QED
    BY <2>1, <2>2, <2>3, <2>4, <2>5, <2>6, <2>7 DEF TypeOK
<1>2. ProcessShape
  BY DEF ProcessShape, Busy
<1>3. MarksOutliveNotices
  BY DEF MarksOutliveNotices, Keys, Slots
<1>4. TtlsInHand /\ MarksAreVerdicts
  BY DEF TtlsInHand, MarksAreVerdicts, Busy, Keys, Slots
<1>5. UnmarkedUnsent
  BY DEF UnmarkedUnsent, Pairs
<1>6. PendingUnmarked
  BY DEF PendingUnmarked, Busy
<1>7. RoundCovers
  BY DEF RoundCovers, Busy
<1>8. DuplicatesNeedCrash
  BY DEF DuplicatesNeedCrash, Pairs
<1>9. Accounted
  BY DEF Accounted
<1> QED
  BY <1>1, <1>2, <1>3, <1>4, <1>5, <1>6, <1>7, <1>8, <1>9 DEF RoundInv

\* The types and the shape of the process are preserved by every step.
LEMMA TypeStep ==
    ASSUME TypeOK, ProcessShape, Next
    PROVE  TypeOK' /\ ProcessShape'
<1> USE ConstantsAssumption DEF TypeOK, ProcessShape, Busy, PC, broker, redis,
        process, environment, history
<1>1. CASE Run
  BY <1>1 DEF Run
<1>2. CASE GetData
  BY <1>2 DEF GetData
<1>3. CASE GetMalformed
  BY <1>3, RequeueType, ForgetType DEF GetMalformed, Die
<1>4. CASE BeginExpired
  BY <1>4 DEF BeginExpired
<1>5. CASE BeginFirst
  <2>1. mark' \in [Keys -> Mark \cup {NoMark}] /\ until' \in [Keys -> Int]
    BY <1>5, SetMarkType DEF BeginFirst, Mark
  <2> QED
    BY <1>5, <2>1 DEF BeginFirst
<1>6. CASE BeginRepeat
  BY <1>6 DEF BeginRepeat, Unprocessed
<1>7. CASE FetchBatch
  BY <1>7 DEF FetchBatch, UsersAt
<1>8. CASE FetchFails
  BY <1>8 DEF FetchFails, UsersAt, Pairs, Positions
<1>9. ASSUME NEW u \in Users, RejectUser(u) PROVE TypeOK' /\ ProcessShape'
  BY <1>9, SetMarkType DEF RejectUser, Mark
<1>10. ASSUME NEW u \in Users, RejectNoData(u) PROVE TypeOK' /\ ProcessShape'
  BY <1>10, SetMarkType DEF RejectNoData, Mark
<1>11. CASE SendMessage
  BY <1>11 DEF SendMessage, Pairs
<1>12. CASE SendOnClosed
  BY <1>12, RequeueType, ForgetType DEF SendOnClosed, Die
<1>13. CASE MarkQueued
  <2>1. mark' \in [Keys -> Mark \cup {NoMark}] /\ until' \in [Keys -> Int]
    <3>1. SetMark(cur, msgUser, "QUEUED", loadTtl)
      BY <1>13 DEF MarkQueued
    <3>2. "QUEUED" \in Mark
      BY DEF Mark
    <3> QED
      BY <3>1, <3>2, SetMarkType
  <2> QED
    BY <1>13, <2>1 DEF MarkQueued
<1>14. CASE MarkFails
  BY <1>14, RequeueType, ForgetType DEF MarkFails, Die
<1>15. CASE MarkDone
  BY <1>15 DEF MarkDone, LoadDone
<1>16. CASE Exit
  BY <1>16, ForgetType DEF Exit
<1>17. CASE Start
  BY <1>17 DEF Start
<1>18. CASE Stop
  BY <1>18 DEF Stop
<1>19. ASSUME NEW n \in Notices, Publish(n) PROVE TypeOK' /\ ProcessShape'
  BY <1>19 DEF Publish
<1>20. ASSUME NEW t \in Consumed, Declare(t) PROVE TypeOK' /\ ProcessShape'
  BY <1>20 DEF Declare
<1>21. CASE Tick
  BY <1>21 DEF Tick
<1>22. CASE Crash
  BY <1>22, RequeueType, ForgetType DEF Crash, Die
<1>23. CASE BeginFresh
  BY <1>23 DEF BeginFresh
<1>24. CASE ComputeTtl
  <2>1. TtlFromDatetime(cur) \in Int
    BY <1>24, TtlBounds DEF ComputeTtl
  <2> QED
    BY <1>24, <2>1 DEF ComputeTtl
<1>25. ASSUME NEW u \in Users, YieldMessage(u) PROVE TypeOK' /\ ProcessShape'
  <2>1. TtlFromDatetime(cur) \in Int
    BY <1>25, TtlBounds DEF YieldMessage
  <2> QED
    BY <1>25, <2>1 DEF YieldMessage
<1> QED
  BY <1>1, <1>2, <1>3, <1>4, <1>5, <1>6, <1>7, <1>8, <1>9, <1>10, <1>11,
     <1>12, <1>13, <1>14, <1>15, <1>16, <1>17, <1>18, <1>19, <1>20, <1>21,
     <1>22, <1>23, <1>24, <1>25 DEF Next, EtlStep

\* A mark set with the ttl of its notice outlives the notice.
LEMMA SetMarkOutlives ==
    ASSUME TypeOK, MarksOutliveNotices,
           NEW n \in Notices, NEW s \in Slots, NEW m \in Mark, NEW t \in Int,
           SetMark(n, s, m, t),
           Reaches(n, t),
           s = NoticeSlot \/ mark[<<n, NoticeSlot>>] # NoMark
    PROVE  MarksOutliveNotices' /\ mark'[<<n, NoticeSlot>>] # NoMark
<1> USE ConstantsAssumption
<1>1. PICK life \in Int :
        /\ mark' = [mark EXCEPT ![<<n, s>>] = m]
        /\ until' = [until EXCEPT ![<<n, s>>] = life]
        /\ m # NoMark
        /\ life > ExpireAt[n] + Second
  <2>1. /\ ExpireAt[n] \in Nat /\ now \in Nat /\ Second \in Nat \ {0}
        /\ MarkMargin \in Nat /\ MarkMargin >= 2
    BY DEF TypeOK
  <2>2. Second * (t + MarkMargin) >= Second * t + 2 * Second /\ Second * t \in Int
        /\ Second * (t + MarkMargin) \in Int
    BY <2>1
  <2>3. PICK x \in Int, y \in Int :
            x = Second * t /\ y = Second * (t + MarkMargin) /\ y >= x + 2 * Second
    BY <2>2
  <2>4. now + x > ExpireAt[n] - Second
    BY <2>3 DEF Reaches
  <2>5. now + y > ExpireAt[n] + Second /\ now + y \in Int
    <3>1. y >= x + Second + Second /\ x \in Int /\ y \in Int
      BY <2>1, <2>3
    <3> HIDE <2>1
    <3>2. now \in Int /\ Second \in Int /\ ExpireAt[n] \in Int
      BY <2>1
    <3>3. \A a, b, c, d, e \in Int : d >= c + e + e /\ a + c > b - e => a + d > b + e /\ a + d \in Int
      OBVIOUS
    <3> QED
      BY ONLY <2>4, <3>1, <3>2, <3>3
  <2>6. until' = [until EXCEPT ![<<n, s>>] = now + y]
    BY <2>3 DEF SetMark, MarkLife
  <2> QED
    BY <2>5, <2>6 DEF SetMark, Mark, NoMark
<1>2. NoticeSlot \in Slots
  BY DEF Slots
<1>3. ASSUME NEW k \in Notices, NEW r \in Slots, mark'[<<k, r>>] # NoMark
      PROVE  /\ until'[<<k, r>>] > ExpireAt[k] + Second
             /\ mark'[<<k, NoticeSlot>>] # NoMark
  <2>1. CASE k = n /\ r = s
    BY <1>1, <1>2, <2>1 DEF TypeOK, Keys
  <2>2. CASE ~(k = n /\ r = s)
    <3>1. mark'[<<k, r>>] = mark[<<k, r>>] /\ until'[<<k, r>>] = until[<<k, r>>]
      BY <1>1, <2>2 DEF TypeOK, Keys
    <3>2. mark[<<k, NoticeSlot>>] # NoMark
      BY <1>3, <3>1 DEF MarksOutliveNotices
    <3>3. mark'[<<k, NoticeSlot>>] # NoMark
      BY <1>1, <1>2, <3>2 DEF TypeOK, Keys
    <3> QED
      BY <1>3, <3>1, <3>3 DEF MarksOutliveNotices
  <2> QED
    BY <2>1, <2>2
<1>4. mark'[<<n, NoticeSlot>>] # NoMark
  BY <1>1, <1>2 DEF TypeOK, Keys
<1> QED
  BY <1>3, <1>4 DEF MarksOutliveNotices

\* Every step keeps the marks alive long enough, and the ttls in hand.
LEMMA OutliveStep ==
    ASSUME TypeOK, ProcessShape, MarksOutliveNotices, TtlsInHand, Next
    PROVE  MarksOutliveNotices' /\ TtlsInHand'
<1> DEFINE Goal == MarksOutliveNotices' /\ TtlsInHand'
<1> USE ConstantsAssumption DEF broker, redis, process, environment, history
<1> NoticeSlot \in Slots
  BY DEF Slots
<1>a. ExpireAt \in [Notices -> Nat] /\ now \in Nat /\ ttl \in Int /\ loadTtl \in Int
  BY DEF TypeOK
<1>b. pc \in {"begin", "fresh", "dated", "work", "send", "mark"} => cur \in Notices
  BY DEF ProcessShape, TypeOK
<1>c. ASSUME pc' \notin {"dated", "work", "send", "mark"}, UNCHANGED <<mark, until>> PROVE Goal
  BY <1>c DEF MarksOutliveNotices, TtlsInHand, Busy
<1>d. ASSUME UNCHANGED <<mark, until, pc, cur, ttl, loadTtl, infos, todo>>,
             now' \in {now, now + 1}
      PROVE  Goal
  <2>1. MarksOutliveNotices'
    BY <1>d DEF MarksOutliveNotices
  <2>2. ASSUME NEW n \in Notices, NEW t \in Int, Reaches(n, t) PROVE Reaches(n, t)'
    <3>1. Second * t \in Int /\ ExpireAt[n] \in Nat
      BY <1>a
    <3> QED
      BY <1>a, <1>d, <2>2, <3>1 DEF Reaches
  <2>3. TtlsInHand'
    BY <1>a, <1>b, <1>d, <2>2 DEF TtlsInHand, Busy
  <2> QED
    BY <2>1, <2>3
<1>1. CASE Run
  BY <1>1, <1>c DEF Run
<1>2. CASE GetData
  BY <1>2, <1>c DEF GetData
<1>3. CASE GetMalformed
  BY <1>3, <1>c DEF GetMalformed, Die
<1>4. CASE BeginExpired
  BY <1>4 DEF BeginExpired, MarksOutliveNotices, TtlsInHand, ProcessShape, Busy
<1>5. CASE BeginFirst
  <2>1. cur \in Notices /\ Reaches(cur, ttl)
    BY <1>5, <1>b DEF BeginFirst, TtlsInHand
  <2>2. SetMark(cur, NoticeSlot, "QUEUED", ttl) /\ "QUEUED" \in Mark
    BY <1>5 DEF BeginFirst, Mark
  <2>3. MarksOutliveNotices' /\ mark'[<<cur, NoticeSlot>>] # NoMark
    BY <1>a, <2>1, <2>2, SetMarkOutlives
  <2>4. Reaches(cur, ttl)' /\ cur' = cur /\ pc' = "work"
    BY <1>5, <2>1 DEF BeginFirst, Reaches
  <2> QED
    BY <2>3, <2>4 DEF TtlsInHand
<1>6. CASE BeginRepeat
  BY <1>6 DEF BeginRepeat, IsProcessed, TtlsInHand, MarksOutliveNotices, Reaches
<1>7. CASE FetchBatch \/ FetchFails
  BY <1>7 DEF FetchBatch, FetchFails, TtlsInHand, MarksOutliveNotices, Busy, Reaches
<1>8. ASSUME NEW u \in Users, RejectUser(u) \/ RejectNoData(u) PROVE Goal
  <2>1. PICK m \in Mark : SetMark(cur, u, m, ttl)
    BY <1>8 DEF RejectUser, RejectNoData, Mark
  <2>2. /\ Reaches(cur, ttl)
        /\ mark[<<cur, NoticeSlot>>] # NoMark
        /\ cur \in Notices
        /\ u \in Slots
    BY <1>8, <1>b DEF RejectUser, RejectNoData, TtlsInHand, Busy, Slots
  <2>3. MarksOutliveNotices' /\ mark'[<<cur, NoticeSlot>>] # NoMark
    BY <2>1, <2>2, <1>a, SetMarkOutlives
  <2> QED
    BY <1>8, <2>2, <2>3 DEF RejectUser, RejectNoData, TtlsInHand, Reaches
<1>9. CASE SendMessage
  BY <1>9 DEF SendMessage, TtlsInHand, MarksOutliveNotices, Busy, Reaches
<1>10. CASE SendOnClosed
  BY <1>10, <1>c DEF SendOnClosed, Die
<1>11. CASE MarkQueued
  <2>1. SetMark(cur, msgUser, "QUEUED", loadTtl) /\ "QUEUED" \in Mark
    BY <1>11 DEF MarkQueued, Mark
  <2>2. /\ Reaches(cur, loadTtl)
        /\ Reaches(cur, ttl)
        /\ mark[<<cur, NoticeSlot>>] # NoMark
        /\ cur \in Notices
        /\ msgUser \in Slots
    BY <1>11, <1>b DEF MarkQueued, TtlsInHand, Busy, Slots, TypeOK, ProcessShape
  <2>3. MarksOutliveNotices' /\ mark'[<<cur, NoticeSlot>>] # NoMark
    BY <2>1, <2>2, <1>a, SetMarkOutlives
  <2> QED
    BY <1>11, <2>2, <2>3 DEF MarkQueued, TtlsInHand, Reaches
<1>12. CASE MarkFails
  BY <1>12, <1>c DEF MarkFails, Die
<1>13. CASE MarkDone
  BY <1>13, <1>c DEF MarkDone
<1>14. CASE Exit
  BY <1>14, <1>c DEF Exit
<1>15. CASE Start
  BY <1>15, <1>c DEF Start
<1>16. CASE Stop
  BY <1>16, <1>d DEF Stop
<1>17. ASSUME NEW n \in Notices, Publish(n) PROVE Goal
  BY <1>17, <1>d DEF Publish
<1>18. ASSUME NEW t \in Consumed, Declare(t) PROVE Goal
  BY <1>18, <1>d DEF Declare
<1>19. CASE Tick
  BY <1>19, <1>d DEF Tick
<1>20. CASE Crash
  BY <1>20, <1>c DEF Crash, Die
<1>21. CASE BeginFresh
  BY <1>21, <1>c DEF BeginFresh
<1>22. CASE ComputeTtl
  <2>1. Reaches(cur, ttl')
    BY <1>22, <1>b, TtlBounds DEF ComputeTtl
  <2> QED
    BY <1>22, <2>1 DEF ComputeTtl, TtlsInHand, MarksOutliveNotices, Busy, Reaches
<1>23. ASSUME NEW u \in Users, YieldMessage(u) PROVE Goal
  <2>1. Reaches(cur, loadTtl')
    BY <1>23, <1>b, TtlBounds DEF YieldMessage
  <2> QED
    BY <1>23, <2>1 DEF YieldMessage, TtlsInHand, MarksOutliveNotices, Busy, Reaches
<1> QED
  BY <1>1, <1>2, <1>3, <1>4, <1>5, <1>6, <1>7, <1>8, <1>9, <1>10, <1>11,
     <1>12, <1>13, <1>14, <1>15, <1>16, <1>17, <1>18, <1>19, <1>20, <1>21, <1>22, <1>23
     DEF Next, EtlStep

\* A recipient is a user, and a user is not the pseudo user of a notice.
LEMMA RecipientsAreUsers ==
    ASSUME NEW n \in Notices, NEW i \in Positions(n)
    PROVE  Recipients[n][i] \in Users
BY ConstantsAssumption DEF Positions

\* A recipient is decided about in one way only.
LEMMA VerdictStep ==
    ASSUME TypeOK, ProcessShape, MarksAreVerdicts, Next
    PROVE  MarksAreVerdicts'
<1> USE ConstantsAssumption DEF broker, redis, process, environment, history
<1>a. ASSUME UNCHANGED mark, pc' \notin {"send", "mark"} PROVE MarksAreVerdicts'
  BY <1>a DEF MarksAreVerdicts, Verdict, HasMsgMeta
<1>b. ASSUME UNCHANGED <<mark, pc, cur, msgUser>> PROVE MarksAreVerdicts'
  BY <1>b DEF MarksAreVerdicts, Verdict, HasMsgMeta
<1>c. ASSUME NEW s \in Slots, NEW m, NEW t, SetMark(cur, s, m, t), cur \in Notices,
             s \in Users => m = Verdict(cur, s), pc' \notin {"send", "mark"}
      PROVE  MarksAreVerdicts'
  <2>1. mark' = [mark EXCEPT ![<<cur, s>>] = m]
    BY <1>c DEF SetMark
  <2>2. ASSUME NEW n \in Notices, NEW u \in Users
        PROVE  mark'[<<n, u>>] \in {NoMark, Verdict(n, u)}
    <3>1. <<n, u>> \in Keys /\ <<cur, s>> \in Keys
      BY <1>c DEF Keys, Slots
    <3>2. CASE n = cur /\ u = s
      BY <1>c, <2>1, <3>1, <3>2 DEF TypeOK
    <3>3. CASE ~(n = cur /\ u = s)
      <4>1. mark'[<<n, u>>] = mark[<<n, u>>]
        BY <2>1, <3>1, <3>3 DEF TypeOK
      <4> QED
        BY <4>1 DEF MarksAreVerdicts
    <3> QED
      BY <3>2, <3>3
  <2> QED
    BY <1>c, <2>2 DEF MarksAreVerdicts, Verdict, HasMsgMeta
<1>d. pc \in {"dated", "work", "send", "mark"} => cur \in Notices
  BY DEF ProcessShape, TypeOK
<1>1. CASE BeginFirst
  BY <1>1, <1>c, <1>d DEF BeginFirst, Slots
<1>2. ASSUME NEW u \in Users, RejectUser(u) PROVE MarksAreVerdicts'
  BY <1>2, <1>c, <1>d DEF RejectUser, Slots, Verdict
<1>3. ASSUME NEW u \in Users, RejectNoData(u) PROVE MarksAreVerdicts'
  BY <1>3, <1>c, <1>d DEF RejectNoData, Slots, Verdict
<1>4. ASSUME NEW u \in Users, YieldMessage(u) PROVE MarksAreVerdicts'
  BY <1>4 DEF YieldMessage, MarksAreVerdicts, Verdict, HasMsgMeta
<1>5. CASE SendMessage
  BY <1>5 DEF SendMessage, MarksAreVerdicts, Verdict, HasMsgMeta
<1>6. CASE MarkQueued
  <2>1. SetMark(cur, msgUser, "QUEUED", loadTtl) /\ pc = "mark" /\ pc' = "work"
    BY <1>6 DEF MarkQueued
  <2>2. msgUser \in Slots /\ Verdict(cur, msgUser) = "QUEUED"
    BY <2>1 DEF ProcessShape, TypeOK, Slots, MarksAreVerdicts
  <2> QED
    BY <1>c, <1>d, <2>1, <2>2
<1> QED
  BY <1>a, <1>b, <1>1, <1>2, <1>3, <1>4, <1>5, <1>6
     DEF Next, EtlStep, Run, GetData, GetMalformed, BeginExpired, BeginFresh, ComputeTtl,
         BeginRepeat, FetchBatch, FetchFails, SendOnClosed, MarkFails, MarkDone, Exit,
         Start, Stop, Publish, Declare, Tick, Crash, Die

\* Until a notice is overdue none of its marks expires, so that a key that
\* is_processed does not find was never set.
LEMMA UnprocessedIsUnmarked ==
    ASSUME TypeOK, MarksOutliveNotices,
           NEW n \in Notices, NEW s \in Slots,
           ~Overdue(n), ~IsProcessed(n, s)
    PROVE  mark[<<n, s>>] = NoMark
<1> SUFFICES ASSUME mark[<<n, s>>] # NoMark PROVE FALSE
  OBVIOUS
<1>1. until[<<n, s>>] <= now
  BY DEF IsProcessed, TypeOK, Keys
<1>2. until[<<n, s>>] > ExpireAt[n] + Second
  BY DEF MarksOutliveNotices
<1>3. /\ ExpireAt[n] \in Nat
      /\ Second \in Nat \ {0}
      /\ now \in Nat
      /\ until[<<n, s>>] \in Int
  BY ConstantsAssumption DEF TypeOK, Keys
<1> QED
  BY <1>1, <1>2, <1>3 DEF Overdue

\* The recipients of a new round have no mark, or nothing is sent to them.
LEMMA NewRoundUnmarked ==
    ASSUME TypeOK, ProcessShape, MarksOutliveNotices, BeginFirst \/ BeginRepeat
    PROVE  \A v \in Pending' :
               (mark'[<<cur, v>>] = NoMark \/ Overdue(cur)) /\ v \in Users
<1>1. cur \in Notices /\ cur' = cur /\ infos' = {}
  BY ConstantsAssumption DEF BeginFirst, BeginRepeat, ProcessShape, Busy, TypeOK
<1>2. Users \subseteq Slots /\ NoticeSlot \in Slots
  BY DEF Slots
<1> SUFFICES ASSUME NEW i \in todo'
             PROVE  /\ mark'[<<cur, Recipients[cur][i]>>] = NoMark \/ Overdue(cur)
                    /\ Recipients[cur][i] \in Users
  BY <1>1 DEF Pending, UsersAt
<1>3. i \in Positions(cur)
  BY DEF BeginFirst, BeginRepeat, Unprocessed
<1>4. Recipients[cur][i] \in Users
  BY <1>1, <1>3, RecipientsAreUsers
<1> SUFFICES ASSUME ~Overdue(cur) PROVE mark'[<<cur, Recipients[cur][i]>>] = NoMark
  BY <1>4
<1>5. CASE BeginFirst
  <2>1. mark[<<cur, NoticeSlot>>] = NoMark
    BY <1>1, <1>2, <1>5, UnprocessedIsUnmarked DEF BeginFirst
  <2>2. mark[<<cur, Recipients[cur][i]>>] = NoMark
    BY <1>1, <1>2, <1>4, <2>1 DEF MarksOutliveNotices
  <2>3. mark' = [mark EXCEPT ![<<cur, NoticeSlot>>] = "QUEUED"]
    BY <1>5 DEF BeginFirst, SetMark
  <2>4. NoticeSlot # Recipients[cur][i]
    BY <1>4, ConstantsAssumption
  <2> QED
    BY <1>1, <1>2, <1>4, <2>2, <2>3, <2>4 DEF TypeOK, Keys
<1>6. CASE BeginRepeat
  <2>1. ~IsProcessed(cur, Recipients[cur][i])
    BY <1>6 DEF BeginRepeat, Unprocessed
  <2>2. mark' = mark
    BY <1>6 DEF BeginRepeat, redis
  <2> QED
    BY <1>1, <1>2, <1>4, <2>1, <2>2, UnprocessedIsUnmarked
<1> QED
  BY <1>5, <1>6

\* Nobody without a mark has a message, except by a kill or in hand.
LEMMA UnsentStep ==
    ASSUME TypeOK, ProcessShape, MarksOutliveNotices, UnmarkedUnsent,
           PendingUnmarked, DuplicatesNeedCrash, Next
    PROVE  UnmarkedUnsent' /\ PendingUnmarked' /\ DuplicatesNeedCrash'
<1> DEFINE Goal == UnmarkedUnsent' /\ PendingUnmarked' /\ DuplicatesNeedCrash'
<1> USE ConstantsAssumption DEF broker, redis, process, environment, history
<1>a. /\ sent \in [Pairs -> Nat]
      /\ mark \in [Keys -> Mark \cup {NoMark}]
      /\ crashes \in Nat /\ loadTtl \in Int /\ infos \subseteq Users
  BY DEF TypeOK
<1>b. /\ pc \in {"begin", "fresh", "dated", "work", "send", "mark"} => cur \in Notices
      /\ pc \notin {"send", "mark"} => msgUser = NoUser
      /\ pc \in {"send", "mark"} => msgUser \in Users
  BY DEF ProcessShape, TypeOK
<1>c. ASSUME UNCHANGED <<mark, sent>>, crashes' = crashes,
             pc # "mark", pc' # "mark"
      PROVE  UnmarkedUnsent' /\ DuplicatesNeedCrash'
  BY <1>c DEF UnmarkedUnsent, DuplicatesNeedCrash, InHand, Distinct, Positions
<1>d. ASSUME pc' \notin {"work", "send", "mark"} PROVE PendingUnmarked'
  BY <1>d DEF PendingUnmarked, Busy
<1>e. ASSUME UNCHANGED <<mark, sent, crashes, pc, cur, loadTtl, infos, todo, msgUser>>,
             now' \in {now, now + 1}
      PROVE  Goal
  <2>1. \A n \in Notices : Overdue(n) => Overdue(n)'
    BY <1>e DEF Overdue, TypeOK
  <2>2. PendingUnmarked'
    BY <1>b, <1>e, <2>1 DEF PendingUnmarked, Distinct, Positions, Busy, Pending, UsersAt
  <2> QED
    BY <1>e, <2>2 DEF UnmarkedUnsent, DuplicatesNeedCrash, InHand, Distinct, Positions
<1>f. pc \in {"work", "send", "mark"} => UsersAt(todo) \subseteq Users
  BY <1>b, RecipientsAreUsers DEF UsersAt, TypeOK
<1>1. CASE Run
  BY <1>1, <1>b, <1>c, <1>d DEF Run
<1>2. CASE GetData
  BY <1>2, <1>b, <1>c, <1>d DEF GetData
<1>3. CASE GetMalformed
  BY <1>3, <1>b, <1>c, <1>d DEF GetMalformed, Die, Forget
<1>4. CASE BeginExpired
  <2>1. UnmarkedUnsent' /\ DuplicatesNeedCrash'
    BY <1>4, <1>b, <1>c DEF BeginExpired
  <2>2. infos' = {} /\ todo' = {} /\ pc' = "work"
    BY <1>4 DEF BeginExpired, ProcessShape, Busy
  <2> QED
    BY <2>1, <2>2 DEF PendingUnmarked, Pending, UsersAt
<1>5. CASE BeginFirst \/ BeginRepeat
  <2>1. /\ cur \in Notices /\ cur' = cur /\ msgUser = NoUser /\ msgUser' = NoUser
        /\ sent' = sent /\ crashes' = crashes /\ infos' = {} /\ pc = "dated" /\ pc' = "work"
    BY <1>5, <1>b DEF BeginFirst, BeginRepeat, ProcessShape, Busy
  <2>2. \A n \in Notices, u \in Users : mark'[<<n, u>>] = mark[<<n, u>>]
    <3> NoticeSlot \notin Users
      OBVIOUS
    <3> QED
      BY <1>5, <1>a, <2>1 DEF BeginFirst, BeginRepeat, SetMark, Keys, Slots
  <2>3. UnmarkedUnsent' /\ DuplicatesNeedCrash'
    BY <2>1, <2>2 DEF UnmarkedUnsent, DuplicatesNeedCrash, InHand, Distinct, Positions
  <2>4. PendingUnmarked'
    <3>1. Overdue(cur)' <=> Overdue(cur)
      BY <1>5 DEF BeginFirst, BeginRepeat, Overdue
    <3>2. infos' \cap UsersAt(todo)' = {} /\ msgUser' \notin Users
      BY <2>1
    <3> QED
      BY <1>5, <2>1, <3>1, <3>2, NewRoundUnmarked DEF PendingUnmarked
  <2> QED
    BY <2>3, <2>4
<1>6. CASE FetchBatch \/ FetchFails
  <2>1. UnmarkedUnsent' /\ DuplicatesNeedCrash'
    BY <1>6, <1>b, <1>c DEF FetchBatch, FetchFails
  <2>2. PICK batch \in SUBSET todo :
            /\ todo' = todo \ batch
            /\ infos' \subseteq UsersAt(batch)
    BY <1>6 DEF FetchBatch, FetchFails
  <2>3. /\ UNCHANGED <<mark, cur, msgUser>> /\ msgUser = NoUser
        /\ pc = "work" /\ pc' = "work" /\ cur \in Notices
    BY <1>6, <1>b DEF FetchBatch, FetchFails
  <2>4. Pending' \subseteq UsersAt(todo)
    BY <2>2, <2>3 DEF Pending, UsersAt
  <2>5. ASSUME Distinct(cur) PROVE infos' \cap UsersAt(todo)' = {}
    <3>1. todo \subseteq Positions(cur)
      BY <2>3 DEF TypeOK
    <3> QED
      BY <2>2, <2>3, <2>5, <3>1 DEF UsersAt, Distinct
  <2>6. Distinct(cur)' <=> Distinct(cur)
    BY <2>3 DEF Distinct, Positions
  <2>7. PendingUnmarked'
    <3>1. Overdue(cur)' <=> Overdue(cur)
      BY <1>6 DEF FetchBatch, FetchFails, Overdue
    <3> QED
      BY <2>3, <2>4, <2>5, <2>6, <3>1 DEF PendingUnmarked, Pending, Busy
  <2> QED
    BY <2>1, <2>7
<1>7. ASSUME NEW u \in Users, RejectUser(u) \/ RejectNoData(u) PROVE Goal
  <2>1. PICK m \in Mark : mark' = [mark EXCEPT ![<<cur, u>>] = m]
    BY <1>7 DEF RejectUser, RejectNoData, SetMark, Mark
  <2>2. /\ UNCHANGED <<sent, crashes, cur, msgUser, todo>>
        /\ pc = "work" /\ pc' = "work" /\ u \in infos /\ infos' = infos \ {u}
        /\ msgUser = NoUser /\ cur \in Notices
    BY <1>7, <1>b DEF RejectUser, RejectNoData
  <2>3. \A n \in Notices, v \in Users :
            ~(n = cur /\ v = u) => mark'[<<n, v>>] = mark[<<n, v>>]
    BY <1>a, <2>1 DEF Keys
  <2>4. mark'[<<cur, u>>] # NoMark
    BY <1>a, <2>1, <2>2 DEF Keys, Slots, Mark, NoMark
  <2>5. UnmarkedUnsent' /\ DuplicatesNeedCrash'
    BY <2>2, <2>3, <2>4 DEF UnmarkedUnsent, DuplicatesNeedCrash, InHand, Distinct, Positions
  <2>6. ASSUME Distinct(cur)
        PROVE  Pending' \subseteq Pending \ {u} /\ Pending \subseteq Users
    BY <1>a, <1>f, <2>2, <2>6 DEF PendingUnmarked, Busy, Pending, UsersAt
  <2>7. PendingUnmarked'
    <3>1. Distinct(cur)' <=> Distinct(cur)
      BY <2>2 DEF Distinct, Positions
    <3>2. UsersAt(todo)' = UsersAt(todo)
      BY <2>2 DEF UsersAt
    <3>3. Overdue(cur)' <=> Overdue(cur)
      BY <1>7 DEF RejectUser, RejectNoData, Overdue
    <3> QED
      BY <2>2, <2>3, <2>6, <3>1, <3>2, <3>3 DEF PendingUnmarked, Busy
  <2> QED
    BY <2>5, <2>7
<1>8. CASE SendMessage
  <2>1. /\ UNCHANGED <<mark, crashes, cur, todo, infos, msgUser, loadTtl, now>>
        /\ pc = "send" /\ pc' = "mark" /\ msgUser \in Users /\ cur \in Notices
    BY <1>8, <1>b DEF SendMessage
  <2>2. \A n \in Notices, v \in Users :
            ~(n = cur /\ v = msgUser) => sent'[<<n, v>>] = sent[<<n, v>>]
    BY <1>8, <1>a DEF SendMessage, Pairs
  <2>3. \/ sent'[<<cur, msgUser>>] = sent[<<cur, msgUser>>]
        \/ sent'[<<cur, msgUser>>] = sent[<<cur, msgUser>>] + 1 /\ loadTtl >= 0
    <3>1. CASE Accepts(cur, loadTtl)
      <4>1. loadTtl >= 0
        BY <3>1 DEF Accepts
      <4>2. sent' = [sent EXCEPT ![<<cur, msgUser>>] = @ + 1]
        BY <1>8, <3>1 DEF SendMessage
      <4>3. sent'[<<cur, msgUser>>] = sent[<<cur, msgUser>>] + 1
        BY <1>a, <2>1, <4>2 DEF Pairs
      <4> QED
        BY <4>1, <4>3
    <3>2. CASE ~Accepts(cur, loadTtl)
      BY <1>8, <3>2 DEF SendMessage
    <3> QED
      BY <3>1, <3>2
  <2>4. ASSUME Distinct(cur), loadTtl >= 0
        PROVE  sent[<<cur, msgUser>>] <= crashes /\ mark[<<cur, msgUser>>] = NoMark
    BY <2>1, <2>4 DEF PendingUnmarked, UnmarkedUnsent, Busy, InHand
  <2>5. sent[<<cur, msgUser>>] \in Nat
    BY <1>a, <2>1 DEF Pairs
  <2>6. Distinct(cur)' <=> Distinct(cur)
    BY <2>1 DEF Distinct, Positions
  <2>7. UnmarkedUnsent'
    BY <1>a, <2>1, <2>2, <2>3, <2>4, <2>5
       DEF UnmarkedUnsent, InHand, Distinct, Positions
  <2>8. DuplicatesNeedCrash'
    <3> SUFFICES ASSUME NEW n \in Notices, NEW v \in Users, Distinct(n)
                 PROVE  sent'[<<n, v>>] <= 1 + crashes'
      BY DEF DuplicatesNeedCrash, Distinct, Positions
    <3>1. CASE n = cur /\ v = msgUser
      <4>1. sent[<<n, v>>] <= 1 + crashes
        BY DEF DuplicatesNeedCrash
      <4> QED
        BY <1>a, <2>1, <2>3, <2>4, <2>5, <3>1, <4>1
    <3>2. CASE ~(n = cur /\ v = msgUser)
      BY <2>1, <2>2, <3>2 DEF DuplicatesNeedCrash
    <3> QED
      BY <3>1, <3>2
  <2>9. PendingUnmarked'
    <3>1. UsersAt(todo)' = UsersAt(todo) /\ (Overdue(cur)' <=> Overdue(cur))
      BY <2>1 DEF UsersAt, Overdue
    <3> QED
      BY <2>1, <2>6, <3>1 DEF PendingUnmarked, Pending, Busy
  <2> QED
    BY <2>7, <2>8, <2>9
<1>9. CASE SendOnClosed
  BY <1>9, <1>b, <1>c, <1>d DEF SendOnClosed, Die, Forget
<1>10. CASE MarkQueued
  <2>1. /\ UNCHANGED <<sent, crashes, cur, infos, todo>>
        /\ pc = "mark" /\ pc' = "work" /\ msgUser' = NoUser
        /\ msgUser \in Users /\ cur \in Notices
        /\ mark' = [mark EXCEPT ![<<cur, msgUser>>] = "QUEUED"]
    BY <1>10, <1>b DEF MarkQueued, SetMark
  <2>2. \A n \in Notices, v \in Users :
            ~(n = cur /\ v = msgUser) => mark'[<<n, v>>] = mark[<<n, v>>]
    BY <1>a, <2>1 DEF Keys
  <2>3. mark'[<<cur, msgUser>>] # NoMark
    BY <1>a, <2>1 DEF Keys, Slots, NoMark
  <2>4. UnmarkedUnsent' /\ DuplicatesNeedCrash'
    BY <2>1, <2>2, <2>3 DEF UnmarkedUnsent, DuplicatesNeedCrash, InHand, Distinct, Positions
  <2>5. PendingUnmarked'
    <3>1. Distinct(cur)' <=> Distinct(cur)
      BY <2>1 DEF Distinct, Positions
    <3>2. Pending' = Pending /\ UsersAt(todo)' = UsersAt(todo) /\ Pending \subseteq Users
      BY <1>a, <1>f, <2>1 DEF Pending, UsersAt
    <3>3. Overdue(cur)' <=> Overdue(cur)
      BY <1>10 DEF MarkQueued, Overdue
    <3> QED
      BY <1>b, <2>1, <2>2, <3>1, <3>2, <3>3 DEF PendingUnmarked, Busy
  <2> QED
    BY <2>4, <2>5
<1>11. CASE MarkFails
  <2>1. /\ UNCHANGED <<mark, sent, crashes>> /\ msgUser' = NoUser /\ pc' = "down"
        /\ pc = "mark" => ~CanMark(loadTtl)
    BY <1>11 DEF MarkFails, MarkRefused, Die, Forget
  <2>2. pc = "mark" => loadTtl < 0
    BY <1>a, <2>1, RefusedIsNegative
  <2>3. UnmarkedUnsent'
    <3> SUFFICES ASSUME NEW n \in Notices, NEW v \in Users, Distinct(n),
                        mark[<<n, v>>] = NoMark
                 PROVE  sent[<<n, v>>] <= crashes
      BY <2>1 DEF UnmarkedUnsent, Distinct, Positions
    <3>1. ~InHand(n, v)
      BY <1>a, <2>2 DEF InHand
    <3> QED
      BY <3>1 DEF UnmarkedUnsent
  <2>4. DuplicatesNeedCrash'
    BY <2>1 DEF DuplicatesNeedCrash, Distinct, Positions
  <2> QED
    BY <1>d, <2>1, <2>3, <2>4
<1>12. CASE MarkDone
  BY <1>12, <1>b, <1>c, <1>d DEF MarkDone
<1>13. CASE Exit
  BY <1>13, <1>b, <1>c, <1>d DEF Exit, Forget
<1>14. CASE Start
  BY <1>14, <1>b, <1>c, <1>d DEF Start
<1>15. CASE Stop
  BY <1>15, <1>e DEF Stop
<1>16. ASSUME NEW n \in Notices, Publish(n) PROVE Goal
  BY <1>16, <1>e DEF Publish
<1>17. ASSUME NEW t \in Consumed, Declare(t) PROVE Goal
  BY <1>17, <1>e DEF Declare
<1>18. CASE Tick
  BY <1>18, <1>e DEF Tick
<1>19. CASE Crash
  <2>1. /\ UNCHANGED <<mark, sent>> /\ crashes' = crashes + 1
        /\ msgUser' = NoUser /\ pc' = "down"
    BY <1>19 DEF Crash, Die, Forget
  <2>2. ASSUME NEW n \in Notices, NEW v \in Users, Distinct(n)
        PROVE  sent'[<<n, v>>] <= crashes' /\ sent'[<<n, v>>] <= 1 + crashes'
    <3>1. sent[<<n, v>>] <= 1 + crashes /\ sent[<<n, v>>] \in Nat
      BY <1>a, <2>2 DEF DuplicatesNeedCrash, Pairs
    <3> QED
      BY <1>a, <2>1, <3>1
  <2>3. UnmarkedUnsent' /\ DuplicatesNeedCrash'
    BY <2>2 DEF UnmarkedUnsent, DuplicatesNeedCrash, Distinct, Positions
  <2> QED
    BY <1>d, <2>1, <2>3
<1>20. CASE BeginFresh \/ ComputeTtl
  BY <1>20, <1>c, <1>d DEF BeginFresh, ComputeTtl
<1>21. ASSUME NEW u \in Users, YieldMessage(u) PROVE Goal
  <2>1. /\ UNCHANGED <<mark, sent, crashes, cur, todo, now>>
        /\ pc = "work" /\ pc' = "send" /\ u \in infos /\ infos' = infos \ {u}
        /\ msgUser = NoUser /\ msgUser' = u /\ cur \in Notices
    BY <1>21, <1>b DEF YieldMessage
  <2>2. UnmarkedUnsent' /\ DuplicatesNeedCrash'
    BY <1>c, <2>1
  <2>3. loadTtl' >= 0 => ~Overdue(cur)
    BY <1>21, <2>1, TtlBounds DEF YieldMessage
  <2>4. PendingUnmarked'
    <3>1. /\ UsersAt(todo)' = UsersAt(todo) /\ (Overdue(cur)' <=> Overdue(cur))
          /\ Distinct(cur)' <=> Distinct(cur)
      BY <2>1 DEF UsersAt, Overdue, Distinct, Positions
    <3> QED
      BY <2>1, <2>3, <3>1 DEF PendingUnmarked, Pending, Busy
  <2> QED
    BY <2>2, <2>4
<1> QED
  BY <1>1, <1>2, <1>3, <1>4, <1>5, <1>6, <1>7, <1>8, <1>9, <1>10, <1>11,
     <1>12, <1>13, <1>14, <1>15, <1>16, <1>17, <1>18, <1>19, <1>20, <1>21
     DEF Next, EtlStep

\* Who is settled stays settled: a mark is replaced but never taken away.
LEMMA SettledForGood ==
    ASSUME TypeOK, ProcessShape, Next,
           NEW n \in Notices, NEW u \in Users, Settled(n, u)
    PROVE  Settled(n, u)'
<1> USE DEF broker, redis, process, environment, history
<1>1. CASE UNCHANGED mark /\ missed \subseteq missed'
  BY <1>1 DEF Settled
<1>2. ASSUME NEW k, NEW s, NEW m \in Mark, NEW t, SetMark(k, s, m, t), missed' = missed
      PROVE  Settled(n, u)'
  <2>1. m # NoMark /\ mark' = [mark EXCEPT ![<<k, s>>] = m]
    BY <1>2 DEF SetMark, Mark, NoMark
  <2>2. mark[<<n, u>>] # NoMark => mark'[<<n, u>>] # NoMark
    BY <2>1 DEF TypeOK, Keys, Slots
  <2> QED
    BY <1>2, <2>2 DEF Settled
<1>3. CASE BeginFirst
  BY <1>2, <1>3 DEF BeginFirst, Mark
<1>4. ASSUME NEW v \in Users, RejectUser(v) \/ RejectNoData(v) PROVE Settled(n, u)'
  BY <1>2, <1>4 DEF RejectUser, RejectNoData, Mark
<1>5. CASE MarkQueued
  BY <1>2, <1>5 DEF MarkQueued, Mark
<1> QED
  BY <1>1, <1>3, <1>4, <1>5
     DEF Next, EtlStep, Run, GetData, GetMalformed, BeginExpired, BeginRepeat,
         BeginFresh, ComputeTtl, FetchBatch, FetchFails, YieldMessage, SendMessage,
         SendOnClosed, MarkFails, MarkDone, Exit, Start, Stop, Publish, Declare, Tick, Crash

\* The lists of a round cover every recipient that is not settled, and so
\* nobody is left over when they are empty and the notice is acknowledged.
LEMMA AccountStep ==
    ASSUME TypeOK, ProcessShape, RoundCovers, Accounted, Next
    PROVE  RoundCovers' /\ Accounted'
<1> DEFINE Goal == RoundCovers' /\ Accounted'
<1> USE ConstantsAssumption DEF broker, redis, process, environment, history
<1>a. /\ pc \in {"begin", "fresh", "dated", "work", "send", "mark"} => cur \in Notices
      /\ pc \notin {"send", "mark"} => msgUser = NoUser
      /\ pc \in {"send", "mark"} => msgUser \in Users
  BY DEF ProcessShape, TypeOK
<1>b. \A n \in Notices : \A u \in RecipientSet(n) : u \in Users
  BY RecipientsAreUsers DEF RecipientSet
<1>c. \A n \in Notices, u \in Users : Settled(n, u) => Settled(n, u)'
  BY SettledForGood
<1>d. ASSUME acked' = acked, late \subseteq late' PROVE Accounted'
  BY <1>b, <1>c, <1>d DEF Accounted, RecipientSet, Positions, TypeOK
<1>e. ASSUME pc' \notin {"work", "send", "mark"} PROVE RoundCovers'
  BY <1>e DEF RoundCovers, Busy
<1>f. ASSUME UNCHANGED <<mark, missed, acked, late, pc, cur, infos, todo, msgUser>>
      PROVE  Goal
  BY <1>d, <1>f DEF RoundCovers, Settled, Busy, Pending, UsersAt, RecipientSet, Positions
<1>1. CASE Run
  BY <1>1, <1>d, <1>e DEF Run
<1>2. CASE GetData
  BY <1>2, <1>d, <1>e DEF GetData
<1>3. CASE GetMalformed
  BY <1>3, <1>d, <1>e DEF GetMalformed, Die
<1>4. CASE BeginExpired
  BY <1>4, <1>d DEF BeginExpired, RoundCovers
<1>5. CASE BeginFirst
  BY <1>5, <1>d DEF BeginFirst, RoundCovers, RecipientSet, Positions, Pending, UsersAt
<1>6. CASE BeginRepeat
  <2>1. ASSUME NEW i \in Positions(cur), i \notin todo'
        PROVE  Settled(cur, Recipients[cur][i])'
    BY <1>6, <2>1 DEF BeginRepeat, Unprocessed, IsProcessed, Settled
  <2>2. cur' = cur /\ acked' = acked /\ late' = late
    BY <1>6 DEF BeginRepeat
  <2> QED
    BY <1>d, <2>1, <2>2 DEF RoundCovers, RecipientSet, Positions, Pending, UsersAt
<1>7. CASE FetchBatch \/ FetchFails
  <2>1. /\ UNCHANGED <<mark, cur, acked, late, msgUser>> /\ msgUser = NoUser
        /\ pc = "work" /\ pc' = "work" /\ infos = {} /\ cur \in Notices
    BY <1>7, <1>a DEF FetchBatch, FetchFails
  <2>2. ASSUME NEW i \in todo, i \notin todo'
        PROVE  Settled(cur, Recipients[cur][i])' \/ Recipients[cur][i] \in infos'
    BY <1>7, <2>1, <2>2 DEF FetchBatch, FetchFails, UsersAt, Settled
  <2>3. ASSUME cur \notin late, NEW u \in RecipientSet(cur)
        PROVE  Settled(cur, u)' \/ u \in Pending'
    <3>1. CASE Settled(cur, u)
      BY <1>b, <1>c, <2>1, <3>1
    <3>2. CASE ~Settled(cur, u)
      <4>1. PICK i \in todo : u = Recipients[cur][i]
        BY <1>b, <2>1, <2>3, <3>2 DEF RoundCovers, Busy, Pending, UsersAt
      <4> QED
        BY <2>1, <2>2, <4>1 DEF Pending, UsersAt
    <3> QED
      BY <3>1, <3>2
  <2> QED
    BY <1>d, <2>1, <2>3 DEF RoundCovers, RecipientSet, Positions, Settled
<1>8. ASSUME NEW v \in Users, RejectUser(v) \/ RejectNoData(v) PROVE Goal
  <2>1. /\ UNCHANGED <<cur, acked, late, missed, msgUser, todo>>
        /\ pc = "work" /\ infos' = infos \ {v} /\ cur \in Notices
        /\ msgUser = NoUser
    BY <1>8, <1>a DEF RejectUser, RejectNoData
  <2>2. Settled(cur, v)'
    <3>1. PICK m \in Mark : mark' = [mark EXCEPT ![<<cur, v>>] = m]
      BY <1>8 DEF RejectUser, RejectNoData, SetMark, Mark
    <3> QED
      BY <2>1, <3>1 DEF Settled, TypeOK, Keys, Slots, Mark, NoMark
  <2>3. ASSUME cur \notin late, NEW u \in RecipientSet(cur)
        PROVE  Settled(cur, u)' \/ u \in Pending'
    BY <1>b, <1>c, <2>1, <2>2, <2>3 DEF RoundCovers, Busy, Pending, UsersAt
  <2> QED
    BY <1>d, <2>1, <2>3 DEF RoundCovers, RecipientSet, Positions, Settled
<1>9. ASSUME NEW v \in Users, YieldMessage(v) PROVE Goal
  <2>1. /\ UNCHANGED <<cur, acked, late, missed, mark, todo>>
        /\ pc = "work" /\ infos' = infos \ {v} /\ cur \in Notices
        /\ msgUser = NoUser /\ msgUser' = v
    BY <1>9, <1>a DEF YieldMessage
  <2>2. ASSUME cur \notin late, NEW u \in RecipientSet(cur)
        PROVE  Settled(cur, u)' \/ u \in Pending' \/ u = v
    BY <1>b, <1>c, <2>1, <2>2 DEF RoundCovers, Busy, Pending, UsersAt
  <2> QED
    BY <1>d, <2>1, <2>2 DEF RoundCovers, RecipientSet, Positions, Settled
<1>10. CASE SendOnClosed
  BY <1>10, <1>d, <1>e DEF SendOnClosed, Die
<1>11. CASE MarkQueued
  <2>1. /\ UNCHANGED <<cur, acked, late, missed, infos, todo>>
        /\ pc = "mark" /\ cur \in Notices /\ msgUser \in Users
        /\ mark' = [mark EXCEPT ![<<cur, msgUser>>] = "QUEUED"]
    BY <1>11, <1>a DEF MarkQueued, SetMark
  <2>2. mark'[<<cur, msgUser>>] # NoMark
    BY <2>1 DEF TypeOK, Keys, Slots, NoMark
  <2>3. ASSUME cur \notin late, NEW u \in RecipientSet(cur)
        PROVE  Settled(cur, u)' \/ u \in Pending'
    <3>1. CASE u = msgUser
      BY <2>1, <2>2, <3>1 DEF Settled
    <3>2. CASE u # msgUser
      BY <1>b, <1>c, <2>1, <2>3, <3>2 DEF RoundCovers, Busy, Pending, UsersAt
    <3> QED
      BY <3>1, <3>2
  <2> QED
    BY <1>d, <2>1, <2>3 DEF RoundCovers, RecipientSet, Positions, Settled
<1>12. CASE MarkFails
  BY <1>12, <1>d, <1>e DEF MarkFails, Die
<1>13. CASE MarkDone
  <2>1. /\ UNCHANGED <<mark, missed, late>> /\ acked' = acked \cup {cur} /\ pc' = "idle"
        /\ pc = "work" /\ infos = {} /\ todo = {} /\ msgUser = NoUser /\ cur \in Notices
    BY <1>13, <1>a DEF MarkDone, LoadDone
  <2>2. ASSUME cur \notin late, NEW u \in RecipientSet(cur) PROVE Settled(cur, u)
    <3>1. Pending = {}
      BY <2>1 DEF Pending, UsersAt
    <3>2. u # msgUser
      BY <1>b, <2>1
    <3> QED
      BY <2>1, <2>2, <3>1, <3>2 DEF RoundCovers, Busy
  <2>3. Accounted'
    BY <2>1, <2>2 DEF Accounted, RecipientSet, Positions, Settled
  <2> QED
    BY <1>e, <2>1, <2>3
<1>14. CASE Exit
  BY <1>14, <1>d, <1>e DEF Exit
<1>15. CASE Start
  BY <1>15, <1>d, <1>e DEF Start
<1>16. CASE Stop
  BY <1>16, <1>f DEF Stop
<1>17. ASSUME NEW n \in Notices, Publish(n) PROVE Goal
  BY <1>17, <1>f DEF Publish
<1>18. ASSUME NEW t \in Consumed, Declare(t) PROVE Goal
  BY <1>18, <1>f DEF Declare
<1>19. CASE Tick
  BY <1>19, <1>f DEF Tick
<1>20. CASE Crash
  BY <1>20, <1>d, <1>e DEF Crash, Die
<1>21. CASE BeginFresh \/ ComputeTtl
  BY <1>21, <1>d, <1>e DEF BeginFresh, ComputeTtl
<1>22. CASE SendMessage
  BY <1>22, <1>d DEF SendMessage, RoundCovers, Settled, Busy, Pending, UsersAt, RecipientSet,
       Positions
<1> QED
  BY <1>1, <1>2, <1>3, <1>4, <1>5, <1>6, <1>7, <1>8, <1>9, <1>10, <1>11,
     <1>12, <1>13, <1>14, <1>15, <1>16, <1>17, <1>18, <1>19, <1>20, <1>21, <1>22
     DEF Next, EtlStep

\* A step that changes nothing preserves the invariant.
LEMMA StutterRound == ASSUME RoundInv, UNCHANGED vars PROVE RoundInv'
<1> USE DEF RoundInv, vars, broker, redis, process, environment, history
<1>1. TypeOK'
  <2>1. isRun' \in BOOLEAN /\ loaderOpen' \in BOOLEAN
    BY DEF TypeOK
  <2>2. /\ queue' \in Seq(Notices)
        /\ sent' \in [Pairs -> Nat]
        /\ mark' \in [Keys -> Mark \cup {NoMark}]
        /\ until' \in [Keys -> Int]
        /\ published' \in [Notices -> Nat]
    BY DEF TypeOK
  <2>3. /\ ttl' \in Int /\ loadTtl' \in Int /\ now' \in Nat /\ crashes' \in Nat
    BY DEF TypeOK
  <2>4. /\ declared' \subseteq Consumed
        /\ pc' \in PC
        /\ cur' \in Notices \cup {NoNotice}
        /\ cur' \in Notices => todo' \subseteq Positions(cur')
        /\ infos' \subseteq Users
        /\ msgUser' \in Users \cup {NoUser}
    BY DEF TypeOK
  <2>5. acked' \subseteq Notices /\ late' \subseteq Notices /\ missed' \subseteq Pairs
    BY DEF TypeOK
  <2> QED
    BY <2>1, <2>2, <2>3, <2>4, <2>5 DEF TypeOK
<1>2. ProcessShape'
  BY DEF ProcessShape, Busy
<1>3. MarksOutliveNotices' /\ TtlsInHand' /\ MarksAreVerdicts'
  BY DEF MarksOutliveNotices, TtlsInHand, Busy, Reaches, MarksAreVerdicts, Verdict, HasMsgMeta
<1>4. UnmarkedUnsent' /\ DuplicatesNeedCrash'
  BY DEF UnmarkedUnsent, DuplicatesNeedCrash, InHand, Distinct, Positions
<1>5. PendingUnmarked'
  BY DEF PendingUnmarked, Pending, UsersAt, Busy, Distinct, Positions, Overdue
<1>6. RoundCovers' /\ Accounted'
  BY DEF RoundCovers, Accounted, Settled, Pending, UsersAt, Busy, RecipientSet, Positions
<1> QED
  BY <1>1, <1>2, <1>3, <1>4, <1>5, <1>6

\* The local lists of a round, the marks in Redis and the messages in the
\* queues agree in every state: for every number of notices, recipients and
\* batches, every expiry, every kill and every repeated publish.
THEOREM RoundInvariant == Spec => []RoundInv
<1>1. RoundInv /\ [Next]_vars => RoundInv'
  <2> SUFFICES ASSUME RoundInv, [Next]_vars PROVE RoundInv'
    OBVIOUS
  <2>1. CASE Next
    <3>1. TypeOK' /\ ProcessShape'
      BY <2>1, TypeStep DEF RoundInv
    <3>2. MarksOutliveNotices' /\ TtlsInHand'
      BY <2>1, OutliveStep DEF RoundInv
    <3>3. UnmarkedUnsent' /\ PendingUnmarked' /\ DuplicatesNeedCrash'
      BY <2>1, UnsentStep DEF RoundInv
    <3>4. RoundCovers' /\ Accounted'
      BY <2>1, AccountStep DEF RoundInv
    <3>5. MarksAreVerdicts'
      BY <2>1, VerdictStep DEF RoundInv
    <3> QED
      BY <3>1, <3>2, <3>3, <3>4, <3>5 DEF RoundInv
  <2>2. CASE UNCHANGED vars
    BY <2>2, StutterRound
  <2> QED
    BY <2>1, <2>2
<1> QED
  BY <1>1, InitRound, PTL DEF Spec

\* Every variable keeps its type, whatever the constants are.
THEOREM TypeCorrect == Spec => []TypeOK
<1>1. RoundInv => TypeOK
  BY DEF RoundInv
<1> QED
  BY <1>1, RoundInvariant, PTL

\* A second message to a recipient takes a kill: the marks, the order in which
\* they are set and the minute that is added to their lifetime suffice.
THEOREM NoDuplicateWithoutCrash == Spec => []DuplicatesNeedCrash
<1>1. RoundInv => DuplicatesNeedCrash
  BY DEF RoundInv
<1> QED
  BY <1>1, RoundInvariant, PTL

\* Whoever is not settled when a notice is acknowledged does not exist, was in
\* an unanswered batch, or the notice had expired.
THEOREM EveryRecipientAccounted == Spec => []Accounted
<1>1. RoundInv => Accounted
  BY DEF RoundInv
<1> QED
  BY <1>1, RoundInvariant, PTL

\* A published notice is waiting, in work or acknowledged: it survives every
\* end of the process, the one of a refused notice included.
THEOREM PublishedIsKept == Spec => []NoNoticeLost
<1>1. Init => NoNoticeLost
  BY DEF Init, NoNoticeLost
<1>2. RoundInv /\ NoNoticeLost /\ [Next]_vars => NoNoticeLost'
  <2> SUFFICES ASSUME RoundInv, NoNoticeLost, [Next]_vars PROVE NoNoticeLost'
    OBVIOUS
  <2> USE DEF broker, redis, process, environment, history
  <2>a. queue \in Seq(Notices) /\ published \in [Notices -> Nat]
    BY DEF RoundInv, TypeOK
  <2>b. cur = NoNotice \/ cur \in Notices
    BY DEF RoundInv, TypeOK
  <2>1. ASSUME published' = published, cur' = cur, queue' = queue, acked \subseteq acked'
        PROVE  NoNoticeLost'
    BY <2>1 DEF NoNoticeLost, Queued
  <2>2. ASSUME Die, published' = published, acked' = acked
        PROVE  NoNoticeLost'
    <3>1. \A n \in Notices : Queued(n) \/ cur = n => Queued(n)'
      <4>1. CASE cur = NoNotice
        BY <2>2, <4>1, ConstantsAssumption DEF Die, Requeue, Queued
      <4>2. CASE cur \in Notices
        <5>1. queue' = <<cur>> \o queue
          BY <2>2, <4>2, ConstantsAssumption DEF Die, Requeue
        <5>2. Len(queue') = Len(queue) + 1 /\ queue'[1] = cur
          BY <2>a, <4>2, <5>1
        <5>3. \A i \in DOMAIN queue : i + 1 \in DOMAIN queue' /\ queue'[i + 1] = queue[i]
          BY <2>a, <4>2, <5>1
        <5>4. 1 \in DOMAIN queue'
          BY <2>a, <4>2, <5>1
        <5> QED
          BY <5>2, <5>3, <5>4 DEF Queued
      <4> QED
        BY <2>b, <4>1, <4>2
    <3> QED
      BY <2>2, <3>1 DEF NoNoticeLost
  <2>3. CASE GetData
    <3>1. /\ cur' = Head(queue) /\ queue' = Tail(queue) /\ queue # <<>>
          /\ published' = published /\ acked' = acked
      BY <2>3 DEF GetData
    <3>2. cur = NoNotice
      BY <2>3 DEF GetData, RoundInv, ProcessShape
    <3>3. ASSUME NEW i \in DOMAIN queue
          PROVE  queue[i] = cur' \/ \E j \in DOMAIN queue' : queue'[j] = queue[i]
      <4>1. CASE i = 1
        BY <2>a, <3>1, <4>1
      <4>2. CASE i # 1
        <5>1. i - 1 \in DOMAIN queue' /\ queue'[i - 1] = queue[i]
          BY <2>a, <3>1, <4>2
        <5> QED
          BY <5>1
      <4> QED
        BY <4>1, <4>2
    <3> QED
      BY <3>1, <3>2, <3>3, ConstantsAssumption DEF NoNoticeLost, Queued
  <2>4. CASE MarkDone
    BY <2>4 DEF MarkDone, NoNoticeLost, Queued
  <2>5. ASSUME NEW n \in Notices, Publish(n) PROVE NoNoticeLost'
    <3>1. /\ queue' = Append(queue, n) /\ cur' = cur /\ acked' = acked
          /\ published' = [published EXCEPT ![n] = @ + 1]
      BY <2>5 DEF Publish
    <3>2. queue'[Len(queue) + 1] = n /\ Len(queue) + 1 \in DOMAIN queue'
      BY <2>a, <3>1
    <3>3. \A i \in DOMAIN queue : i \in DOMAIN queue' /\ queue'[i] = queue[i]
      BY <2>a, <3>1
    <3>4. \A k \in Notices : k # n => published'[k] = published[k]
      BY <2>a, <3>1
    <3> QED
      BY <3>1, <3>2, <3>3, <3>4 DEF NoNoticeLost, Queued
  <2>6. CASE GetMalformed \/ SendOnClosed \/ MarkFails \/ Crash
    BY <2>2, <2>6 DEF GetMalformed, SendOnClosed, MarkFails, Crash
  <2>7. CASE UNCHANGED vars
    BY <2>1, <2>7 DEF vars
  <2> QED
    BY <2>1, <2>3, <2>4, <2>5, <2>6, <2>7
       DEF Next, EtlStep, Run, BeginExpired, BeginFresh, ComputeTtl, BeginFirst, BeginRepeat,
           FetchBatch, FetchFails, RejectUser, RejectNoData, YieldMessage, SendMessage,
           MarkQueued, Exit,
           Start, Stop, Declare, Tick
<1> QED
  BY <1>1, <1>2, RoundInvariant, PTL DEF Spec

\* The channel of the loader is closed, or is about to be used with a negative
\* expiration, only after some notice became overdue.
ChannelShape ==
    /\ ~loaderOpen /\ pc # "down" => \E n \in Notices : Overdue(n)
    /\ pc = "dated" \/ Busy => (ttl < 0 => Overdue(cur))
    /\ pc # "dated" /\ ~Busy => ttl = 0
    /\ pc \in {"send", "mark"} /\ loadTtl < 0 => Overdue(cur)

LEMMA ChannelStep ==
    ASSUME RoundInv, ChannelShape, Next
    PROVE  ChannelShape'
<1> USE DEF broker, redis, process, environment, history
<1>a. TypeOK /\ ProcessShape
  BY DEF RoundInv
<1>b. /\ pc \in {"begin", "fresh", "dated", "work", "send", "mark"} => cur \in Notices
      /\ ttl \in Int /\ loadTtl \in Int
  BY <1>a DEF ProcessShape, TypeOK
<1>c. now' \in {now, now + 1}
  BY DEF Next, EtlStep, Run, GetData, GetMalformed, BeginExpired, BeginFresh, ComputeTtl,
     BeginFirst, BeginRepeat, FetchBatch, FetchFails, RejectUser, RejectNoData, YieldMessage,
     SendMessage, SendOnClosed, MarkQueued, MarkFails, MarkDone, Exit, Start, Stop, Publish,
     Declare, Tick, Crash
<1>d. \A n \in Notices : Overdue(n) => Overdue(n)'
  BY <1>a, <1>c, ConstantsAssumption DEF Overdue, TypeOK
<1>1. CASE ComputeTtl
  BY <1>1, <1>a, <1>b, <1>d, TtlBounds DEF ComputeTtl, ChannelShape, Busy
<1>2. ASSUME NEW u \in Users, YieldMessage(u) PROVE ChannelShape'
  <2>1. loadTtl' < 0 => Overdue(cur)
    BY <1>2, <1>a, <1>b, TtlBounds DEF YieldMessage
  <2> QED
    BY <1>2, <1>b, <1>d, <2>1 DEF YieldMessage, ChannelShape, Busy
<1>3. CASE SendMessage
  <2>1. /\ UNCHANGED <<ttl, loadTtl, cur>> /\ pc = "send" /\ pc' = "mark"
        /\ loaderOpen' = (loadTtl >= 0)
    BY <1>3 DEF SendMessage
  <2>2. (loadTtl < 0 => Overdue(cur)) /\ (ttl < 0 => Overdue(cur)) /\ cur \in Notices
    BY <1>b, <2>1 DEF ChannelShape, Busy
  <2>3. ~loaderOpen' => Overdue(cur)
    <3>1. pc \in {"begin", "fresh", "dated", "work", "send", "mark"}
      BY <2>1
    <3>2. loadTtl >= 0 \/ loadTtl < 0
      BY <1>b, <3>1
    <3>3. CASE loadTtl < 0
      BY <2>2, <3>3
    <3>4. CASE loadTtl >= 0
      <4>1. loaderOpen'
        BY <2>1, <3>4, Zenon
      <4> QED
        BY <4>1
    <3> QED
      BY <3>2, <3>3, <3>4
  <2> QED
    BY <1>d, <2>1, <2>2, <2>3 DEF ChannelShape, Busy
<1>4. CASE BeginExpired
  BY <1>4, <1>b, <1>d, <1>a DEF BeginExpired, ChannelShape, Busy
<1>5. CASE Run \/ GetData \/ GetMalformed \/ BeginFresh \/ MarkDone \/ Exit \/ Start
           \/ SendOnClosed \/ MarkFails \/ Crash
  BY <1>5, <1>d DEF Run, GetData, GetMalformed, BeginFresh, MarkDone, Exit, Start, SendOnClosed,
     MarkFails, Crash, Die, Forget, ChannelShape, Busy
<1> QED
  BY <1>1, <1>2, <1>3, <1>4, <1>5, <1>b, <1>d
     DEF Next, EtlStep, BeginFirst, BeginRepeat, FetchBatch, FetchFails, RejectUser,
         RejectNoData, MarkQueued, Stop, Publish, Declare, Tick, ChannelShape, Busy

\* The process ends by itself with a notice in its hands only when a notice has
\* been overdue for a second: the truncated ttl of a notice that expired less
\* than that ago is 0, which neither RabbitMQ nor Redis refuses.
THEOREM EndsOnlyOverdue == Spec => DiesOnlyOverdue
<1> DEFINE OnlyOverdue == pc' = "down" /\ cur # NoNotice /\ crashes' = crashes
                          => \E n \in Notices : Overdue(n)
<1>1. Init => ChannelShape
  BY DEF Init, ChannelShape, Busy
<1>2. RoundInv /\ ChannelShape /\ [Next]_vars => ChannelShape'
  <2>1. ASSUME ChannelShape, UNCHANGED vars PROVE ChannelShape'
    BY <2>1 DEF vars, process, environment, ChannelShape, Busy, Overdue
  <2> QED
    BY <2>1, ChannelStep
<1>3. RoundInv /\ ChannelShape /\ [Next]_vars => [OnlyOverdue]_vars
  <2> SUFFICES ASSUME RoundInv, ChannelShape, Next, pc' = "down", cur # NoNotice,
                      crashes' = crashes
               PROVE  \E n \in Notices : Overdue(n)
    OBVIOUS
  <2> USE DEF broker, redis, process, environment, history
  <2>1. /\ cur \in Notices /\ pc \notin {"down", "booted", "idle"}
        /\ ttl \in Int /\ loadTtl \in Int /\ crashes \in Nat
    BY DEF RoundInv, ProcessShape, TypeOK
  <2>2. SendOnClosed \/ MarkFails
    BY <2>1 DEF Next, EtlStep, Run, GetData, GetMalformed, BeginExpired, BeginFresh,
       ComputeTtl, BeginFirst, BeginRepeat, FetchBatch, FetchFails, RejectUser, RejectNoData,
       YieldMessage, SendMessage, MarkQueued, MarkDone, Exit, Start, Stop, Publish, Declare,
       Tick, Crash
  <2>3. CASE SendOnClosed
    BY <2>3 DEF SendOnClosed, ChannelShape
  <2>4. CASE MarkFails
    <3>1. \/ pc \in {"dated", "work"} /\ ~CanMark(ttl)
          \/ pc = "mark" /\ ~CanMark(loadTtl)
      BY <2>4 DEF MarkFails, MarkRefused
    <3> QED
      BY <2>1, <3>1, RefusedIsNegative DEF ChannelShape, Busy
  <2> QED
    BY <2>2, <2>3, <2>4
<1> QED
  BY <1>1, <1>2, <1>3, RoundInvariant, PTL DEF Spec, DiesOnlyOverdue

-----------------------------------------------------------------------------
(***************************************************************************)
(* The process implements the abstract fan-out.                            *)
(***************************************************************************)

\* Setting a mark is a decision about a recipient, or it repeats the one made
\* about him before.
LEMMA SetMarkDecides ==
    ASSUME RoundInv, NEW n \in Notices, NEW u \in Users, NEW m \in Mark, NEW t,
           SetMark(n, u, m, t), m = Verdict(n, u),
           UNCHANGED <<sent, late, missed, acked>>
    PROVE  [FanOut!Next]_(FanOut!vars)
<1>1. mark' = [mark EXCEPT ![<<n, u>>] = m] /\ <<n, u>> \in Pairs /\ <<n, u>> \in Keys
  BY DEF SetMark, Pairs, Keys, Slots
<1>2. Pairs \subseteq Keys /\ mark \in [Keys -> Mark \cup {NoMark}]
  BY DEF RoundInv, TypeOK, Pairs, Keys, Slots
<1>3. UserMarks' = [UserMarks EXCEPT ![<<n, u>>] = m] /\ UserMarks[<<n, u>>] \in {NoMark, m}
  BY <1>1, <1>2 DEF UserMarks, RoundInv, MarksAreVerdicts
<1>4. Excused' = Excused
  BY DEF Excused
<1>5. CASE UserMarks[<<n, u>>] = NoMark
  <2>1. FanOut!Decide(<<n, u>>, m)
    BY <1>3, <1>4, <1>5 DEF FanOut!Decide, FanOut!Open, NoMark
  <2> QED
    BY <1>1, <2>1 DEF FanOut!Next, FanOut!Pairs, FanOut!Fates, Pairs, Mark
<1>6. CASE UserMarks[<<n, u>>] = m
  <2>1. UserMarks' = UserMarks
    BY <1>3, <1>6 DEF UserMarks
  <2> QED
    BY <1>4, <2>1 DEF FanOut!vars
<1> QED
  BY <1>3, <1>5, <1>6

\* Every step is a step of the abstract fan-out or leaves its state alone.
LEMMA FanOutStep ==
    ASSUME \A n \in Notices : Distinct(n), RoundInv, [Next]_vars
    PROVE  [FanOut!Next]_(FanOut!vars)
<1> USE DEF broker, redis, process, environment, history
<1>a. /\ pc \in {"begin", "fresh", "dated", "work", "send", "mark"} => cur \in Notices
      /\ pc \notin {"send", "mark"} => msgUser = NoUser
      /\ pc \in {"send", "mark"} => msgUser \in Users
      /\ infos \subseteq Users
      /\ NoticeSlot \notin Users
      /\ NoUser \notin Users
  BY ConstantsAssumption DEF RoundInv, ProcessShape, TypeOK
<1>b. ASSUME UNCHANGED <<mark, sent, acked, late, missed>> PROVE UNCHANGED FanOut!vars
  BY <1>b DEF FanOut!vars, UserMarks, Excused
<1>c. pc = "send" /\ loadTtl >= 0 => mark[<<cur, msgUser>>] = NoMark
  BY <1>a DEF RoundInv, PendingUnmarked, Busy
<1>d. ASSUME UNCHANGED <<mark, sent, acked>>, late \subseteq late', missed \subseteq missed'
      PROVE  [FanOut!Next]_(FanOut!vars)
  <2>1. Excused' = Excused \cup Excused' /\ Excused' \in SUBSET Pairs
    BY <1>d DEF Excused
  <2>2. UserMarks' = UserMarks
    BY <1>d DEF UserMarks
  <2>3. FanOut!Excuse(Excused')
    BY <1>d, <2>1, <2>2 DEF FanOut!Excuse
  <2> QED
    BY <2>1, <2>3 DEF FanOut!Next, FanOut!Pairs, Pairs
<1>1. CASE BeginExpired \/ FetchFails
  BY <1>1, <1>d DEF BeginExpired, FetchFails
<1>2. CASE BeginFirst
  <2>1. mark' = [mark EXCEPT ![<<cur, NoticeSlot>>] = "QUEUED"]
    BY <1>2 DEF BeginFirst, SetMark
  <2>2. UserMarks' = UserMarks
    BY <1>a, <2>1 DEF UserMarks, Pairs, RoundInv, TypeOK, Keys, Slots
  <2>3. Excused' = Excused /\ UNCHANGED <<sent, acked>>
    BY <1>2 DEF BeginFirst, Excused
  <2> QED
    BY <2>2, <2>3 DEF FanOut!vars
<1>3. ASSUME NEW u \in Users, RejectUser(u) \/ RejectNoData(u)
      PROVE  [FanOut!Next]_(FanOut!vars)
  <2>1. SetMark(cur, u, Verdict(cur, u), ttl) /\ Verdict(cur, u) \in Mark
    BY <1>3 DEF RejectUser, RejectNoData, Verdict, Mark
  <2>2. cur \in Notices
    BY <1>3, <1>a DEF RejectUser, RejectNoData
  <2>3. UNCHANGED <<sent, late, missed, acked>>
    BY <1>3 DEF RejectUser, RejectNoData
  <2> QED
    BY <2>1, <2>2, <2>3, SetMarkDecides
<1>4. CASE MarkQueued
  <2>1. SetMark(cur, msgUser, "QUEUED", loadTtl) /\ "QUEUED" \in Mark
    BY <1>4 DEF MarkQueued, Mark
  <2>2. Verdict(cur, msgUser) = "QUEUED" /\ cur \in Notices /\ msgUser \in Users
    BY <1>4, <1>a DEF MarkQueued, RoundInv, MarksAreVerdicts
  <2>3. UNCHANGED <<sent, late, missed, acked>>
    BY <1>4 DEF MarkQueued
  <2> QED
    BY <2>1, <2>2, <2>3, SetMarkDecides
<1>5. CASE SendMessage
  <2>1. CASE sent' = sent
    BY <1>5, <1>b, <2>1 DEF SendMessage
  <2>2. CASE sent' # sent
    <3>1. /\ mark[<<cur, msgUser>>] = NoMark /\ <<cur, msgUser>> \in Pairs
          /\ sent' = [sent EXCEPT ![<<cur, msgUser>>] = @ + 1]
      BY <1>5, <1>a, <1>c, <2>2 DEF SendMessage, Accepts, Pairs
    <3>2. UserMarks[<<cur, msgUser>>] = NoMark
      BY <3>1 DEF UserMarks
    <3>3. UNCHANGED <<UserMarks, Excused, acked>>
      BY <1>5 DEF SendMessage, UserMarks, Excused
    <3>4. FanOut!Hand(<<cur, msgUser>>)
      BY <3>1, <3>2, <3>3 DEF FanOut!Hand, FanOut!Open, NoMark
    <3> QED
      BY <3>1, <3>4 DEF FanOut!Next, FanOut!Pairs, Pairs
  <2> QED
    BY <2>1, <2>2
<1>6. CASE MarkDone
  <2>1. /\ acked' = acked \cup {cur} /\ cur \in Notices /\ UNCHANGED <<mark, sent, late, missed>>
        /\ pc = "work" /\ infos = {} /\ todo = {} /\ msgUser = NoUser
    BY <1>6, <1>a DEF MarkDone, LoadDone
  <2>2. ASSUME NEW u \in RecipientSet(cur)
        PROVE  UserMarks[<<cur, u>>] # NoMark \/ <<cur, u>> \in Excused
    <3>1. u \in Users
      BY <2>1, RecipientsAreUsers DEF RecipientSet
    <3>2. <<cur, u>> \in Pairs
      BY <2>1, <3>1 DEF Pairs
    <3>3. cur \in late \/ Settled(cur, u)
      BY <1>a, <2>1, <3>1 DEF RoundInv, RoundCovers, Busy, Pending, UsersAt
    <3> QED
      BY <3>2, <3>3 DEF UserMarks, Excused, Settled
  <2>3. UNCHANGED <<sent, UserMarks, Excused>>
    BY <2>1 DEF UserMarks, Excused
  <2>4. FanOut!Close(cur)
    BY <2>1, <2>2, <2>3 DEF FanOut!Close, FanOut!Open, NoMark
  <2> QED
    BY <2>1, <2>4 DEF FanOut!Next
<1> QED
  BY <1>1, <1>2, <1>3, <1>4, <1>5, <1>6, <1>b
     DEF Next, EtlStep, vars, Run, GetData, GetMalformed, BeginFresh, ComputeTtl, BeginRepeat,
         FetchBatch, YieldMessage, SendOnClosed, MarkFails, Exit, Start, Stop, Publish, Declare, Tick, Crash

\* A decision about a recipient is final, nothing is sent to him after it, and
\* a notice leaves the queue only when everybody who is not excused has one.
THEOREM ProcessImplementsFanOut ==
    ASSUME \A n \in Notices : Distinct(n)
    PROVE  Spec => ImplementsFanOut
<1>1. Init => FanOut!Init
  <2> SUFFICES ASSUME Init PROVE FanOut!Init
    OBVIOUS
  <2>1. UserMarks = [p \in Pairs |-> NoMark]
    BY DEF Init, UserMarks, Pairs, Keys, Slots
  <2>2. Excused \subseteq Pairs
    BY DEF Excused
  <2> QED
    BY <2>1, <2>2 DEF Init, FanOut!Init, FanOut!Open, FanOut!Pairs, NoMark, Pairs
<1>2. RoundInv /\ [Next]_vars => [FanOut!Next]_(FanOut!vars)
  BY FanOutStep
<1> QED
  BY <1>1, <1>2, RoundInvariant, PTL DEF Spec, ImplementsFanOut, FanOut!Spec

-----------------------------------------------------------------------------
(***************************************************************************)
(* CopiesBounded also speaks of notices that list a recipient twice, of    *)
(* which UnmarkedUnsent and PendingUnmarked say nothing: a first pass may  *)
(* send to a recipient who is marked already. It never sends more often    *)
(* than there are positions left.                                          *)
(***************************************************************************)
Times(n, u) == {i \in Positions(n) : Recipients[n][i] = u}

\* The positions of u that are not asked about yet, and his place in the answer.
Ahead(u) == {i \in todo : Recipients[cur][i] = u}
InAnswer(u) == IF u \in infos THEN 1 ELSE 0

\* Who has no mark got no message, except by a kill or as the one in hand; and
\* so when the notice lists him twice.
UnmarkedCopies ==
    \A n \in Notices, u \in Users :
        mark[<<n, u>>] = NoMark =>
            sent[<<n, u>>] <= crashes + (IF InHand(n, u) THEN 1 ELSE 0)

\* His message is about to be sent, with a ttl that RabbitMQ accepts.
InFlight(u) == IF pc = "send" /\ msgUser = u /\ loadTtl >= 0 THEN 1 ELSE 0

\* The messages to u that a round may still yield with such a ttl.
StillToYield(u) == IF Overdue(cur) THEN 0 ELSE Cardinality(Ahead(u)) + InAnswer(u)

\* What a round may still send fits under the bound.
RoundRoom ==
    Busy => \A u \in Users :
        sent[<<cur, u>>] + StillToYield(u) + InFlight(u) <= Cardinality(Times(cur, u)) + crashes

CopyInv == UnmarkedCopies /\ RoundRoom /\ CopiesBounded

LEMMA TimesFinite ==
    ASSUME NEW n \in Notices, NEW u \in Users
    PROVE  IsFiniteSet(Times(n, u)) /\ Cardinality(Times(n, u)) \in Nat
<1>1. IsFiniteSet(Positions(n))
  BY ConstantsAssumption, FS_Interval DEF Positions
<1>2. Times(n, u) \in SUBSET Positions(n)
  BY DEF Times
<1> QED
  BY <1>1, <1>2, FS_Subset, FS_CardinalityType

LEMMA AheadFinite ==
    ASSUME TypeOK, cur \in Notices, NEW u \in Users
    PROVE  /\ IsFiniteSet(Ahead(u)) /\ Cardinality(Ahead(u)) \in Nat
           /\ Ahead(u) \subseteq Times(cur, u)
           /\ \A S \in SUBSET Ahead(u) :
                  /\ IsFiniteSet(S) /\ Cardinality(S) \in Nat
                  /\ Cardinality(S) <= Cardinality(Ahead(u))
                  /\ S # Ahead(u) => Cardinality(S) < Cardinality(Ahead(u))
<1>1. Ahead(u) \in SUBSET Times(cur, u)
  BY DEF Ahead, Times, TypeOK
<1>2. IsFiniteSet(Ahead(u)) /\ Cardinality(Ahead(u)) \in Nat
  BY <1>1, TimesFinite, FS_Subset, FS_CardinalityType
<1>3. ASSUME NEW S \in SUBSET Ahead(u)
      PROVE  /\ IsFiniteSet(S) /\ Cardinality(S) \in Nat
             /\ Cardinality(S) <= Cardinality(Ahead(u))
             /\ S # Ahead(u) => Cardinality(S) < Cardinality(Ahead(u))
  <2>1. /\ IsFiniteSet(S) /\ Cardinality(S) <= Cardinality(Ahead(u))
        /\ Cardinality(S) = Cardinality(Ahead(u)) => S = Ahead(u)
    BY <1>2, FS_Subset
  <2>2. Cardinality(S) \in Nat
    BY <2>1, FS_CardinalityType
  <2> QED
    BY <1>2, <2>1, <2>2
<1> QED
  BY <1>1, <1>2, <1>3

LEMMA InitCopies == Init => CopyInv
<1> SUFFICES ASSUME Init PROVE CopyInv
  OBVIOUS
<1>1. \A n \in Notices, u \in Users : sent[<<n, u>>] = 0
  BY DEF Init, Pairs
<1>2. crashes = 0 /\ pc = "down" /\ msgUser = NoUser
  BY DEF Init
<1>3. UnmarkedCopies
  BY <1>1, <1>2, ConstantsAssumption DEF UnmarkedCopies, InHand
<1>4. RoundRoom
  BY <1>2 DEF RoundRoom, Busy
<1>5. CopiesBounded
  <2>1. \A n \in Notices, u \in Users : 0 <= Cardinality(Times(n, u)) + 0
    BY TimesFinite
  <2> QED
    BY <1>1, <1>2, <2>1 DEF CopiesBounded, Times
<1> QED
  BY <1>3, <1>4, <1>5 DEF CopyInv

\* A new round has room for all that it takes up: it takes up nobody who is
\* marked (a first pass finds no mark at all), and who is not marked was sent
\* to by kills alone.
LEMMA RoundOpens ==
    ASSUME RoundInv, CopyInv, BeginFirst \/ BeginRepeat \/ BeginExpired
    PROVE  RoundRoom'
<1>1. /\ cur \in Notices /\ cur' = cur /\ infos' = {} /\ sent' = sent /\ crashes' = crashes
      /\ msgUser = NoUser
  BY DEF BeginFirst, BeginRepeat, BeginExpired, RoundInv, ProcessShape, Busy, TypeOK, broker,
         environment
<1>0. now' = now /\ pc' = "work"
  BY DEF BeginFirst, BeginRepeat, BeginExpired, environment
<1> SUFFICES ASSUME NEW u \in Users
             PROVE  sent[<<cur, u>>]
                        + (IF Overdue(cur) THEN 0
                           ELSE Cardinality({i \in todo' : Recipients[cur][i] = u}))
                        <= Cardinality(Times(cur, u)) + crashes
  <2> SUFFICES ASSUME NEW u \in Users
               PROVE  (sent[<<cur, u>>] + StillToYield(u) + InFlight(u)
                          <= Cardinality(Times(cur, u)) + crashes)'
    BY DEF RoundRoom
  <2>1. /\ InAnswer(u)' = 0 /\ InFlight(u)' = 0 /\ (Overdue(cur)' <=> Overdue(cur))
        /\ Ahead(u)' = {i \in todo' : Recipients[cur][i] = u}
    BY <1>0, <1>1 DEF InAnswer, Ahead, InFlight, Overdue
  <2>2. Ahead(u)' \in SUBSET Times(cur, u)
    BY <1>1, <2>1 DEF RoundInv, TypeOK, Times, BeginFirst, BeginRepeat, BeginExpired, Unprocessed
  <2>3. sent[<<cur, u>>] \in Nat /\ Cardinality(Ahead(u)') \in Nat
    BY <1>1, <2>2, TimesFinite, FS_Subset, FS_CardinalityType DEF RoundInv, TypeOK, Pairs
  <2>4. StillToYield(u)' = IF Overdue(cur) THEN 0 ELSE Cardinality(Ahead(u)')
    BY <2>1, <2>3 DEF StillToYield
  <2> QED
    BY <1>1, <2>1, <2>3, <2>4
<1>2. /\ sent[<<cur, u>>] \in Nat /\ crashes \in Nat /\ Cardinality(Times(cur, u)) \in Nat
      /\ sent[<<cur, u>>] <= Cardinality(Times(cur, u)) + crashes
  BY <1>1, TimesFinite DEF RoundInv, TypeOK, Pairs, CopyInv, CopiesBounded, Times
<1>3. mark[<<cur, u>>] = NoMark => sent[<<cur, u>>] <= crashes
  <2>1. ~InHand(cur, u)
    BY <1>1, ConstantsAssumption DEF InHand
  <2> QED
    BY <1>1, <1>2, <2>1 DEF CopyInv, UnmarkedCopies
<1> SUFFICES ASSUME ~Overdue(cur)
             PROVE  sent[<<cur, u>>] + Cardinality({i \in todo' : Recipients[cur][i] = u})
                        <= Cardinality(Times(cur, u)) + crashes
  BY <1>2
<1> DEFINE A == {i \in todo' : Recipients[cur][i] = u}
<1>4. ASSUME A = {} PROVE sent[<<cur, u>>] + Cardinality(A) <= Cardinality(Times(cur, u)) + crashes
  BY <1>2, <1>4, FS_EmptySet
<1>5. ASSUME A \subseteq Times(cur, u), mark[<<cur, u>>] = NoMark
      PROVE  sent[<<cur, u>>] + Cardinality(A) <= Cardinality(Times(cur, u)) + crashes
  <2>1. Cardinality(A) <= Cardinality(Times(cur, u)) /\ Cardinality(A) \in Nat
    BY <1>1, <1>5, TimesFinite, FS_Subset, FS_CardinalityType
  <2> QED
    BY <1>2, <1>3, <1>5, <2>1
<1>6. CASE BeginExpired
  <2>1. A = {}
    BY <1>6 DEF BeginExpired, RoundInv, ProcessShape, Busy
  <2> QED
    BY <1>4, <2>1
<1>7. CASE BeginFirst \/ BeginRepeat
  <2>1. TypeOK /\ MarksOutliveNotices /\ u \in Slots /\ NoticeSlot \in Slots
    BY DEF RoundInv, Slots
  <2>2. CASE BeginFirst
    <3>1. mark[<<cur, NoticeSlot>>] = NoMark
      BY <1>1, <2>1, <2>2, UnprocessedIsUnmarked DEF BeginFirst
    <3>2. mark[<<cur, u>>] = NoMark
      BY <1>1, <2>1, <3>1 DEF MarksOutliveNotices
    <3> QED
      BY <1>5, <2>2, <3>2 DEF BeginFirst, Times
  <2>3. CASE BeginRepeat
    <3>1. A = {i \in Times(cur, u) : ~IsProcessed(cur, Recipients[cur][i])}
      BY <2>3 DEF BeginRepeat, Unprocessed, Times
    <3>2. CASE IsProcessed(cur, u)
      <4>1. A = {}
        BY <3>1, <3>2 DEF Times
      <4> QED
        BY <1>4, <4>1
    <3>3. CASE ~IsProcessed(cur, u)
      <4>1. mark[<<cur, u>>] = NoMark
        BY <1>1, <2>1, <3>3, UnprocessedIsUnmarked
      <4> QED
        BY <1>5, <3>1, <4>1
    <3> QED
      BY <3>2, <3>3
  <2> QED
    BY <1>7, <2>2, <2>3
<1> QED
  BY <1>6, <1>7

\* The bound holds again when a round sends within its room.
LEMMA RoomBounds ==
    ASSUME RoundInv, CopyInv, RoundInv', cur \in Notices, cur' = cur, Busy, RoundRoom', Busy',
           crashes' = crashes,
           \A n \in Notices, u \in Users : n # cur => sent'[<<n, u>>] = sent[<<n, u>>]
    PROVE  CopiesBounded'
<1> SUFFICES ASSUME NEW n \in Notices, NEW u \in Users
             PROVE  sent'[<<n, u>>] <= Cardinality(Times(n, u)) + crashes
  BY DEF CopiesBounded, Times
<1>1. CASE n # cur
  BY <1>1 DEF CopyInv, CopiesBounded, Times
<1>2. CASE n = cur
  <2> DEFINE A == {i \in todo' : Recipients[n][i] = u}
  <2>1. Cardinality(A) \in Nat
    <3>1. A \in SUBSET Times(n, u)
      BY <1>2 DEF RoundInv, TypeOK, Times
    <3> QED
      BY <3>1, TimesFinite, FS_Subset, FS_CardinalityType
  <2>2. /\ InAnswer(u)' \in Nat /\ sent'[<<n, u>>] \in Nat /\ InFlight(u)' \in Nat
        /\ Cardinality(Times(n, u)) \in Nat /\ crashes \in Nat
    BY TimesFinite DEF RoundInv, TypeOK, Pairs, InAnswer, InFlight
  <2>3. /\ sent'[<<n, u>>] + StillToYield(u)' + InFlight(u)' <= Cardinality(Times(n, u)) + crashes
        /\ StillToYield(u)' \in {0, Cardinality(A) + InAnswer(u)'}
    BY <1>2 DEF RoundRoom, Ahead, StillToYield
  <2> HIDE DEF A
  <2> QED
    BY <2>1, <2>2, <2>3
<1> QED
  BY <1>1, <1>2

LEMMA CopyStep ==
    ASSUME RoundInv, RoundInv', CopyInv, Next
    PROVE  CopyInv'
<1> USE DEF broker, redis, process, environment, history
<1>a. /\ crashes \in Nat /\ NoUser \notin Users
      /\ \A n \in Notices, u \in Users : sent[<<n, u>>] \in Nat
      /\ pc \in {"begin", "fresh", "dated", "work", "send", "mark"} => cur \in Notices
      /\ msgUser = NoUser <=> pc \notin {"send", "mark"}
  BY ConstantsAssumption DEF RoundInv, TypeOK, ProcessShape, Busy, Pairs
\* What a round may still send is a number, and 0 once its notice is overdue.
<1>n. ASSUME NEW u \in Users, Busy
      PROVE  /\ StillToYield(u) \in Nat /\ InFlight(u) \in Nat /\ sent[<<cur, u>>] \in Nat
             /\ Cardinality(Ahead(u)) \in Nat /\ InAnswer(u) \in Nat
             /\ Cardinality(Times(cur, u)) \in Nat /\ cur \in Notices
             /\ CopyInv => sent[<<cur, u>>] + StillToYield(u) + InFlight(u)
                              <= Cardinality(Times(cur, u)) + crashes
  <2>1. cur \in Notices
    BY <1>a, <1>n DEF Busy
  <2> QED
    BY <1>a, <1>n, <2>1, TimesFinite, AheadFinite
       DEF StillToYield, InFlight, InAnswer, CopyInv, RoundRoom, RoundInv
\* A step that ends or opens no round and sends nothing.
<1>b. ASSUME UNCHANGED <<sent, mark, crashes, cur, todo, infos, msgUser, loadTtl>>,
             pc' = pc \/ (~Busy /\ ~Busy'), now' \in {now, now + 1}
      PROVE  CopyInv'
  <2>1. UnmarkedCopies' /\ CopiesBounded'
    BY <1>b DEF CopyInv, UnmarkedCopies, CopiesBounded, InHand, Busy
  <2>2. ASSUME Busy', NEW u \in Users
        PROVE  (sent[<<cur, u>>] + StillToYield(u) + InFlight(u)
                    <= Cardinality(Times(cur, u)) + crashes)'
    <3>1. Busy /\ pc' = pc
      BY <1>b, <2>2 DEF Busy
    <3>2. Overdue(cur) => Overdue(cur)'
      <4>1. cur' = cur /\ ExpireAt[cur] \in Nat /\ now \in Nat /\ Second \in Nat
        BY <1>b, <1>a, <3>1, ConstantsAssumption DEF Busy, RoundInv, TypeOK
      <4> QED
        BY <1>b, <4>1 DEF Overdue
    <3>3. InFlight(u)' = InFlight(u) /\ Ahead(u)' = Ahead(u) /\ InAnswer(u)' = InAnswer(u)
      BY <1>b, <3>1 DEF InFlight, Ahead, InAnswer
    <3>4. StillToYield(u)' \in {0, StillToYield(u)}
      BY <3>2, <3>3 DEF StillToYield
    <3>5. sent[<<cur, u>>] + StillToYield(u)' + InFlight(u) <= Cardinality(Times(cur, u)) + crashes
      BY <1>a, <1>n, <3>1, <3>4
    <3> QED
      BY <1>b, <3>3, <3>5
  <2> QED
    BY <2>1, <2>2 DEF CopyInv, RoundRoom
\* A step after which no round is open and no message is in hand.
<1>c. ASSUME UNCHANGED <<sent, mark>>, ~Busy', crashes' \in {crashes, crashes + 1},
             \A n \in Notices, u \in Users : InHand(n, u) => crashes' = crashes + 1
      PROVE  CopyInv'
  <2>1. UnmarkedCopies'
    BY <1>a, <1>c DEF CopyInv, UnmarkedCopies
  <2>2. ASSUME NEW n \in Notices, NEW u \in Users
        PROVE  sent'[<<n, u>>] <= Cardinality(Times(n, u)) + crashes'
    BY <1>a, <1>c, TimesFinite DEF CopyInv, CopiesBounded, Times
  <2>3. CopiesBounded'
    BY <2>2 DEF CopiesBounded, Times
  <2> QED
    BY <1>c, <2>1, <2>3 DEF CopyInv, RoundRoom
<1>d. ASSUME pc # "mark", NEW n, NEW u \in Users PROVE ~InHand(n, u)
  BY <1>a, <1>d DEF InHand
\* A step of an open round that asks about recipients, or decides about one.
<1>e. ASSUME UNCHANGED <<sent, crashes, cur, now>>, pc \in {"work", "mark"}, pc' = "work",
             \A k \in Keys : mark'[k] = mark[k] \/ mark'[k] # NoMark,
             todo' \subseteq todo,
             \A u \in infos' : u \in infos \/ \E i \in todo \ todo' : Recipients[cur][i] = u,
             \A n \in Notices, u \in Users : InHand(n, u) => InHand(n, u)' \/ mark'[<<n, u>>] # NoMark
      PROVE  CopyInv'
  <2>1. UnmarkedCopies'
    <3> SUFFICES ASSUME NEW n \in Notices, NEW u \in Users, mark'[<<n, u>>] = NoMark
                 PROVE  sent[<<n, u>>] <= crashes + (IF InHand(n, u)' THEN 1 ELSE 0)
      BY <1>e DEF UnmarkedCopies
    <3>1. mark[<<n, u>>] = NoMark
      BY <1>e DEF Keys, Slots
    <3> QED
      BY <1>a, <1>e, <3>1 DEF CopyInv, UnmarkedCopies
  <2>2. RoundRoom'
    <3> SUFFICES ASSUME NEW u \in Users
                 PROVE  (sent[<<cur, u>>] + StillToYield(u) + InFlight(u)
                            <= Cardinality(Times(cur, u)) + crashes)'
      BY DEF RoundRoom
    <3> DEFINE A == {i \in todo' : Recipients[cur][i] = u}
    <3>1. A \subseteq Ahead(u)
      BY <1>e DEF Ahead
    <3>2. u \in infos' /\ u \notin infos => A # Ahead(u)
      BY <1>e DEF Ahead
    <3>3. cur \in Notices
      BY <1>a, <1>e
    <3>4. /\ Cardinality(A) \in Nat /\ Cardinality(Ahead(u)) \in Nat
          /\ Cardinality(A) <= Cardinality(Ahead(u))
          /\ A # Ahead(u) => Cardinality(A) < Cardinality(Ahead(u))
      BY <3>1, <3>3, AheadFinite DEF RoundInv
    <3>5. Cardinality(A) + InAnswer(u)' <= Cardinality(Ahead(u)) + InAnswer(u)
      <4> HIDE DEF A
      <4> QED
        BY <3>2, <3>4 DEF InAnswer
    <3>6. InFlight(u)' = 0 /\ (Overdue(cur)' <=> Overdue(cur)) /\ Ahead(u)' = A /\ InAnswer(u)' \in Nat
      BY <1>e DEF InFlight, Overdue, Ahead, InAnswer
    <3>7. StillToYield(u)' <= StillToYield(u) /\ StillToYield(u)' \in Nat
      <4> HIDE DEF A
      <4> QED
        BY <3>4, <3>5, <3>6 DEF StillToYield, InAnswer
    <3>8. /\ sent[<<cur, u>>] + StillToYield(u) + InFlight(u) <= Cardinality(Times(cur, u)) + crashes
          /\ StillToYield(u) \in Nat /\ InFlight(u) \in Nat /\ sent[<<cur, u>>] \in Nat
          /\ Cardinality(Times(cur, u)) \in Nat
      BY <1>e, <1>n DEF Busy
    <3>9. sent[<<cur, u>>] + StillToYield(u)' + 0 <= Cardinality(Times(cur, u)) + crashes
      BY <1>a, <3>7, <3>8
    <3> QED
      BY <1>e, <3>6, <3>9
  <2> QED
    BY <1>e, <2>1, <2>2 DEF CopyInv, CopiesBounded
<1>1. CASE Run \/ Start \/ Stop \/ Tick \/ BeginFresh \/ ComputeTtl
  BY <1>1, <1>b DEF Run, Start, Stop, Tick, BeginFresh, ComputeTtl, Busy
<1>2. CASE GetData
  BY <1>2, <1>c, <1>d DEF GetData, Busy
<1>3. CASE GetMalformed \/ MarkDone \/ Exit
  BY <1>3, <1>c, <1>d DEF GetMalformed, MarkDone, Exit, Die, Busy
<1>4. CASE BeginExpired \/ BeginFirst \/ BeginRepeat
  <2>1. RoundRoom'
    BY <1>4, RoundOpens
  <2>2. UNCHANGED <<sent, crashes, cur, msgUser>> /\ pc \in {"begin", "dated"}
        /\ \A n \in Notices, u \in Users : mark'[<<n, u>>] = mark[<<n, u>>]
    BY <1>4, <1>a, ConstantsAssumption DEF BeginExpired, BeginFirst, BeginRepeat, SetMark, RoundInv,
       TypeOK, Keys, Slots
  <2>3. UnmarkedCopies'
    <3>1. \A n \in Notices, u \in Users : ~InHand(n, u)
      BY <1>d, <2>2
    <3> QED
      BY <1>a, <2>2, <3>1 DEF CopyInv, UnmarkedCopies
  <2>4. CopiesBounded'
    BY <2>2 DEF CopyInv, CopiesBounded
  <2> QED
    BY <2>1, <2>3, <2>4 DEF CopyInv
<1>5. CASE FetchBatch \/ FetchFails
  <2>1. /\ UNCHANGED <<sent, crashes, cur, mark, msgUser, loadTtl, now>> /\ pc = "work" /\ pc' = "work"
        /\ todo' \subseteq todo
        /\ \A u \in infos' : u \in infos \/ \E i \in todo \ todo' : Recipients[cur][i] = u
    <3>1. CASE FetchBatch
      BY <3>1 DEF FetchBatch, UsersAt
    <3>2. CASE FetchFails
      BY <3>2 DEF FetchFails
    <3> QED
      BY <1>5, <3>1, <3>2
  <2> QED
    BY <1>e, <2>1 DEF Busy, InHand
<1>6. ASSUME NEW u \in Users, RejectUser(u) \/ RejectNoData(u) PROVE CopyInv'
  <2>1. /\ UNCHANGED <<sent, crashes, cur, msgUser, loadTtl, todo, now>> /\ pc = "work" /\ pc' = "work"
        /\ infos' \subseteq infos
        /\ \E m \in Mark : SetMark(cur, u, m, ttl)
    BY <1>6 DEF RejectUser, RejectNoData, Mark
  <2>2. \A k \in Keys : mark'[k] = mark[k] \/ mark'[k] # NoMark
    BY <2>1 DEF SetMark, RoundInv, TypeOK, Mark, NoMark
  <2> QED
    BY <1>e, <2>1, <2>2 DEF Busy, InHand
<1>7. CASE SendMessage
  <2>1. /\ UNCHANGED <<crashes, cur, todo, infos, mark, msgUser, loadTtl, now>>
        /\ pc = "send" /\ pc' = "mark" /\ msgUser \in Users /\ cur \in Notices
        /\ sent' = IF Accepts(cur, loadTtl) THEN [sent EXCEPT ![<<cur, msgUser>>] = @ + 1] ELSE sent
    BY <1>7, <1>a DEF SendMessage, RoundInv, TypeOK
  <2>2. /\ \A n \in Notices, v \in Users : ~(n = cur /\ v = msgUser) => sent'[<<n, v>>] = sent[<<n, v>>]
        /\ sent'[<<cur, msgUser>>] = sent[<<cur, msgUser>>]
           \/ (sent'[<<cur, msgUser>>] = sent[<<cur, msgUser>>] + 1 /\ loadTtl >= 0)
    BY <2>1 DEF RoundInv, TypeOK, Pairs, Accepts
  <2>3. UnmarkedCopies'
    <3> SUFFICES ASSUME NEW n \in Notices, NEW v \in Users, mark[<<n, v>>] = NoMark
                 PROVE  sent'[<<n, v>>] <= crashes + (IF InHand(n, v)' THEN 1 ELSE 0)
      BY <2>1 DEF UnmarkedCopies
    <3>1. sent[<<n, v>>] <= crashes /\ sent[<<n, v>>] \in Nat
      BY <1>a, <1>d, <2>1 DEF CopyInv, UnmarkedCopies
    <3>2. CASE n = cur /\ v = msgUser
      <4>1. InHand(n, v)' <=> loadTtl >= 0
        BY <2>1, <3>2 DEF InHand
      <4> QED
        BY <1>a, <2>2, <3>1, <3>2, <4>1
    <3>3. CASE ~(n = cur /\ v = msgUser)
      <4>1. sent'[<<n, v>>] = sent[<<n, v>>]
        BY <2>2, <3>3
      <4> QED
        BY <1>a, <3>1, <4>1
    <3> QED
      BY <3>2, <3>3
  <2>4. RoundRoom'
    <3> SUFFICES ASSUME NEW v \in Users
                 PROVE  (sent[<<cur, v>>] + StillToYield(v) + InFlight(v)
                            <= Cardinality(Times(cur, v)) + crashes)'
      BY DEF RoundRoom
    <3>1. /\ InFlight(v)' = 0 /\ (Overdue(cur)' <=> Overdue(cur)) /\ Ahead(v)' = Ahead(v)
          /\ InAnswer(v)' = InAnswer(v)
      BY <2>1 DEF InFlight, Overdue, Ahead, InAnswer
    <3>2. StillToYield(v)' = StillToYield(v)
      BY <3>1 DEF StillToYield
    <3>3. sent'[<<cur, v>>] <= sent[<<cur, v>>] + InFlight(v) /\ sent'[<<cur, v>>] \in Nat
      BY <1>a, <2>1, <2>2 DEF InFlight
    <3>4. sent'[<<cur, v>>] + StillToYield(v) + 0 <= Cardinality(Times(cur, v)) + crashes
      BY <1>a, <1>n, <2>1, <3>3 DEF Busy
    <3> QED
      BY <2>1, <3>1, <3>2, <3>4
  <2>5. CopiesBounded'
    BY <2>1, <2>2, <2>4, RoomBounds DEF Busy
  <2> QED
    BY <2>3, <2>4, <2>5 DEF CopyInv
<1>8. CASE SendOnClosed
  BY <1>8, <1>c, <1>d DEF SendOnClosed, Die, Busy
<1>9. CASE MarkQueued
  <2>1. /\ UNCHANGED <<sent, crashes, cur, todo, infos, now>> /\ pc = "mark" /\ pc' = "work"
        /\ mark' = [mark EXCEPT ![<<cur, msgUser>>] = "QUEUED"]
    BY <1>9 DEF MarkQueued, SetMark
  <2>2. cur \in Notices /\ msgUser \in Users /\ mark \in [Keys -> Mark \cup {NoMark}]
    BY <1>a, <2>1 DEF RoundInv, TypeOK
  <2>3. /\ \A k \in Keys : mark'[k] = mark[k] \/ mark'[k] # NoMark
        /\ mark'[<<cur, msgUser>>] # NoMark
    BY <2>1, <2>2 DEF NoMark, Keys, Slots
  <2> QED
    BY <1>e, <2>1, <2>3 DEF Busy, InHand
<1>10. CASE MarkFails
  <2>1. pc = "mark" => loadTtl < 0
    BY <1>10, RefusedIsNegative DEF MarkFails, MarkRefused, RoundInv, TypeOK
  <2>2. \A n \in Notices, u \in Users : ~InHand(n, u)
    BY <2>1 DEF InHand, RoundInv, TypeOK
  <2> QED
    BY <1>10, <1>c, <2>2 DEF MarkFails, Die, Busy
<1>11. ASSUME NEW n \in Notices, Publish(n) PROVE CopyInv'
  BY <1>11, <1>b DEF Publish, Busy
<1>12. ASSUME NEW t \in Consumed, Declare(t) PROVE CopyInv'
  BY <1>12, <1>b DEF Declare, Busy
<1>13. CASE Crash
  BY <1>13, <1>c DEF Crash, Die, Busy
<1>14. ASSUME NEW u \in Users, YieldMessage(u) PROVE CopyInv'
  <2>1. /\ UNCHANGED <<crashes, cur, todo, mark, sent, now>> /\ pc = "work" /\ pc' = "send"
        /\ u \in infos /\ infos' = infos \ {u} /\ msgUser' = u /\ cur \in Notices
        /\ loadTtl' >= 0 => ~Overdue(cur)
    BY <1>14, <1>a, TtlBounds DEF YieldMessage, RoundInv
  <2>2. UnmarkedCopies' /\ CopiesBounded'
    BY <2>1 DEF CopyInv, UnmarkedCopies, CopiesBounded, InHand
  <2>3. RoundRoom'
    <3> SUFFICES ASSUME NEW v \in Users
                 PROVE  (sent[<<cur, v>>] + StillToYield(v) + InFlight(v)
                            <= Cardinality(Times(cur, v)) + crashes)'
      BY DEF RoundRoom
    <3>1. /\ Overdue(cur)' <=> Overdue(cur)
          /\ Ahead(v)' = Ahead(v)
          /\ InFlight(v) = 0
          /\ InAnswer(v)' + InFlight(v)' <= InAnswer(v) \/ (Overdue(cur) /\ InFlight(v)' = 0)
          /\ InAnswer(v)' \in Nat /\ InFlight(v)' \in Nat
      BY <2>1 DEF InFlight, Overdue, Ahead, InAnswer
    <3>2. StillToYield(v)' + InFlight(v)' <= StillToYield(v) /\ StillToYield(v)' \in Nat
      <4>1. InAnswer(v) \in Nat /\ Cardinality(Ahead(v)) \in Nat
        BY <1>n, <2>1 DEF Busy
      <4>2. CASE Overdue(cur)
        <5>1. InFlight(v)' = 0
          BY <2>1, <4>2 DEF InFlight
        <5> QED
          BY <3>1, <4>2, <5>1 DEF StillToYield
      <4>3. CASE ~Overdue(cur)
        <5>1. /\ StillToYield(v) = Cardinality(Ahead(v)) + InAnswer(v)
              /\ StillToYield(v)' = Cardinality(Ahead(v)) + InAnswer(v)'
          BY <3>1, <4>3 DEF StillToYield
        <5> QED
          BY <3>1, <4>1, <4>3, <5>1
      <4> QED
        BY <4>2, <4>3
    <3>3. sent[<<cur, v>>] + StillToYield(v)' + InFlight(v)' <= Cardinality(Times(cur, v)) + crashes
      BY <1>a, <1>n, <2>1, <3>1, <3>2 DEF Busy
    <3> QED
      BY <2>1, <3>3
  <2> QED
    BY <2>2, <2>3 DEF CopyInv
<1> QED
  BY <1>1, <1>2, <1>3, <1>4, <1>5, <1>6, <1>7, <1>8, <1>9, <1>10, <1>11, <1>12, <1>13, <1>14
     DEF Next, EtlStep

\* Nobody gets more messages than the notice lists him and kills allow,
\* whatever batches his positions fall into. (etl.py:121-132)
THEOREM CopiesAreListed == Spec => []CopiesBounded
<1>1. RoundInv /\ RoundInv' /\ CopyInv /\ [Next]_vars => CopyInv'
  <2>1. ASSUME CopyInv, UNCHANGED vars PROVE CopyInv'
    BY <2>1 DEF vars, broker, redis, process, environment, CopyInv, UnmarkedCopies, RoundRoom,
       CopiesBounded, InHand, Ahead, InAnswer, StillToYield, InFlight, Overdue, Busy
  <2> QED
    BY <2>1, CopyStep
<1>2. CopyInv => CopiesBounded
  BY DEF CopyInv
<1> QED
  BY <1>1, <1>2, InitCopies, RoundInvariant, PTL DEF Spec

=============================================================================
