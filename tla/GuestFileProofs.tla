---------------------------- MODULE GuestFileProofs ----------------------------
(***************************************************************************)
(* What the polling loop of asyncTraceSaveFunc knows of the guest's file,  *)
(* for every size of a trace and every number of polls.  The lemmas are    *)
(* about a file f and the loop's variables p, and serve both builds.       *)
(***************************************************************************)
EXTENDS GuestFile, TLAPS

\* The polls that find an unfinished file unchanged are too few to be taken
\* for a stable size.  With the source's kMinItersForGuestFileSize = 2 this is
\* a transfer that grows from poll to poll, with one exception at most.
GrowsInTime == (MaxStall - 1) * (GuestSize - 1) < kMinItersForGuestFileSize

\* The loop does not give up on a steady transfer.
FitsInPolls == MaxStall * GuestSize + kMinItersForGuestFileSize < kMaxIters

\* A transfer that has begun has made a file.
Begun(f) == f.sess > 0 => f.size >= 0

\* The polls that counted towards a stable size, when the last one to find a
\* new size found curr: each smaller size was seen MaxStall times at most.
EqualPolls(f, p) ==
    IF p.curr = 0 THEN 0
    ELSE (MaxStall - 1) * (p.curr - 1)
         + (IF p.curr = f.size THEN f.stall ELSE MaxStall) - 1

\* The polls of a steady transfer so far.
PollsSoFar(f, p) ==
    IF f.size < GuestSize THEN MaxStall * f.size + f.stall
    ELSE MaxStall * GuestSize + (IF p.curr = GuestSize THEN 1 + p.good ELSE 0)

\* The loop waits for the file of session s and has met a steady transfer.
SteadyLoop(f, s, p) ==
    IF f.sess # s THEN p = FirstPoll
    ELSE /\ p.curr >= 0
         /\ p.curr <= f.size
         /\ p.i <= PollsSoFar(f, p)
         /\ f.size < GuestSize => f.stall <= MaxStall
         /\ p.curr < GuestSize => p.good <= EqualPolls(f, p)
         /\ p.curr = f.size /\ p.curr > 0 => f.stall >= 1

-----------------------------------------------------------------------------
\* One iteration of the polling loop keeps the types of its variables.
LEMMA PolledType ==
    ASSUME NEW p \in Polls, NEW size \in Missing .. GuestSize,
           ~Stable(p), p.i < kMaxIters
    PROVE  Polled(p, size) \in Polls
  <1> DEFINE i == p.i + 1
             good == p.good + 1
  <1>1. i \in 0 .. kMaxIters /\ good \in 0 .. kMinItersForGuestFileSize
    BY GuestFileAssumption DEF Polls, Stable
  <1>2. \/ Polled(p, size) = [p EXCEPT !.i = i]
        \/ Polled(p, size) = [p EXCEPT !.i = i, !.curr = size]
        \/ Polled(p, size) = [p EXCEPT !.i = i, !.good = good]
    BY DEF Polled
  <1> HIDE DEF i, good
  <1> QED BY <1>1, <1>2 DEF Polls

\* The first poll of the loop.
LEMMA FirstPollType == FirstPoll \in Polls /\ ~Stable(FirstPoll)
  BY GuestFileAssumption DEF FirstPoll, Polls, Missing, Stable

\* Products of natural numbers.
LEMMA Product ==
    ASSUME NEW k \in Nat, NEW a \in Nat
    PROVE  k * a \in Nat /\ k * (a + 1) = k * a + k
  OBVIOUS

\* Products grow with a factor.
LEMMA ProductGrows ==
    ASSUME NEW k \in Nat, NEW a \in Nat, NEW b \in Nat, a <= b
    PROVE  k * a <= k * b
  <1> DEFINE c == b - a
  <1>1. c \in Nat /\ b = a + c
    OBVIOUS
  <1>2. k * b = k * a + k * c /\ k * c \in Nat /\ k * a \in Nat
    BY <1>1
  <1> QED BY <1>2

\* The bound on equal polls, before and after the next size is met.
LEMMA EqualPollsBound ==
    ASSUME NEW f \in GuestFileType, NEW p \in Polls,
           p.curr >= 0, p.curr < f.size
    PROVE  /\ EqualPolls(f, p) \in Nat
           /\ EqualPolls(f, p) <= (MaxStall - 1) * (f.size - 1)
  <1> DEFINE K == MaxStall - 1
             c == p.curr
             d == f.size - 1
  <1>1. K \in Nat /\ c \in Nat /\ d \in Nat /\ c <= d /\ c # f.size
    BY GuestFileAssumption DEF GuestFileType, Polls, Missing
  <1>2. K * d \in Nat /\ K * c <= K * d /\ K * c \in Nat
    BY <1>1, Product, ProductGrows
  <1>3. CASE c = 0
    BY <1>2, <1>3 DEF EqualPolls
  <1>4. CASE c # 0
    <2>1. c - 1 \in Nat /\ (c - 1) + 1 = c
      BY <1>1, <1>4
    <2>2. K * c = K * (c - 1) + K
      BY <1>1, <2>1, Product
    <2>3. K * (c - 1) \in Nat
      BY <1>1, <2>1, Product
    <2>4. EqualPolls(f, p) = K * (c - 1) + MaxStall - 1
      BY <1>1, <1>4 DEF EqualPolls
    <2>5. EqualPolls(f, p) = K * c
      BY <2>2, <2>3, <2>4, GuestFileAssumption
    <2> QED BY <1>2, <2>5
  <1> QED BY <1>3, <1>4

\* A poll that meets the steady transfer of session s: what the loop knows is
\* kept, and a size is taken for stable only when the file is complete.
LEMMA SteadyPoll ==
    ASSUME NEW f \in GuestFileType, NEW s \in Nat, NEW p \in Polls,
           NEW g, g = [f EXCEPT !.stall = IF @ < MaxStall THEN @ + 1 ELSE @],
           NEW q, q = Polled(p, f.size),
           s > 0, Begun(f), SteadyLoop(f, s, p), ~Stable(p), p.i < kMaxIters,
           f.sess = s, f.size \in 0 .. GuestSize - 1 => f.stall < MaxStall
    PROVE  /\ SteadyLoop(g, s, q)
           /\ GrowsInTime /\ Stable(q) => f.size = GuestSize
  <1> DEFINE K == MaxStall - 1
             stall == IF f.stall < MaxStall THEN f.stall + 1 ELSE f.stall
  <1>0. /\ f.size \in Nat /\ f.size <= GuestSize /\ f.stall \in Nat
        /\ stall \in Nat /\ stall >= 1
        /\ f.size < GuestSize => stall = f.stall + 1 /\ stall <= MaxStall
    BY GuestFileAssumption DEF Begun, GuestFileType, Missing
  <1>1. /\ g.sess = s /\ g.size = f.size /\ g.stall = stall
        /\ g \in GuestFileType
    BY <1>0 DEF GuestFileType
  <1>2. /\ p.curr \in Nat /\ p.i \in Nat /\ p.good \in Nat
        /\ p.curr <= f.size /\ p.i <= PollsSoFar(f, p)
        /\ p.curr < GuestSize => p.good <= EqualPolls(f, p)
        /\ p.curr = f.size /\ p.curr > 0 => f.stall >= 1
    BY DEF SteadyLoop, Polls, Missing
  <1>3. /\ MaxStall * f.size \in Nat
        /\ f.size < GuestSize =>
              MaxStall * f.size + MaxStall <= MaxStall * GuestSize
        /\ MaxStall * GuestSize \in Nat
    <2>1. MaxStall * f.size \in Nat /\ MaxStall * GuestSize \in Nat
      BY <1>0, GuestFileAssumption
    <2>2. ASSUME f.size < GuestSize
          PROVE  MaxStall * f.size + MaxStall <= MaxStall * GuestSize
      <3>1. MaxStall * (f.size + 1) <= MaxStall * GuestSize
        <4>1. f.size + 1 \in Nat /\ f.size + 1 <= GuestSize
          BY <1>0, <2>2, GuestFileAssumption
        <4> QED BY <4>1, ProductGrows, GuestFileAssumption
      <3>2. MaxStall * (f.size + 1) = MaxStall * f.size + MaxStall
        BY <1>0, Product, GuestFileAssumption
      <3> QED BY <3>1, <3>2
    <2> QED BY <2>1, <2>2
  <1>4. /\ f.size > 0 => K * (f.size - 1) \in Nat
        /\ f.size > 0 /\ f.size < GuestSize =>
              K * (f.size - 1) + K <= K * (GuestSize - 1)
    <2>1. ASSUME f.size > 0 PROVE K * (f.size - 1) \in Nat
      <3>1. K \in Nat /\ f.size - 1 \in Nat
        BY <1>0, <2>1, GuestFileAssumption
      <3> QED BY <3>1, Product
    <2>2. ASSUME f.size > 0, f.size < GuestSize
          PROVE  K * (f.size - 1) + K <= K * (GuestSize - 1)
      <3> DEFINE a == f.size - 1
      <3>1. a \in Nat /\ a + 1 <= GuestSize - 1 /\ GuestSize - 1 \in Nat /\ K \in Nat
        BY <1>0, <2>2, GuestFileAssumption
      <3> HIDE DEF a, K
      <3>2. K * (a + 1) <= K * (GuestSize - 1) /\ K * (a + 1) = K * a + K
        <4>1. a + 1 \in Nat
          BY <3>1
        <4> QED BY <3>1, <4>1, Product, ProductGrows
      <3> QED BY <3>2 DEF a
    <2> QED BY <2>1, <2>2
  <1> HIDE DEF K
  <1>5. CASE f.size = 0
    <2>1. q = [p EXCEPT !.i = p.i + 1]
      BY <1>5 DEF Polled
    <2>2. q.i = p.i + 1 /\ q.curr = p.curr /\ q.good = p.good
      BY <2>1 DEF Polls
    <2>3. p.curr = 0
      BY <1>2, <1>5
    <2>4. q.i <= PollsSoFar(g, q)
      BY <1>0, <1>1, <1>2, <1>3, <1>5, <2>2, GuestFileAssumption DEF PollsSoFar
    <2>5. q.good <= EqualPolls(g, q)
      BY <1>2, <2>2, <2>3, GuestFileAssumption DEF EqualPolls
    <2>6. ~Stable(q)
      BY <2>2 DEF Stable
    <2> QED BY <1>0, <1>1, <1>5, <2>2, <2>3, <2>4, <2>5, <2>6 DEF SteadyLoop
  <1>6. CASE f.size # 0 /\ f.size # p.curr
    <2>1. q = [p EXCEPT !.i = p.i + 1, !.curr = f.size]
      BY <1>6 DEF Polled
    <2>2. q.i = p.i + 1 /\ q.curr = f.size /\ q.good = p.good
      BY <2>1 DEF Polls
    <2>3. p.curr < f.size /\ p.curr < GuestSize
      BY <1>0, <1>2, <1>6, GuestFileAssumption
    <2>4. q.i <= PollsSoFar(g, q)
      BY <1>0, <1>1, <1>2, <1>3, <2>2, <2>3, GuestFileAssumption DEF PollsSoFar
    <2>5. EqualPolls(f, p) <= K * (f.size - 1) /\ EqualPolls(f, p) \in Nat
      BY <1>2, <2>3, EqualPollsBound DEF K
    <2>6. EqualPolls(g, q) = K * (f.size - 1) + stall - 1
      BY <1>1, <1>6, <2>2 DEF EqualPolls, K
    <2>7. q.good <= EqualPolls(g, q)
      BY <1>0, <1>2, <1>4, <1>6, <2>2, <2>3, <2>5, <2>6
    <2>8. ~Stable(q)
      BY <2>2 DEF Stable
    <2> QED BY <1>0, <1>1, <2>2, <2>4, <2>7, <2>8 DEF SteadyLoop
  <1>7. CASE f.size # 0 /\ f.size = p.curr
    <2>1. q = [p EXCEPT !.i = p.i + 1, !.good = p.good + 1]
      BY <1>7 DEF Polled
    <2>2. q.i = p.i + 1 /\ q.curr = f.size /\ q.good = p.good + 1
      BY <1>7, <2>1 DEF Polls
    <2>3. q.i <= PollsSoFar(g, q)
      BY <1>0, <1>1, <1>2, <1>3, <1>7, <2>2, GuestFileAssumption DEF PollsSoFar
    <2>4. /\ EqualPolls(f, p) = K * (f.size - 1) + f.stall - 1
          /\ EqualPolls(g, q) = K * (f.size - 1) + stall - 1
      BY <1>1, <1>7, <2>2 DEF EqualPolls, K
    <2>5. f.size < GuestSize => q.good <= EqualPolls(g, q)
      BY <1>0, <1>2, <1>4, <1>7, <2>2, <2>4
    <2>6. ASSUME GrowsInTime, Stable(q), f.size < GuestSize
          PROVE  FALSE
      <3>1. q.good <= K * (f.size - 1) + MaxStall - 1
        BY <1>0, <1>2, <1>4, <1>7, <2>2, <2>4, <2>5, <2>6, GuestFileAssumption
      <3>2. q.good <= K * (GuestSize - 1)
        BY <1>0, <1>2, <1>4, <1>7, <2>2, <2>6, <3>1, GuestFileAssumption DEF K
      <3> QED BY <2>6, <3>2, GuestFileAssumption DEF GrowsInTime, Stable, K
    <2>7. GrowsInTime /\ Stable(q) => f.size = GuestSize
      BY <1>0, <2>6, GuestFileAssumption
    <2>8. q.curr >= 0 /\ q.curr <= g.size /\ g.stall >= 1
      BY <1>0, <1>1, <2>2
    <2> QED BY <1>0, <1>1, <2>2, <2>3, <2>5, <2>7, <2>8 DEF SteadyLoop
  <1> QED BY <1>5, <1>6, <1>7

\* The loop does not run out of polls before it has found a stable size.
LEMMA SteadyLoopGoesOn ==
    ASSUME NEW f \in GuestFileType, NEW s \in Nat, NEW p \in Polls,
           s > 0, Begun(f), SteadyLoop(f, s, p), FitsInPolls
    PROVE  ~GaveUp(p)
  <1> SUFFICES ASSUME GaveUp(p) PROVE FALSE
    OBVIOUS
  <1>1. p.i = kMaxIters /\ p.good < kMinItersForGuestFileSize /\ p.good \in Nat
    BY GuestFileAssumption DEF GaveUp, Stable, Polls
  <1>2. MaxStall * GuestSize \in Nat
    BY GuestFileAssumption
  <1>3. CASE f.sess # s
    BY <1>1, <1>2, <1>3, GuestFileAssumption DEF SteadyLoop, FirstPoll, FitsInPolls
  <1>4. CASE f.sess = s
    <2>1. f.size \in Nat /\ f.stall \in Nat /\ p.i <= PollsSoFar(f, p)
      BY <1>4 DEF Begun, GuestFileType, Missing, SteadyLoop
    <2>2. CASE f.size < GuestSize
      <3>1. f.stall <= MaxStall /\ p.i <= MaxStall * f.size + f.stall
        BY <1>4, <2>1, <2>2 DEF SteadyLoop, PollsSoFar
      <3>2. MaxStall * (f.size + 1) <= MaxStall * GuestSize
        <4>1. f.size + 1 \in Nat /\ f.size + 1 <= GuestSize
          BY <2>1, <2>2, GuestFileAssumption
        <4> QED BY <4>1, ProductGrows, GuestFileAssumption
      <3>3. MaxStall * (f.size + 1) = MaxStall * f.size + MaxStall
        BY <2>1, Product, GuestFileAssumption
      <3>4. MaxStall * f.size \in Nat
        BY <2>1, Product, GuestFileAssumption
      <3> QED BY <1>1, <1>2, <2>1, <3>1, <3>2, <3>3, <3>4, GuestFileAssumption
              DEF FitsInPolls
    <2>3. CASE ~(f.size < GuestSize)
      <3>1. \/ PollsSoFar(f, p) = MaxStall * GuestSize + (1 + p.good)
            \/ PollsSoFar(f, p) = MaxStall * GuestSize + 0
        BY <2>3 DEF PollsSoFar
      <3> QED BY <1>1, <1>2, <2>1, <3>1, GuestFileAssumption DEF FitsInPolls
    <2> QED BY <2>2, <2>3
  <1> QED BY <1>3, <1>4

\* What the guest does to the file keeps what the loop knows: it begins the
\* transfer of session s, or goes on with the one it is at.
LEMMA SteadyTransfer ==
    ASSUME NEW f \in GuestFileType, NEW s \in Nat, NEW p \in Polls, NEW g,
           s > 0, Begun(f), f.sess <= s, SteadyLoop(f, s, p),
           \/ /\ f.sess < s
              /\ g = [sess |-> s, size |-> 0, stall |-> 0]
           \/ /\ f.size \in 0 .. GuestSize - 1
              /\ g = [f EXCEPT !.size = @ + 1, !.stall = 0]
    PROVE  SteadyLoop(g, s, p)
  <1>1. CASE f.sess < s /\ g = [sess |-> s, size |-> 0, stall |-> 0]
    <2>1. p.i = 0 /\ p.curr = 0 /\ p.good = 0
      BY <1>1 DEF SteadyLoop, FirstPoll, GuestFileType
    <2>2. MaxStall * 0 = 0
      BY GuestFileAssumption
    <2> QED BY <1>1, <2>1, <2>2, GuestFileAssumption
            DEF SteadyLoop, PollsSoFar, EqualPolls
  <1>2. CASE /\ f.size \in 0 .. GuestSize - 1
             /\ g = [f EXCEPT !.size = @ + 1, !.stall = 0]
    <2>1. g.sess = f.sess /\ g.size = f.size + 1 /\ g.stall = 0
      BY <1>2 DEF GuestFileType
    <2>2. CASE f.sess # s
      BY <2>1, <2>2 DEF SteadyLoop
    <2>3. CASE f.sess = s
      <3>1. /\ f.size \in Nat /\ f.stall \in Nat /\ f.stall <= MaxStall
            /\ p.curr \in Nat /\ p.curr <= f.size /\ p.good \in Nat /\ p.i \in Nat
            /\ p.i <= MaxStall * f.size + f.stall
            /\ p.good <= EqualPolls(f, p)
        BY <1>2, <2>3, GuestFileAssumption
        DEF SteadyLoop, PollsSoFar, GuestFileType, Polls, Missing
      <3>2. p.i <= MaxStall * (f.size + 1)
        <4>1. MaxStall * (f.size + 1) = MaxStall * f.size + MaxStall
          BY <3>1, Product, GuestFileAssumption
        <4>2. MaxStall * f.size \in Nat
          BY <3>1, Product, GuestFileAssumption
        <4> QED BY <3>1, <4>1, <4>2, GuestFileAssumption
      <3>3. p.i <= PollsSoFar(g, p)
        <4>0. MaxStall * (f.size + 1) \in Nat
          BY <3>1, GuestFileAssumption
        <4>1. CASE g.size < GuestSize
          <5>1. PollsSoFar(g, p) = MaxStall * (f.size + 1) + 0
            BY <2>1, <4>1 DEF PollsSoFar
          <5> QED BY <3>2, <4>0, <5>1
        <4>2. CASE g.size = GuestSize
          <5>1. p.curr # GuestSize
            BY <1>2, <3>1, GuestFileAssumption
          <5>2. PollsSoFar(g, p) = MaxStall * (f.size + 1) + 0
            BY <2>1, <4>2, <5>1, GuestFileAssumption DEF PollsSoFar
          <5> QED BY <3>2, <4>0, <5>2
        <4>3. g.size < GuestSize \/ g.size = GuestSize
          BY <1>2, <2>1, <3>1, GuestFileAssumption
        <4> QED BY <4>1, <4>2, <4>3
      <3>4. p.good <= EqualPolls(g, p)
        <4>1. CASE p.curr = 0
          BY <3>1, <4>1 DEF EqualPolls
        <4>2. CASE p.curr # 0
          <5>1. (MaxStall - 1) * (p.curr - 1) \in Nat
            <6>1. MaxStall - 1 \in Nat /\ p.curr - 1 \in Nat
              BY <3>1, <4>2, GuestFileAssumption
            <6> QED BY <6>1, Product
          <5>2. EqualPolls(g, p) = (MaxStall - 1) * (p.curr - 1) + MaxStall - 1
            BY <2>1, <3>1, <4>2 DEF EqualPolls
          <5>3. \/ EqualPolls(f, p) = (MaxStall - 1) * (p.curr - 1) + f.stall - 1
                \/ EqualPolls(f, p) = (MaxStall - 1) * (p.curr - 1) + MaxStall - 1
            BY <4>2 DEF EqualPolls
          <5> HIDE DEF EqualPolls
          <5> QED BY <3>1, <5>1, <5>2, <5>3, GuestFileAssumption
        <4> QED BY <4>1, <4>2
      <3>5. p.curr < g.size
        BY <2>1, <3>1
      <3> QED BY <2>1, <2>3, <3>1, <3>3, <3>4, <3>5, GuestFileAssumption DEF SteadyLoop
    <2> QED BY <2>2, <2>3
  <1> QED BY <1>1, <1>2
=============================================================================
