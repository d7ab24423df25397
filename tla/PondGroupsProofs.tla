-------------------------- MODULE PondGroupsProofs --------------------------
(***************************************************************************)
(* Theorems of PondGroups: the groups that can be created are bounded, and *)
(* a balance plan accounts for the levels it was worked out on, stays      *)
(* within them, and keeps min_keep_cm among ponds of falling size; for any *)
(* ponds, areas, levels, chains and clients.                               *)
(***************************************************************************)
EXTENDS PondGroups, Induction

-----------------------------------------------------------------------------
(***************************************************************************)
(* The inductive invariant: what a request has worked out so far.          *)
(***************************************************************************)

AreaIn(r, i) == Area[r.chain[i]]

\* The stages read ascend, so there were at most prior + 1 of them.
Climbs(r) == Len(r.chain) >= 2 /\ Len(r.read) - 1 <= r.prior

Explained(r) ==
  \A i \in DOMAIN r.rows : r.rows[i] = r.read[i] + Poured(r.plan, i)

\* Row i is planned no higher (no lower) than pond j was read.
Under(r, i, j) == r.rows[i] * AreaIn(r, j) <= r.read[j] * AreaIn(r, i)
Over(r, i, j)  == r.rows[i] * AreaIn(r, j) >= r.read[j] * AreaIn(r, i)
Between(r, i)  == /\ \E j \in DOMAIN r.rows : Under(r, i, j)
                  /\ \E j \in DOMAIN r.rows : Over(r, i, j)
Ranged(r) == \A i \in DOMAIN r.rows : Between(r, i)

Falls(r) == \A k \in DOMAIN r.plan : AreaIn(r, r.plan[k].to) <= AreaIn(r, r.plan[k].from)
KeepsLine(r) ==
  Falls(r) => \A i \in DOMAIN r.rows :
    r.read[i] >= MinKeep * AreaIn(r, i) => r.rows[i] >= MinKeep * AreaIn(r, i)

Planned(r) == Explained(r) /\ Ranged(r) /\ KeepsLine(r)

Knows(r) ==
  /\ r.pc = "climb" => Climbs(r)
  /\ r.pc = "read" => r.plan = <<>>
  /\ r.pc = "plan" => Planned(r)

IInv == TypeOK /\ GroupsBounded /\ \A c \in Clients : Knows(req[c])

-----------------------------------------------------------------------------
(***************************************************************************)
(* What a plan pours.                                                      *)
(***************************************************************************)

\* What each move of the plan adds to row i.
Gains(plan, i) == [k \in 1..Len(plan) |-> Gain(plan[k], i)]

LEMMA GainsType ==
  ASSUME NEW plan \in Seq(Move), NEW i
  PROVE  \A k \in 1..Len(plan) : Gains(plan, i)[k] \in Int
  <1> SUFFICES ASSUME NEW k \in 1..Len(plan) PROVE Gains(plan, i)[k] \in Int
    OBVIOUS
  <1>1. plan[k] \in Move
    OBVIOUS
  <1>2. plan[k].vol \in Int
    BY <1>1 DEF Move
  <1> QED
    BY <1>2 DEF Gains, Gain

\* Poured is the last of the sums of the gains.
LEMMA PouredSums ==
  ASSUME NEW plan \in Seq(Move), NEW i
  PROVE  \E f : Sums(f, Gains(plan, i), Len(plan)) /\ Poured(plan, i) = f[Len(plan)]
  <1> DEFINE n == Len(plan)
             Fcn(v) == [k \in 0..n |-> IF k = 0 THEN 0 ELSE v[k - 1] + Gain(plan[k], i)]
             vols == CHOOSE v : v = Fcn(v)
  <1>1. n \in Nat
    OBVIOUS
  <1>2. Poured(plan, i) = vols[n]
    BY DEF Poured
  <1>3. PICK g : Sums(g, Gains(plan, i), n)
    BY <1>1, GainsType, SumsExist
  <1>4. \A v : Sums(v, Gains(plan, i), n) <=> v = Fcn(v)
    <2> SUFFICES ASSUME NEW v PROVE Sums(v, Gains(plan, i), n) <=> v = Fcn(v)
      OBVIOUS
    <2> DEFINE Rec == [k \in 0..n |-> IF k = 0 THEN 0 ELSE v[k - 1] + Gains(plan, i)[k]]
    <2>1. Sums(v, Gains(plan, i), n) <=> v = Rec
      BY <1>1, GainsType, SumsByRecursion
    <2>2. Rec = Fcn(v)
      BY DEF Gains
    <2> QED
      BY <2>1, <2>2
  <1>5. vols = Fcn(vols)
    <2> HIDE DEF Fcn
    <2> QED
      BY <1>3, <1>4
  <1>6. Sums(vols, Gains(plan, i), n)
    <2> HIDE DEF Fcn, vols
    <2> QED
      BY <1>4, <1>5
  <1> QED
    BY <1>2, <1>6

\* An empty plan pours nothing.
LEMMA PouredNothing ==
  ASSUME NEW i
  PROVE  Poured(<<>>, i) = 0
  <1>1. <<>> \in Seq(Move) /\ Len(<<>>) = 0
    OBVIOUS
  <1>2. PICK f : Sums(f, Gains(<<>>, i), Len(<<>>)) /\ Poured(<<>>, i) = f[Len(<<>>)]
    BY <1>1, PouredSums
  <1> QED
    BY <1>1, <1>2 DEF Sums

\* One more move pours its volume into its second row, out of its first.
LEMMA PouredMore ==
  ASSUME NEW plan \in Seq(Move), NEW m \in Move, NEW i
  PROVE  /\ Poured(plan, i) \in Int
         /\ Poured(Append(plan, m), i) = Poured(plan, i) + (IF m.to = i THEN m.vol ELSE 0)
                                                         - (IF m.from = i THEN m.vol ELSE 0)
  <1> DEFINE more == Append(plan, m)
             n == Len(plan)
  <1>1. /\ more \in Seq(Move) /\ Len(more) = n + 1 /\ n \in Nat /\ more[n + 1] = m
        /\ \A k \in 1..n : more[k] = plan[k]
    OBVIOUS
  <1>2. PICK f : Sums(f, Gains(plan, i), n) /\ Poured(plan, i) = f[n]
    BY PouredSums
  <1>3. PICK g : Sums(g, Gains(more, i), n + 1) /\ Poured(more, i) = g[n + 1]
    BY <1>1, PouredSums
  <1> HIDE DEF more
  <1>4. \A k \in 1..n : Gains(more, i)[k] = Gains(plan, i)[k]
    BY <1>1 DEF Gains
  <1>5. g[n] = f[n]
    BY <1>1, <1>2, <1>3, <1>4, SumsAgree
  <1>6. g[n + 1] = g[n] + Gains(more, i)[n + 1] /\ f[n] \in Int
    BY <1>1, <1>2, <1>3 DEF Sums
  <1>7. Gains(more, i)[n + 1] = (IF m.to = i THEN m.vol ELSE 0)
                                - (IF m.from = i THEN m.vol ELSE 0)
    BY <1>1 DEF Gains, Gain
  <1> QED
    BY <1>2, <1>3, <1>5, <1>6, <1>7 DEF Move, more

-----------------------------------------------------------------------------
(***************************************************************************)
(* Levels as fractions: brine over area.                                   *)
(***************************************************************************)

\* Standing at least as high as is transitive.
LEMMA HigherTrans ==
  ASSUME NEW x \in Int, NEW y \in Int, NEW z \in Int,
         NEW a \in Nat \ {0}, NEW b \in Nat \ {0}, NEW c \in Nat \ {0},
         x * b >= y * a, y * c >= z * b
  PROVE  x * c >= z * a
  OBVIOUS

\* The volume of a move takes src no lower than it takes dst.
LEMMA VolumeLevels ==
  ASSUME NEW src \in Nat, NEW a \in Nat \ {0}, NEW dst \in Nat, NEW b \in Nat \ {0},
         NEW v, v = Volume(src, a, dst, b)
  PROVE  v \in Int /\ (src - v) * b >= (dst + v) * a
  <1> DEFINE gap == src * b - dst * a
  <1>1. gap \in Int /\ a + b \in Nat \ {0}
    OBVIOUS
  <1>2. v = gap \div (a + b)
    BY DEF Volume
  <1>3. v \in Int /\ v * (a + b) <= gap
    <2> HIDE DEF gap
    <2> QED
      BY <1>1, <1>2
  <1>4. v * (a + b) = v * a + v * b /\ (src - v) * b = src * b - v * b
        /\ (dst + v) * a = dst * a + v * a
    BY <1>3
  <1> QED
    BY <1>3, <1>4

-----------------------------------------------------------------------------
(***************************************************************************)
(* One turn of the planning loop.                                          *)
(***************************************************************************)

\* The request r after a move of v from row i to row j.
Moved(r, i, j, v) ==
  [r EXCEPT !.plan = Append(@, [from |-> i, to |-> j, vol |-> v]),
            !.rows[i] = @ - v, !.rows[j] = @ + v]

\* A row of a request that plans has a pond of positive area.
LEMMA AreaIsPositive ==
  ASSUME NEW r, CallType(r), r.pc = "plan", NEW i \in DOMAIN r.rows
  PROVE  AreaIn(r, i) \in Nat \ {0} /\ i \in DOMAIN r.chain /\ r.rows[i] \in Nat
         /\ r.read[i] \in Nat
  <1>1. r.chain \in Seq(Ponds) /\ i \in DOMAIN r.chain
    BY ChainsAssumption DEF CallType
  <1>2. r.chain[i] \in Ponds
    BY <1>1
  <1> QED
    BY <1>1, <1>2, AreaAssumption DEF AreaIn, CallType

\* What a worthwhile move between rows i and j of r is.
Worthwhile(r, i, j, v) ==
  /\ r.pc = "plan" /\ i \in DOMAIN r.rows /\ j \in DOMAIN r.rows /\ i # j
  /\ v = Volume(r.rows[i], AreaIn(r, i), r.rows[j], AreaIn(r, j))
  /\ Worth(r.rows[i], AreaIn(r, i), AreaIn(r, j), v)

\* It moves something, leaves src no lower than dst, and leaves min_keep_cm in src when
\* src is the larger.
LEMMA MoveBounds ==
  ASSUME NEW r, CallType(r), NEW i, NEW j, NEW v, Worthwhile(r, i, j, v)
  PROVE  /\ v \in Nat /\ r.rows[i] - v \in Nat
         /\ (r.rows[i] - v) * AreaIn(r, j) >= (r.rows[j] + v) * AreaIn(r, i)
         /\ AreaIn(r, j) <= AreaIn(r, i) => r.rows[i] - v >= MinKeep * AreaIn(r, i)
  <1> DEFINE x == r.rows[i]
             y == r.rows[j]
             a == AreaIn(r, i)
             b == AreaIn(r, j)
  <1>1. x \in Nat /\ y \in Nat /\ a \in Nat \ {0} /\ b \in Nat \ {0}
    BY AreaIsPositive DEF Worthwhile
  <1>2. v = Volume(x, a, y, b) /\ v >= Gap * b /\ x * b - v * a >= MinKeep * a * b
    BY DEF Worthwhile, Worth
  <1> HIDE DEF x, y, a, b
  <1>3. v \in Int /\ (x - v) * b >= (y + v) * a
    BY <1>1, <1>2, VolumeLevels
  <1>4. Gap * b >= 0 /\ v \in Nat
    BY <1>1, <1>2, <1>3, NumbersAssumption
  <1>5. x - v \in Nat
    <2>1. (y + v) * a >= 0
      BY <1>1, <1>4
    <2>2. (x - v) * b >= 0
      BY <1>1, <1>3, <2>1
    <2> QED
      BY <1>1, <1>3, <2>2
  <1>6. ASSUME b <= a PROVE x - v >= MinKeep * a
    <2>1. v * b <= v * a
      BY <1>1, <1>4, <1>6
    <2>2. MinKeep * a \in Nat /\ MinKeep * a * b \in Nat
      BY <1>1, NumbersAssumption
    <2>3. (x - v) * b = x * b - v * b
      BY <1>1, <1>4
    <2>4. (x - v) * b >= (MinKeep * a) * b
      BY <1>1, <1>2, <1>4, <2>1, <2>2, <2>3
    <2> DEFINE m == MinKeep * a
               d == x - v
    <2>5. m \in Int /\ d \in Int /\ d * b >= m * b
      BY <1>4, <1>5, <2>2, <2>4
    <2> HIDE DEF m, d
    <2>6. d >= m
      BY <1>1, <2>5
    <2> QED
      BY <2>6 DEF m, d
  <1> QED
    BY <1>3, <1>4, <1>5, <1>6 DEF x, y, a, b

LEMMA MovedFields ==
  ASSUME NEW r \in ReqRec, CallType(r), NEW i, NEW j, NEW v, Worthwhile(r, i, j, v),
         NEW q, q = Moved(r, i, j, v)
  PROVE  /\ q.pc = "plan" /\ q.prior = r.prior
         /\ q.chain = r.chain /\ q.read = r.read /\ DOMAIN q.rows = DOMAIN r.rows
         /\ q.plan = Append(r.plan, [from |-> i, to |-> j, vol |-> v])
         /\ q.rows \in [DOMAIN r.chain -> Nat]
         /\ \A k \in DOMAIN r.rows : q.rows[k] = IF k = i THEN r.rows[i] - v
                                                 ELSE IF k = j THEN r.rows[j] + v
                                                 ELSE r.rows[k]
  <1>1. v \in Nat /\ r.rows[i] - v \in Nat
    BY MoveBounds
  <1>2. r.rows \in [DOMAIN r.chain -> Nat] /\ r.read \in [DOMAIN r.chain -> Nat]
        /\ i \in DOMAIN r.chain /\ j \in DOMAIN r.chain /\ r.pc = "plan" /\ i # j
    BY DEF CallType, Worthwhile
  <1>3. q.pc = r.pc /\ q.chain = r.chain /\ q.prior = r.prior /\ q.read = r.read
        /\ q.plan = Append(r.plan, [from |-> i, to |-> j, vol |-> v])
        /\ q.rows = [r.rows EXCEPT ![i] = @ - v, ![j] = @ + v]
    BY DEF Moved, ReqRec
  <1>4. q.rows \in [DOMAIN r.chain -> Nat]
    <2>1. r.rows[j] + v \in Nat
      BY <1>1, <1>2
    <2> QED
      BY <1>1, <1>2, <1>3, <2>1
  <1>5. \A k \in DOMAIN r.rows : q.rows[k] = IF k = i THEN r.rows[i] - v
                                             ELSE IF k = j THEN r.rows[j] + v
                                             ELSE r.rows[k]
    BY <1>2, <1>3
  <1> QED
    BY <1>2, <1>3, <1>4, <1>5

LEMMA MovedType ==
  ASSUME NEW r \in ReqRec, CallType(r), NEW i, NEW j, NEW v, Worthwhile(r, i, j, v),
         NEW q, q = Moved(r, i, j, v)
  PROVE  q \in ReqRec /\ CallType(q) /\ q.pc = "plan"
  <1> DEFINE m == [from |-> i, to |-> j, vol |-> v]
  <1>1. v \in Nat /\ r.rows[i] - v \in Nat
    BY MoveBounds
  <1>2. r.rows \in [DOMAIN r.chain -> Nat] /\ r.read \in [DOMAIN r.chain -> Nat]
        /\ i \in DOMAIN r.chain /\ j \in DOMAIN r.chain /\ r.pc = "plan" /\ i # j
    BY DEF CallType, Worthwhile
  <1>3. r.chain \in Seq(Ponds) /\ r.chain \in Chains
    BY <1>2, ChainsAssumption DEF CallType
  <1>4. m \in Move
    <2>1. i \in Nat /\ j \in Nat
      BY <1>2, <1>3
    <2> QED
      BY <1>1, <2>1 DEF Move
  <1>5. q.pc = r.pc /\ q.chain = r.chain /\ q.prior = r.prior /\ q.read = r.read
        /\ q.plan = Append(r.plan, m) /\ q.rows \in [DOMAIN r.chain -> Nat]
    BY <1>2, MovedFields
  <1>6. q.rows \in Seq(Nat) /\ q.plan \in Seq(Move)
    <2>1. q.rows \in Seq(Nat)
      <3>1. Len(r.chain) \in Nat /\ DOMAIN r.chain = 1..Len(r.chain)
        BY <1>3
      <3> QED
        BY <1>5, <3>1
    <2>2. r.plan \in Seq(Move)
      BY DEF ReqRec
    <2> HIDE DEF m
    <2> QED
      BY <1>4, <1>5, <2>1, <2>2
  <1>7. q \in ReqRec
    <2>1. q = [pc |-> q.pc, chain |-> q.chain, prior |-> q.prior, read |-> q.read,
               rows |-> q.rows, plan |-> q.plan]
      BY DEF Moved, ReqRec
    <2>2. r.pc \in {"idle", "climb", "read", "plan"} /\ r.chain \in Chains \cup {<<>>}
          /\ r.prior \in -1..LastStage /\ r.read \in Seq(Nat)
      BY DEF ReqRec
    <2> HIDE DEF m
    <2> QED
      BY <1>5, <1>6, <2>1, <2>2 DEF ReqRec
  <1>8. CallType(q)
    <2>1. \A k \in DOMAIN q.plan : {q.plan[k].from, q.plan[k].to} \subseteq DOMAIN r.chain
      <3> SUFFICES ASSUME NEW k \in DOMAIN q.plan
                   PROVE  {q.plan[k].from, q.plan[k].to} \subseteq DOMAIN r.chain
        OBVIOUS
      <3>1. r.plan \in Seq(Move)
        BY DEF ReqRec
      <3>2. (k \in DOMAIN r.plan /\ q.plan[k] = r.plan[k]) \/ q.plan[k] = m
        <4> HIDE DEF m
        <4> QED
          BY <1>4, <1>5, <3>1
      <3> QED
        BY <1>2, <3>2 DEF CallType
    <2>2. Len(r.read) <= Len(r.chain)
      BY <1>2 DEF CallType
    <2>3. q.chain \in Chains /\ Len(q.read) <= Len(q.chain)
      BY <1>3, <1>5, <2>2
    <2>4. q.rows \in [DOMAIN q.chain -> Nat] /\ q.read \in [DOMAIN q.chain -> Nat]
      BY <1>2, <1>5
    <2>5. \A k \in DOMAIN q.plan : {q.plan[k].from, q.plan[k].to} \subseteq DOMAIN q.chain
      BY <1>5, <2>1
    <2> QED
      BY <2>3, <2>4, <2>5 DEF CallType
  <1> QED
    BY <1>2, <1>5, <1>7, <1>8

\* The rows after the move are again what the plan explains, within what was read, and
\* above min_keep_cm where they were.
LEMMA MoveKeepsPlan ==
  ASSUME NEW r \in ReqRec, CallType(r), Planned(r),
         NEW i, NEW j, NEW v, Worthwhile(r, i, j, v), NEW q, q = Moved(r, i, j, v)
  PROVE  Planned(q)
  <1>1. /\ q.chain = r.chain /\ q.read = r.read /\ DOMAIN q.rows = DOMAIN r.rows
        /\ q.plan = Append(r.plan, [from |-> i, to |-> j, vol |-> v])
        /\ \A k \in DOMAIN r.rows : q.rows[k] = IF k = i THEN r.rows[i] - v
                                                ELSE IF k = j THEN r.rows[j] + v
                                                ELSE r.rows[k]
    BY MovedFields
  <1>2. i \in DOMAIN r.rows /\ j \in DOMAIN r.rows /\ i # j /\ r.pc = "plan"
    BY DEF Worthwhile
  <1>3. \A k : AreaIn(q, k) = AreaIn(r, k)
    BY <1>1 DEF AreaIn
  <1>4. \A k \in DOMAIN r.rows : /\ AreaIn(r, k) \in Nat \ {0}
                                 /\ r.rows[k] \in Nat /\ r.read[k] \in Nat
    BY <1>2, AreaIsPositive
  <1>5. /\ v \in Nat /\ r.rows[i] - v \in Nat
        /\ (r.rows[i] - v) * AreaIn(r, j) >= (r.rows[j] + v) * AreaIn(r, i)
        /\ AreaIn(r, j) <= AreaIn(r, i) => r.rows[i] - v >= MinKeep * AreaIn(r, i)
    BY MoveBounds
  <1>6. Explained(q)
    <2> SUFFICES ASSUME NEW k \in DOMAIN r.rows
                 PROVE  q.rows[k] = r.read[k] + Poured(q.plan, k)
      BY <1>1 DEF Explained
    <2> DEFINE m == [from |-> i, to |-> j, vol |-> v]
    <2>1. m \in Move /\ m.from = i /\ m.to = j /\ m.vol = v
      <3>1. i \in Nat /\ j \in Nat
        <4>1. r.rows \in Seq(Nat)
          BY DEF ReqRec
        <4> QED
          BY <1>2, <4>1
      <3> QED
        BY <1>5, <3>1 DEF Move
    <2>2. q.plan = Append(r.plan, m) /\ r.plan \in Seq(Move)
      BY <1>1 DEF ReqRec
    <2> HIDE DEF m
    <2>3. /\ Poured(r.plan, k) \in Int
          /\ Poured(q.plan, k) = Poured(r.plan, k) + (IF m.to = k THEN m.vol ELSE 0)
                                                   - (IF m.from = k THEN m.vol ELSE 0)
      BY <2>1, <2>2, PouredMore
    <2>4. r.rows[k] = r.read[k] + Poured(r.plan, k)
      BY DEF Planned, Explained
    <2>5. r.read[k] \in Nat /\ r.rows[k] \in Nat
      BY <1>4
    <2>6. CASE k = i
      <3>1. q.rows[k] = r.rows[k] - v /\ Poured(q.plan, k) = Poured(r.plan, k) + 0 - v
        BY <1>1, <1>2, <2>1, <2>3, <2>6
      <3> QED
        BY <1>5, <2>3, <2>4, <2>5, <3>1
    <2>7. CASE k = j
      <3>1. q.rows[k] = r.rows[k] + v /\ Poured(q.plan, k) = Poured(r.plan, k) + v - 0
        BY <1>1, <1>2, <2>1, <2>3, <2>7
      <3> QED
        BY <1>5, <2>3, <2>4, <2>5, <3>1
    <2>8. CASE k # i /\ k # j
      <3>1. q.rows[k] = r.rows[k] /\ Poured(q.plan, k) = Poured(r.plan, k) + 0 - 0
        BY <1>1, <1>2, <2>1, <2>3, <2>8
      <3> QED
        BY <2>3, <2>4, <2>5, <3>1
    <2> QED
      BY <2>6, <2>7, <2>8
  <1>7. Ranged(q)
    <2> DEFINE a == AreaIn(r, i)
               b == AreaIn(r, j)
               x == r.rows[i]
               y == r.rows[j]
    <2>1. a \in Nat \ {0} /\ b \in Nat \ {0} /\ x \in Nat /\ y \in Nat
      BY <1>2, <1>4
    <2>2. (x - v) * b >= (y + v) * a /\ x - v \in Nat /\ y + v \in Nat
      BY <1>2, <1>4, <1>5
    <2>3. q.rows[i] = x - v /\ q.rows[j] = y + v
      BY <1>1, <1>2
    <2> HIDE DEF a, b, x, y
    <2>4. (x - v) * b >= y * a /\ x * b >= (y + v) * a
      <3>1. (y + v) * a >= y * a /\ x * b >= (x - v) * b
        BY <1>5, <2>1
      <3> QED
        BY <1>5, <2>1, <2>2, <3>1
    <2>5. ASSUME NEW k \in DOMAIN r.rows, Under(r, i, k) PROVE Under(q, i, k) /\ Under(q, j, k)
      <3> DEFINE c == AreaIn(r, k)
                 z == r.read[k]
      <3>1. c \in Nat \ {0} /\ z \in Nat /\ z * a >= x * c
        BY <1>4, <2>5 DEF Under, a, x
      <3> HIDE DEF c, z
      <3>2. z * a >= (x - v) * c
        <4>1. x * c >= (x - v) * c
          BY <1>5, <2>1, <2>2, <3>1
        <4> QED
          BY <1>5, <2>1, <2>2, <3>1, <4>1
      <3>3. z * b >= (y + v) * c
        BY <2>1, <2>2, <2>4, <3>1, HigherTrans
      <3> QED
        BY <1>1, <1>3, <2>3, <3>2, <3>3 DEF Under, a, b, c, z
    <2>6. ASSUME NEW k \in DOMAIN r.rows, Over(r, j, k) PROVE Over(q, i, k) /\ Over(q, j, k)
      <3> DEFINE c == AreaIn(r, k)
                 z == r.read[k]
      <3>1. c \in Nat \ {0} /\ z \in Nat /\ y * c >= z * b
        BY <1>4, <2>6 DEF Over, b, y
      <3> HIDE DEF c, z
      <3>2. (y + v) * c >= z * b
        <4>1. (y + v) * c >= y * c
          BY <1>5, <2>1, <2>2, <3>1
        <4> QED
          BY <1>5, <2>1, <2>2, <3>1, <4>1
      <3>3. (x - v) * c >= z * a
        BY <2>1, <2>2, <2>4, <3>1, HigherTrans
      <3> QED
        BY <1>1, <1>3, <2>3, <3>2, <3>3 DEF Over, a, b, c, z
    <2>7. PICK hi \in DOMAIN r.rows : Under(r, i, hi)
      BY <1>2 DEF Planned, Ranged, Between
    <2>8. PICK lo \in DOMAIN r.rows : Over(r, j, lo)
      BY <1>2 DEF Planned, Ranged, Between
    <2>9. Between(q, i) /\ Between(q, j)
      BY <1>1, <2>5, <2>6, <2>7, <2>8 DEF Between
    <2>10. ASSUME NEW k \in DOMAIN r.rows, k # i, k # j PROVE Between(q, k)
      <3>1. q.rows[k] = r.rows[k] /\ Between(r, k)
        BY <1>1, <2>10 DEF Planned, Ranged
      <3> QED
        BY <1>1, <1>3, <3>1 DEF Between, Under, Over
    <2> QED
      BY <1>1, <2>9, <2>10 DEF Ranged
  <1>8. KeepsLine(q)
    <2> SUFFICES ASSUME Falls(q), NEW k \in DOMAIN r.rows, r.read[k] >= MinKeep * AreaIn(r, k)
                 PROVE  q.rows[k] >= MinKeep * AreaIn(r, k)
      BY <1>1, <1>3 DEF KeepsLine
    <2> DEFINE m == [from |-> i, to |-> j, vol |-> v]
    <2>1. r.plan \in Seq(Move) /\ m.from = i /\ m.to = j /\ q.plan = Append(r.plan, m)
      BY <1>1 DEF ReqRec
    <2> HIDE DEF m
    <2>2. Len(r.plan) \in Nat /\ DOMAIN r.plan = 1..Len(r.plan)
          /\ DOMAIN q.plan = 1..Len(r.plan) + 1 /\ q.plan[Len(r.plan) + 1] = m
          /\ \A n \in DOMAIN r.plan : q.plan[n] = r.plan[n]
      BY <2>1
    <2>3. Falls(r) /\ AreaIn(r, j) <= AreaIn(r, i)
      <3>1. \A n \in DOMAIN q.plan : AreaIn(r, q.plan[n].to) <= AreaIn(r, q.plan[n].from)
        BY <1>3 DEF Falls
      <3>2. AreaIn(r, j) <= AreaIn(r, i)
        BY <2>1, <2>2, <3>1
      <3>3. \A n \in DOMAIN r.plan : AreaIn(r, r.plan[n].to) <= AreaIn(r, r.plan[n].from)
        BY <2>2, <3>1
      <3> QED
        BY <3>2, <3>3 DEF Falls
    <2>4. r.rows[k] >= MinKeep * AreaIn(r, k)
      BY <2>3 DEF Planned, KeepsLine
    <2>5. MinKeep * AreaIn(r, k) \in Nat /\ r.rows[j] \in Nat /\ v \in Nat
      BY <1>2, <1>4, <1>5, NumbersAssumption
    <2>6. CASE k = i
      BY <1>1, <1>5, <2>3, <2>6
    <2>7. CASE k # i
      BY <1>1, <2>4, <2>5, <2>7
    <2> QED
      BY <2>6, <2>7
  <1> QED
    BY <1>6, <1>7, <1>8 DEF Planned

-----------------------------------------------------------------------------
(***************************************************************************)
(* The steps.                                                              *)
(***************************************************************************)

LEMMA IdleIsFine == IdleReq \in ReqRec /\ CallType(IdleReq) /\ Knows(IdleReq)
  BY NumbersAssumption DEF IdleReq, ReqRec, CallType, Knows

LEMMA InitInv == Init => IInv
  <1> SUFFICES ASSUME Init PROVE IInv
    OBVIOUS
  <1>1. TypeOK
    BY IdleIsFine, BudgetAssumption DEF Init, TypeOK, RowsType
  <1>2. GroupsBounded /\ \A c \in Clients : Knows(req[c])
    BY IdleIsFine DEF Init, GroupsBounded
  <1> QED
    BY <1>1, <1>2 DEF IInv

LEMMA LeftType ==
  ASSUME IInv, (\E kind \in BudgetKinds : Spend(kind)) \/ Fails \/ Succeeds
  PROVE  left' \in [BudgetKinds -> Nat]
  BY DEF IInv, TypeOK, Spend, Fails, Succeeds, BudgetKinds

\* What a request becomes concerns it alone.
LEMMA OneCall ==
  ASSUME IInv, NEW c \in Clients, NEW q \in ReqRec, CallType(q), Knows(q), Goto(c, q),
         UNCHANGED <<level, stage, groups>>, left' \in [BudgetKinds -> Nat]
  PROVE  IInv'
  <1>1. req' \in [Clients -> ReqRec] /\ \A d \in Clients : req'[d] = IF d = c THEN q ELSE req[d]
    BY DEF IInv, TypeOK, Goto
  <1>2. \A d \in Clients : CallType(req'[d]) /\ Knows(req'[d])
    BY <1>1 DEF IInv, TypeOK
  <1>3. RowsType' /\ GroupsBounded'
    BY DEF IInv, TypeOK, RowsType, GroupsBounded
  <1> QED
    BY <1>1, <1>2, <1>3 DEF IInv, TypeOK

LEMMA LeaveStep ==
  ASSUME IInv, NEW c \in Clients, Leave(c), Fails \/ Succeeds,
         UNCHANGED <<level, stage, groups>>
  PROVE  IInv'
  BY LeftType, IdleIsFine, OneCall DEF Leave

LEMMA CreateBeginStep ==
  ASSUME IInv, NEW c \in Clients, CreateBegin(c)
  PROVE  IInv'
  <1>1. PICK s \in Chains : Len(s) >= 2 /\ Goto(c, [IdleReq EXCEPT !.pc = "climb", !.chain = s])
    BY DEF CreateBegin
  <1> DEFINE q == [IdleReq EXCEPT !.pc = "climb", !.chain = s]
  <1>2. /\ q.pc = "climb" /\ q.chain = s /\ q.prior = -1
        /\ q.read = <<>> /\ q.rows = <<>> /\ q.plan = <<>>
    <2>1. q.pc = "climb" /\ q.chain = s /\ q.prior = -1
      BY DEF IdleReq
    <2>2. q.read = <<>> /\ q.rows = <<>> /\ q.plan = <<>>
      BY DEF IdleReq
    <2> QED
      BY <2>1, <2>2
  <1>3. s \in Seq(Ponds) /\ Len(s) \in Nat
    BY ChainsAssumption
  <1> HIDE DEF q
  <1>4. q \in ReqRec
    BY IdleIsFine DEF ReqRec, q
  <1>5. CallType(q) /\ Knows(q)
    BY <1>1, <1>2, <1>3 DEF CallType, Knows, Climbs
  <1>6. left' \in [BudgetKinds -> Nat]
    BY LeftType DEF CreateBegin, BudgetKinds
  <1> QED
    BY <1>1, <1>4, <1>5, <1>6, OneCall DEF CreateBegin, q

\* The pond a request reads next is one of the chain.
LEMMA DueIsThere ==
  ASSUME IInv, NEW c \in Clients, ~At(c, "idle"), ~Complete(c)
  PROVE  Due(c) \in Ponds /\ Len(req[c].read) < Len(req[c].chain)
  <1>1. req[c].chain \in Seq(Ponds) /\ Len(req[c].read) <= Len(req[c].chain)
    BY ChainsAssumption DEF IInv, TypeOK, CallType, At
  <1>2. req[c].read \in Seq(Nat)
    BY DEF IInv, TypeOK, ReqRec
  <1>3. Len(req[c].read) + 1 \in DOMAIN req[c].chain /\ Len(req[c].read) < Len(req[c].chain)
    BY <1>1, <1>2 DEF Complete
  <1> QED
    BY <1>1, <1>3 DEF Due

LEMMA CreateClimbStep ==
  ASSUME IInv, NEW c \in Clients, CreateClimb(c)
  PROVE  IInv'
  <1> DEFINE s == stage[Due(c)]
  <1>1. CASE /\ s > req[c].prior /\ Succeeds
             /\ Goto(c, [req[c] EXCEPT !.prior = s, !.read = Append(@, s)])
    <2>1. PICK r : r = req[c]
      OBVIOUS
    <2> DEFINE q == [r EXCEPT !.prior = s, !.read = Append(@, s)]
    <2>2. r \in ReqRec /\ CallType(r) /\ Knows(r) /\ r.pc = "climb"
      BY <2>1 DEF IInv, TypeOK, CreateClimb, At
    <2>3. s \in 0..LastStage /\ s \in Nat /\ Len(r.read) < Len(r.chain)
      <3>1. ~At(c, "idle") /\ ~Complete(c)
        BY DEF CreateClimb, At
      <3> QED
        BY <2>1, <3>1, DueIsThere, NumbersAssumption DEF IInv, TypeOK, RowsType
    <2>4. r.read \in Seq(Nat) /\ r.prior \in -1..LastStage /\ r.prior \in Int
      BY <2>2, NumbersAssumption DEF ReqRec
    <2>5. /\ q.pc = r.pc /\ q.chain = r.chain /\ q.prior = s
          /\ q.read = Append(r.read, s) /\ q.rows = r.rows /\ q.plan = r.plan
      <3>1. q.pc = r.pc /\ q.chain = r.chain /\ q.prior = s
        BY <2>2 DEF ReqRec
      <3>2. q.read = Append(r.read, s) /\ q.rows = r.rows /\ q.plan = r.plan
        BY <2>2 DEF ReqRec
      <3> QED
        BY <3>1, <3>2
    <2> HIDE DEF q, s
    <2>6. Append(r.read, s) \in Seq(Nat) /\ Len(Append(r.read, s)) = Len(r.read) + 1
          /\ Len(r.read) \in Nat
      BY <2>3, <2>4
    <2>7. q \in ReqRec
      <3>1. s \in -1..LastStage
        BY <2>3, NumbersAssumption
      <3> QED
        BY <2>2, <2>6, <3>1 DEF ReqRec, q
    <2>8. CallType(q)
      <3>1. r.chain \in Seq(Ponds) /\ Len(r.chain) \in Nat
        BY <2>2, ChainsAssumption DEF CallType
      <3>2. Len(Append(r.read, s)) <= Len(r.chain)
        BY <2>3, <2>6, <3>1
      <3> QED
        BY <2>2, <2>5, <3>2 DEF CallType
    <2>9. Knows(q)
      <3>1. Len(Append(r.read, s)) - 1 <= s
        BY <1>1, <2>1, <2>2, <2>3, <2>4, <2>6 DEF Knows, Climbs, s
      <3> QED
        BY <2>2, <2>5, <3>1 DEF Knows, Climbs
    <2>10. Goto(c, q)
      BY <1>1, <2>1 DEF q
    <2> QED
      BY <1>1, <2>7, <2>8, <2>9, <2>10, LeftType, OneCall DEF CreateClimb
  <1>2. CASE ((s <= req[c].prior /\ Succeeds) \/ Fails) /\ Leave(c)
    BY <1>2, LeaveStep DEF CreateClimb
  <1> QED
    BY <1>1, <1>2 DEF CreateClimb

LEMMA CreateInsertStep ==
  ASSUME IInv, NEW c \in Clients, CreateInsert(c)
  PROVE  IInv'
  <1>1. left' \in [BudgetKinds -> Nat]
    BY LeftType DEF CreateInsert
  <1>2. req' \in [Clients -> ReqRec]
        /\ \A d \in Clients : CallType(req'[d]) /\ Knows(req'[d])
    BY IdleIsFine DEF CreateInsert, Leave, Goto, IInv, TypeOK
  <1>3. req[c].chain \in Chains /\ Len(req[c].chain) \in 2..LastStage + 1
    <2>1. req[c].chain \in Chains /\ Climbs(req[c]) /\ Len(req[c].read) = Len(req[c].chain)
      BY DEF CreateInsert, At, Complete, IInv, TypeOK, CallType, Knows
    <2>2. req[c].prior \in -1..LastStage /\ Len(req[c].chain) \in Nat
      BY <2>1, ChainsAssumption DEF IInv, TypeOK, ReqRec
    <2> QED
      BY <2>1, <2>2, NumbersAssumption DEF Climbs
  <1>4. groups' \subseteq Chains /\ \A s \in groups' : Len(s) \in 2..LastStage + 1
    BY <1>3 DEF CreateInsert, IInv, TypeOK, RowsType, GroupsBounded
  <1>5. UNCHANGED <<level, stage>>
    BY DEF CreateInsert
  <1> QED
    BY <1>1, <1>2, <1>4, <1>5 DEF IInv, TypeOK, RowsType, GroupsBounded

LEMMA BalanceBeginStep ==
  ASSUME IInv, NEW c \in Clients, BalanceBegin(c)
  PROVE  IInv'
  <1>1. PICK s \in groups : Goto(c, [IdleReq EXCEPT !.pc = "read", !.chain = s])
    BY DEF BalanceBegin
  <1> DEFINE q == [IdleReq EXCEPT !.pc = "read", !.chain = s]
  <1>2. /\ q.pc = "read" /\ q.chain = s /\ q.prior = -1
        /\ q.read = <<>> /\ q.rows = <<>> /\ q.plan = <<>>
    <2>1. q.pc = "read" /\ q.chain = s /\ q.prior = -1
      BY DEF IdleReq
    <2>2. q.read = <<>> /\ q.rows = <<>> /\ q.plan = <<>>
      BY DEF IdleReq
    <2> QED
      BY <2>1, <2>2
  <1>3. s \in Chains /\ s \in Seq(Ponds) /\ Len(s) \in Nat
    BY ChainsAssumption DEF IInv, TypeOK, RowsType
  <1> HIDE DEF q
  <1>4. q \in ReqRec
    BY <1>3, IdleIsFine DEF ReqRec, q
  <1>5. CallType(q) /\ Knows(q)
    BY <1>2, <1>3 DEF CallType, Knows
  <1>6. left' \in [BudgetKinds -> Nat]
    BY LeftType DEF BalanceBegin, BudgetKinds
  <1> QED
    BY <1>1, <1>4, <1>5, <1>6, OneCall DEF BalanceBegin, q

LEMMA BalanceReadStep ==
  ASSUME IInv, NEW c \in Clients, BalanceRead(c)
  PROVE  IInv'
  <1> DEFINE n == level[Due(c)] * Area[Due(c)]
  <1>1. CASE Goto(c, [req[c] EXCEPT !.read = Append(@, n)]) /\ Succeeds
    <2>1. PICK r : r = req[c]
      OBVIOUS
    <2> DEFINE q == [r EXCEPT !.read = Append(@, n)]
    <2>2. r \in ReqRec /\ CallType(r) /\ Knows(r) /\ r.pc = "read"
      BY <2>1 DEF IInv, TypeOK, BalanceRead, At
    <2>3. n \in Nat /\ Len(r.read) < Len(r.chain)
      <3>1. ~At(c, "idle") /\ ~Complete(c)
        BY DEF BalanceRead, At
      <3>2. Due(c) \in Ponds /\ Len(r.read) < Len(r.chain)
        BY <2>1, <3>1, DueIsThere
      <3>3. level[Due(c)] \in Nat /\ Area[Due(c)] \in Nat
        BY <3>2, NumbersAssumption, AreaAssumption DEF IInv, TypeOK, RowsType
      <3> QED
        BY <3>2, <3>3
    <2> HIDE DEF n
    <2>4. Append(r.read, n) \in Seq(Nat) /\ Len(Append(r.read, n)) = Len(r.read) + 1
          /\ Len(r.read) \in Nat
      <3>1. r.read \in Seq(Nat)
        BY <2>2 DEF ReqRec
      <3> QED
        BY <2>3, <3>1
    <2>5. /\ q.pc = r.pc /\ q.chain = r.chain /\ q.prior = r.prior
          /\ q.read = Append(r.read, n) /\ q.rows = r.rows /\ q.plan = r.plan
      <3>1. q.pc = r.pc /\ q.chain = r.chain /\ q.prior = r.prior
        BY <2>2 DEF ReqRec
      <3>2. q.read = Append(r.read, n) /\ q.rows = r.rows /\ q.plan = r.plan
        BY <2>2 DEF ReqRec
      <3> QED
        BY <3>1, <3>2
    <2> HIDE DEF q
    <2>6. q \in ReqRec
      BY <2>2, <2>4 DEF ReqRec, q
    <2>7. CallType(q)
      <3>1. r.chain \in Seq(Ponds) /\ Len(r.chain) \in Nat
        BY <2>2, ChainsAssumption DEF CallType
      <3>2. Len(Append(r.read, n)) <= Len(r.chain)
        BY <2>3, <2>4, <3>1
      <3> QED
        BY <2>2, <2>5, <3>2 DEF CallType
    <2>8. Knows(q)
      BY <2>2, <2>5 DEF Knows
    <2>9. Goto(c, q)
      BY <1>1, <2>1 DEF q
    <2> QED
      BY <1>1, <2>6, <2>7, <2>8, <2>9, LeftType, OneCall DEF BalanceRead
  <1>2. CASE Leave(c) /\ Fails
    BY <1>2, LeaveStep DEF BalanceRead
  <1> QED
    BY <1>1, <1>2 DEF BalanceRead

\* Planning starts from the rows as they were read: nothing is poured yet.
LEMMA BalanceSortStep ==
  ASSUME IInv, NEW c \in Clients, BalanceSort(c)
  PROVE  IInv'
  <1>1. PICK r : r = req[c]
    OBVIOUS
  <1>2. PICK q : q = [r EXCEPT !.pc = "plan", !.rows = r.read]
    OBVIOUS
  <1>3. r \in ReqRec /\ CallType(r) /\ r.pc = "read" /\ r.plan = <<>>
        /\ Len(r.read) = Len(r.chain)
    BY <1>1 DEF IInv, TypeOK, Knows, BalanceSort, At, Complete
  <1>4. q \in ReqRec
    BY <1>2, <1>3 DEF ReqRec
  <1>5. q.pc = "plan" /\ q.chain = r.chain /\ q.read = r.read /\ q.rows = r.read
        /\ q.plan = <<>>
    BY <1>2, <1>3 DEF ReqRec
  <1>6. r.chain \in Chains /\ r.chain \in Seq(Ponds) /\ r.read \in Seq(Nat)
    BY <1>3, ChainsAssumption DEF CallType, ReqRec
  <1>7. CallType(q)
    <2>1. q.rows \in [DOMAIN q.chain -> Nat] /\ q.read \in [DOMAIN q.chain -> Nat]
      BY <1>3, <1>5, <1>6
    <2>2. Len(q.read) <= Len(q.chain)
      BY <1>3, <1>5, <1>6
    <2> QED
      BY <1>5, <1>6, <2>1, <2>2 DEF CallType
  <1>8. \A i \in DOMAIN q.rows : q.rows[i] \in Nat /\ q.rows[i] = q.read[i]
                                 /\ AreaIn(q, i) \in Nat
    BY <1>5, <1>7, AreaIsPositive
  <1>9. Planned(q)
    <2>1. Explained(q)
      BY <1>5, <1>8, PouredNothing DEF Explained
    <2>2. Ranged(q)
      BY <1>8 DEF Ranged, Between, Under, Over
    <2>3. KeepsLine(q)
      BY <1>8 DEF KeepsLine
    <2> QED
      BY <2>1, <2>2, <2>3 DEF Planned
  <1>10. Knows(q)
    BY <1>5, <1>9 DEF Knows
  <1>11. Goto(c, q)
    BY <1>1, <1>2 DEF BalanceSort
  <1> QED
    BY <1>4, <1>7, <1>10, <1>11, LeftType, OneCall DEF BalanceSort

LEMMA BalanceMoveStep ==
  ASSUME IInv, NEW c \in Clients, BalanceMove(c)
  PROVE  IInv'
  <1>1. PICK e \in Ends(c) :
          LET i == e[1]
              j == e[2]
              v == Volume(req[c].rows[i], AreaOf(c, i), req[c].rows[j], AreaOf(c, j))
          IN /\ Worth(req[c].rows[i], AreaOf(c, i), AreaOf(c, j), v)
             /\ Goto(c, [req[c] EXCEPT !.plan = Append(@, [from |-> i, to |-> j, vol |-> v]),
                                       !.rows[i] = @ - v, !.rows[j] = @ + v])
    BY DEF BalanceMove
  <1>2. PICK r : r = req[c]
    OBVIOUS
  <1>3. PICK i, j : i = e[1] /\ j = e[2]
    OBVIOUS
  <1>4. PICK v : v = Volume(r.rows[i], AreaIn(r, i), r.rows[j], AreaIn(r, j))
    OBVIOUS
  <1>5. r \in ReqRec /\ CallType(r) /\ Knows(r) /\ r.pc = "plan"
    BY <1>2 DEF IInv, TypeOK, BalanceMove, At
  <1>6. i \in DOMAIN r.rows /\ j \in DOMAIN r.rows /\ i # j
    BY <1>1, <1>2, <1>3 DEF Ends
  <1>7. \A k : AreaOf(c, k) = AreaIn(r, k)
    BY <1>2 DEF AreaOf, AreaIn
  <1>8. Worth(r.rows[i], AreaIn(r, i), AreaIn(r, j), v) /\ Goto(c, Moved(r, i, j, v))
    BY <1>1, <1>2, <1>3, <1>4, <1>7 DEF Moved
  <1>9. Worthwhile(r, i, j, v)
    BY <1>4, <1>5, <1>6, <1>8 DEF Worthwhile
  <1>10. PICK q : q = Moved(r, i, j, v)
    OBVIOUS
  <1>11. q \in ReqRec /\ CallType(q) /\ q.pc = "plan"
    BY <1>5, <1>9, <1>10, MovedType
  <1>12. Planned(q)
    BY <1>5, <1>9, <1>10, MoveKeepsPlan DEF Knows
  <1>13. Knows(q)
    BY <1>11, <1>12 DEF Knows
  <1> QED
    BY <1>8, <1>10, <1>11, <1>13, LeftType, OneCall DEF BalanceMove

LEMMA BalanceEndStep ==
  ASSUME IInv, NEW c \in Clients, BalanceEnd(c)
  PROVE  IInv'
  BY LeaveStep DEF BalanceEnd

LEMMA DisturbStep ==
  ASSUME IInv, Disturb
  PROVE  IInv'
  <1>1. level' \in [Ponds -> Levels] /\ stage' \in [Ponds -> 0..LastStage]
    BY DEF IInv, TypeOK, RowsType, Disturb
  <1>2. left' \in [BudgetKinds -> Nat]
    BY LeftType DEF Disturb, BudgetKinds
  <1> QED
    BY <1>1, <1>2 DEF IInv, TypeOK, RowsType, GroupsBounded, Disturb

LEMMA RestartStep ==
  ASSUME IInv, Restart
  PROVE  IInv'
  <1>1. left' \in [BudgetKinds -> Nat]
    BY LeftType DEF Restart, BudgetKinds
  <1>2. req' \in [Clients -> ReqRec]
        /\ \A c \in Clients : CallType(req'[c]) /\ Knows(req'[c])
    BY IdleIsFine DEF Restart
  <1> QED
    BY <1>1, <1>2 DEF IInv, TypeOK, RowsType, GroupsBounded, Restart

LEMMA NextInv == IInv /\ [Next]_vars => IInv'
  <1> SUFFICES ASSUME IInv, [Next]_vars PROVE IInv'
    OBVIOUS
  <1>1. ASSUME NEW c \in Clients, CreateBegin(c) \/ Create(c) PROVE IInv'
    BY <1>1, CreateBeginStep, CreateClimbStep, CreateInsertStep DEF Create
  <1>2. ASSUME NEW c \in Clients, BalanceBegin(c) \/ Balance(c) PROVE IInv'
    BY <1>2, BalanceBeginStep, BalanceReadStep, BalanceSortStep, BalanceMoveStep,
       BalanceEndStep DEF Balance
  <1>3. CASE Disturb \/ Restart
    BY <1>3, DisturbStep, RestartStep
  <1>4. CASE UNCHANGED vars
    BY <1>4 DEF vars, IInv, TypeOK, RowsType, GroupsBounded
  <1> QED
    BY <1>1, <1>2, <1>3, <1>4 DEF Next, Idle

LEMMA Invariance == Spec => []IInv
  BY InitInv, NextInv, PTL DEF Spec

-----------------------------------------------------------------------------
(***************************************************************************)
(* The theorems.                                                           *)
(***************************************************************************)

\* Every table and every request in flight keeps its shape, whatever two requests read while
\* stages and levels move.
THEOREM TypeCorrect == Spec => []TypeOK
  BY Invariance, PTL DEF IInv

\* Create: however the stages change while they are read one by one, a group has at least two
\* ponds and at most one per stage.
THEOREM GroupsAreBounded == Spec => []GroupsBounded
  BY Invariance, PTL DEF IInv

\* BalancePlan: the levels the loop works on are those that were read with the moves it has
\* planned so far carried out.
THEOREM PlansExplainRows == Spec => []PlanExplainsRows
  <1>1. IInv => PlanExplainsRows
    BY DEF IInv, PlanExplainsRows, Knows, Planned, Explained, At
  <1> QED
    BY <1>1, Invariance, PTL

\* BalancePlan: however long the loop runs and however volumes are rounded, no pond is planned
\* above the highest or below the lowest of the levels that were read.
THEOREM PlansStayInRange == Spec => []WithinRange
  <1>1. IInv => WithinRange
    <2> SUFFICES ASSUME IInv, NEW c \in Clients, At(c, "plan"), NEW i \in DOMAIN req[c].rows
                 PROVE  Between(req[c], i)
      BY DEF WithinRange, Between, Under, Over, AreaIn, AreaOf
    <2> QED
      BY DEF IInv, Knows, Planned, Ranged, At
  <1> QED
    BY <1>1, Invariance, PTL

\* BalancePlan: among ponds of falling size, a plan leaves min_keep_cm wherever there was so
\* much.
THEOREM PlansKeepTheLine == Spec => []KeepLine
  <1>1. IInv => KeepLine
    <2> SUFFICES ASSUME IInv, NEW c \in Clients, At(c, "plan"), Falls(req[c]),
                        NEW i \in DOMAIN req[c].rows,
                        req[c].read[i] >= MinKeep * AreaIn(req[c], i)
                 PROVE  req[c].rows[i] >= MinKeep * AreaIn(req[c], i)
      BY DEF KeepLine, Falls, AreaIn, AreaOf
    <2> QED
      BY DEF IInv, Knows, Planned, KeepsLine, At
  <1> QED
    BY <1>1, Invariance, PTL
=============================================================================
