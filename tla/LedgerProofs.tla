----------------------------- MODULE LedgerProofs ------------------------------
(***************************************************************************)
(* What the gateway writes down, for every number of calls and restarts:    *)
(*   - serving, payment and record of a call come once each and in order:   *)
(*     PaidCalls implements PaymentContract;                                *)
(*   - the spend counter is the sum of the settled payments;                *)
(*   - a finished request finds its settlement while the database answers;  *)
(*   - a call is charged a price its body has had, within the per-request   *)
(*     cap unless the prices crossed it;                                    *)
(*   - the audit trail leaves the pipeline as it is and agrees with it.     *)
(***************************************************************************)
EXTENDS AuditTrailProps, PaidCallsProofs, Functions, FiniteSetTheorems, WellFoundedInduction, SequenceTheorems
-----------------------------------------------------------------------------
(* Sums over finite sets.  SumFunctionOnSet of the community modules adds   *)
(* the elements in an order CHOOSE fixes; the lemmas say that the order     *)
(* does not matter: a sum grows by what is added to its set, and depends on *)
(* the function only there.                                                *)
(*                                                                         *)
(* Induction runs over the subsets of a finite set and picks a smallest     *)
(* counterexample, a set, so that no lemma takes an operator.               *)

\* The element SumFunctionOnSet adds next.
Any(S) == CHOOSE x \in S : TRUE

\* One unfolding of the recursion: h gives the sum of f over S.
Unfolds(f, h, S) == h[S] = IF S = {} THEN 0 ELSE f[Any(S)] + h[S \ {Any(S)}]

\* h gives the sum of f over every subset of T.
Sums(f, T, h) ==
    h = [S \in SUBSET T |-> IF S = {} THEN 0 ELSE f[Any(S)] + h[S \ {Any(S)}]]

\* Of any sets, all subsets of one finite set, one has none of them below it.
LEMMA SmallestSubset ==
    ASSUME NEW T, IsFiniteSet(T), NEW A \in SUBSET SUBSET T, A # {}
    PROVE  \E S \in A : \A R \in A : R \subseteq S => R = S
<1>1. IsWellFoundedOn(StrictSubsetOrdering(T), SUBSET T)
  BY FS_StrictSubsetOrderingWellFounded, FS_FiniteSubsetsOfFinite
<1>2. PICK S \in A : \A R \in A : ~(<<R, S>> \in StrictSubsetOrdering(T))
  BY <1>1, WFMin
<1>3. QED
  BY <1>2 DEF StrictSubsetOrdering

\* What is added next is in the set, and the rest is a smaller set.
LEMMA AnyIsIn ==
    ASSUME NEW S, S # {}
    PROVE  Any(S) \in S /\ S \ {Any(S)} \subseteq S /\ S \ {Any(S)} # S
BY DEF Any

\* A function that gives the sums over every subset unfolds on each.
LEMMA SumsUnfold ==
    ASSUME NEW T, NEW f, NEW h, Sums(f, T, h)
    PROVE  \A S \in SUBSET T : Unfolds(f, h, S)
BY DEF Sums, Unfolds

\* There is one way to sum: two functions that unfold alike agree.
LEMMA SumsAgree ==
    ASSUME NEW T, IsFiniteSet(T), NEW f, NEW g, \A x \in T : f[x] = g[x],
           NEW h, \A S \in SUBSET T : Unfolds(f, h, S),
           NEW k, \A S \in SUBSET T : Unfolds(g, k, S)
    PROVE  \A S \in SUBSET T : h[S] = k[S]
<1> DEFINE Apart == {S \in SUBSET T : h[S] # k[S]}
<1>1. SUFFICES ASSUME Apart # {} PROVE FALSE
  OBVIOUS
<1>2. PICK S \in Apart : \A R \in Apart : R \subseteq S => R = S
  <2>1. Apart \in SUBSET SUBSET T
    OBVIOUS
  <2> HIDE DEF Apart
  <2>2. QED
    BY <1>1, <2>1, SmallestSubset
<1>3. S \in SUBSET T /\ h[S] # k[S]
  OBVIOUS
<1>4. CASE S = {}
  BY <1>3, <1>4 DEF Unfolds
<1>5. CASE S # {}
  <2>1. Any(S) \in S /\ S \ {Any(S)} \subseteq S /\ S \ {Any(S)} # S
    BY <1>5, AnyIsIn
  <2>2. S \ {Any(S)} \notin Apart
    BY <1>2, <2>1
  <2>3. h[S \ {Any(S)}] = k[S \ {Any(S)}] /\ f[Any(S)] = g[Any(S)]
    BY <1>3, <2>1, <2>2
  <2>4. h[S] = f[Any(S)] + h[S \ {Any(S)}] /\ k[S] = g[Any(S)] + k[S \ {Any(S)}]
    BY <1>3, <1>5 DEF Unfolds
  <2>5. QED
    BY <1>3, <2>3, <2>4
<1>6. QED
  BY <1>4, <1>5

\* The recursion has a solution for every finite set.
LEMMA SumsExist ==
    ASSUME NEW T, IsFiniteSet(T), NEW f
    PROVE  \E h : Sums(f, T, h)
<1> DEFINE Solved(S) == \E h : Sums(f, S, h)
           Unsolved == {S \in SUBSET T : ~Solved(S)}
<1>1. SUFFICES ASSUME Unsolved # {} PROVE FALSE
  OBVIOUS
<1>2. PICK S \in Unsolved : \A R \in Unsolved : R \subseteq S => R = S
  <2>1. Unsolved \in SUBSET SUBSET T
    OBVIOUS
  <2> HIDE DEF Unsolved
  <2>2. QED
    BY <1>1, <2>1, SmallestSubset
<1>3. S \in SUBSET T /\ ~Solved(S) /\ \A R \in SUBSET S : R # S => Solved(R)
  BY <1>2
<1> DEFINE sol(R) == CHOOSE h : Sums(f, R, h)
           val(R) == sol(R)[R]
           step(R) == IF R = {} THEN 0 ELSE f[Any(R)] + val(R \ {Any(R)})
           sum == [R \in SUBSET S |-> step(R)]
<1>4. \A R \in SUBSET S : R # S => Sums(f, R, sol(R))
  BY <1>3
<1>5. ASSUME NEW R \in SUBSET S, R # S
      PROVE  val(R) = step(R)
  <2>1. \A Q \in SUBSET R : Unfolds(f, sol(R), Q)
    <3>1. Sums(f, R, sol(R))
      BY <1>4, <1>5
    <3> HIDE DEF sol
    <3>2. QED
      BY <3>1, SumsUnfold
  <2>2. CASE R = {}
    BY <2>1, <2>2 DEF Unfolds
  <2>3. CASE R # {}
    <3> DEFINE Q == R \ {Any(R)}
    <3>1. Q \in SUBSET R /\ Q \in SUBSET S /\ Q # S
      BY <1>5, <2>3, AnyIsIn
    <3>2. \A P \in SUBSET Q : Unfolds(f, sol(Q), P)
      <4>1. Sums(f, Q, sol(Q))
        BY <1>4, <3>1
      <4> HIDE DEF sol, Q
      <4>2. QED
        BY <4>1, SumsUnfold
    <3>3. IsFiniteSet(Q)
      BY <1>3, <3>1, FS_Subset
    <3>4. \A P \in SUBSET Q : Unfolds(f, sol(R), P)
      BY <2>1, <3>1
    <3> HIDE DEF sol
    <3>5. sol(R)[Q] = sol(Q)[Q]
      <4> DEFINE h == sol(R)
                 k == sol(Q)
      <4>1. (\A P \in SUBSET Q : Unfolds(f, h, P)) /\ \A P \in SUBSET Q : Unfolds(f, k, P)
        BY <3>2, <3>4
      <4> HIDE DEF h, k, Q
      <4>2. h[Q] = k[Q]
        BY <3>3, <4>1, SumsAgree
      <4>3. QED
        BY <4>2 DEF h, k
    <3>6. sol(R)[R] = f[Any(R)] + sol(R)[Q]
      BY <2>1, <2>3 DEF Unfolds
    <3>7. val(R) = f[Any(R)] + val(Q)
      BY <3>5, <3>6
    <3> HIDE DEF val
    <3>8. QED
      BY <2>3, <3>7
  <2>4. QED
    BY <2>2, <2>3
<1>6. Sums(f, S, sum)
  <2> HIDE DEF val
  <2>1. ASSUME NEW R \in SUBSET S, R # {}
        PROVE  sum[R \ {Any(R)}] = val(R \ {Any(R)})
    <3>1. R \ {Any(R)} \in SUBSET S /\ R \ {Any(R)} # S
      BY <2>1, AnyIsIn
    <3>2. QED
      BY <1>5, <3>1
  <2>2. QED
    BY <2>1 DEF Sums
<1>7. QED
  BY <1>3, <1>6

\* What SumFunctionOnSet computes unfolds on every subset.
LEMMA SumUnfolds ==
    ASSUME NEW T, IsFiniteSet(T), NEW f
    PROVE  \E h : (\A S \in SUBSET T : Unfolds(f, h, S)) /\ SumFunctionOnSet(f, T) = h[T]
<1> DEFINE h == CHOOSE k : Sums(f, T, k)
<1>1. Sums(f, T, h)
  BY SumsExist
<1>2. SumFunctionOnSet(f, T) = h[T]
  BY DEF SumFunctionOnSet, FoldFunctionOnSet, MapThenFoldSet, Sums, Any
<1> HIDE DEF h
<1>3. \A S \in SUBSET T : Unfolds(f, h, S)
  BY <1>1, SumsUnfold
<1>4. QED
  BY <1>2, <1>3

\* A sum depends on the function only where it is summed.
LEMMA SumIsLocal ==
    ASSUME NEW T, IsFiniteSet(T), NEW f, NEW g, \A x \in T : f[x] = g[x]
    PROVE  SumFunctionOnSet(f, T) = SumFunctionOnSet(g, T)
<1>1. PICK h : (\A S \in SUBSET T : Unfolds(f, h, S)) /\ SumFunctionOnSet(f, T) = h[T]
  BY SumUnfolds
<1>2. PICK k : (\A S \in SUBSET T : Unfolds(g, k, S)) /\ SumFunctionOnSet(g, T) = k[T]
  BY SumUnfolds
<1>3. QED
  BY <1>1, <1>2, SumsAgree

\* The sums over the subsets of T, each on its own, unfold.
LEMMA SubsetSumUnfolds ==
    ASSUME NEW T, IsFiniteSet(T), NEW f
    PROVE  SumFunctionOnSet(f, T) =
              IF T = {} THEN 0 ELSE f[Any(T)] + SumFunctionOnSet(f, T \ {Any(T)})
<1>1. PICK h : (\A S \in SUBSET T : Unfolds(f, h, S)) /\ SumFunctionOnSet(f, T) = h[T]
  BY SumUnfolds
<1>2. CASE T = {}
  BY <1>1, <1>2 DEF Unfolds
<1>3. CASE T # {}
  <2> DEFINE R == T \ {Any(T)}
  <2>1. R \in SUBSET T /\ IsFiniteSet(R)
    BY FS_Subset
  <2>2. PICK k : (\A S \in SUBSET R : Unfolds(f, k, S)) /\ SumFunctionOnSet(f, R) = k[R]
    BY <2>1, SumUnfolds
  <2>3. \A S \in SUBSET R : Unfolds(f, h, S)
    BY <1>1, <2>1
  <2> HIDE DEF R
  <2>4. h[R] = k[R]
    BY <2>1, <2>2, <2>3, SumsAgree
  <2>5. h[T] = f[Any(T)] + h[R]
    BY <1>1, <1>3 DEF Unfolds, R
  <2>6. QED
    BY <1>1, <1>3, <2>2, <2>4, <2>5 DEF R
<1>4. QED
  BY <1>2, <1>3

\* The empty sum is zero.
LEMMA SumOfNothing ==
    ASSUME NEW f
    PROVE  SumFunctionOnSet(f, {}) = 0
BY SubsetSumUnfolds, FS_EmptySet

\* A sum of naturals is a natural number.
LEMMA SumType ==
    ASSUME NEW T, IsFiniteSet(T), NEW f, \A x \in T : f[x] \in Nat
    PROVE  SumFunctionOnSet(f, T) \in Nat
<1> DEFINE Bad == {S \in SUBSET T : SumFunctionOnSet(f, S) \notin Nat}
<1>1. SUFFICES ASSUME Bad # {} PROVE FALSE
  BY DEF Bad
<1>2. PICK S \in Bad : \A R \in Bad : R \subseteq S => R = S
  <2>1. Bad \in SUBSET SUBSET T
    OBVIOUS
  <2> HIDE DEF Bad
  <2>2. QED
    BY <1>1, <2>1, SmallestSubset
<1>3. S \in SUBSET T /\ IsFiniteSet(S) /\ SumFunctionOnSet(f, S) \notin Nat
  BY FS_Subset
<1>4. S # {}
  BY <1>3, SumOfNothing
<1>5. Any(S) \in S /\ S \ {Any(S)} \subseteq S /\ S \ {Any(S)} # S
  BY <1>4, AnyIsIn
<1>6. SumFunctionOnSet(f, S \ {Any(S)}) \in Nat
  BY <1>2, <1>3, <1>5
<1>7. SumFunctionOnSet(f, S) = f[Any(S)] + SumFunctionOnSet(f, S \ {Any(S)})
  BY <1>3, <1>4, SubsetSumUnfolds
<1>8. f[Any(S)] \in Nat
  BY <1>3, <1>5
<1> HIDE DEF Bad
<1>9. QED
  BY <1>3, <1>6, <1>7, <1>8

\* A new element adds its own value, whatever CHOOSE adds first.
LEMMA SumAdds ==
    ASSUME NEW T, IsFiniteSet(T), NEW f, \A x \in T : f[x] \in Nat, NEW c \in T
    PROVE  SumFunctionOnSet(f, T) = SumFunctionOnSet(f, T \ {c}) + f[c]
<1> DEFINE Adds(S) == \A x \in S : SumFunctionOnSet(f, S) = SumFunctionOnSet(f, S \ {x}) + f[x]
           Bad == {S \in SUBSET T : ~Adds(S)}
<1>1. SUFFICES ASSUME Bad # {} PROVE FALSE
  BY DEF Bad
<1>2. PICK S \in Bad : \A R \in Bad : R \subseteq S => R = S
  <2>1. Bad \in SUBSET SUBSET T
    OBVIOUS
  <2> HIDE DEF Bad
  <2>2. QED
    BY <1>1, <2>1, SmallestSubset
<1>3. S \in SUBSET T /\ ~Adds(S) /\ \A R \in SUBSET S : R # S => Adds(R)
  BY <1>2
<1>4. PICK x \in S : SumFunctionOnSet(f, S) # SumFunctionOnSet(f, S \ {x}) + f[x]
  BY <1>3
<1> DEFINE a == Any(S)
<1>5. a \in S /\ S \ {a} \in SUBSET S /\ S \ {a} # S /\ S \ {x} \in SUBSET S /\ S \ {x} # S
  BY <1>4, AnyIsIn
<1> HIDE DEF a
<1>6. SumFunctionOnSet(f, S) = f[a] + SumFunctionOnSet(f, S \ {a})
  <2>1. IsFiniteSet(S)
    BY <1>3, FS_Subset
  <2>2. QED
    BY <1>4, <2>1, SubsetSumUnfolds DEF a
<1>7. \A R \in SUBSET S : SumFunctionOnSet(f, R) \in Nat
  BY <1>3, FS_Subset, SumType
<1>8. f[a] \in Nat /\ f[x] \in Nat
  BY <1>3, <1>4, <1>5
<1>9. a # x
  BY <1>4, <1>5, <1>6, <1>7, <1>8
<1> DEFINE R == (S \ {a}) \ {x}
<1>10. R = (S \ {x}) \ {a} /\ R \in SUBSET S
  OBVIOUS
<1>11. SumFunctionOnSet(f, S \ {a}) = SumFunctionOnSet(f, R) + f[x]
  <2>1. Adds(S \ {a}) /\ x \in S \ {a}
    BY <1>3, <1>4, <1>5, <1>9
  <2>2. QED
    BY <2>1
<1>12. SumFunctionOnSet(f, S \ {x}) = SumFunctionOnSet(f, R) + f[a]
  <2>1. Adds(S \ {x}) /\ a \in S \ {x}
    BY <1>3, <1>4, <1>5, <1>9
  <2>2. QED
    BY <1>10, <2>1
<1>13. SumFunctionOnSet(f, R) \in Nat
  BY <1>7, <1>10
<1> HIDE DEF R, Bad, Adds
<1>14. QED
  BY <1>4, <1>6, <1>8, <1>11, <1>12, <1>13
-----------------------------------------------------------------------------
(* The contract.  Each action of the pipeline is one step of it, or leaves  *)
(* served, paid and recorded alone:                                        *)
(*   Complete, Deliver                          Serve                      *)
(*   CompletionFails, DeliveryFails             Serve, or nothing          *)
(*   Transfer                                   Pay                        *)
(*   RecordSettlement, RecordSettlementThrows   Record, or nothing         *)

Stutters == UNCHANGED <<Served, Paid, SettledPayments>>

\* Closing the row of a completion is the call's one Serve.
LEMMA ClosingServes ==
    ASSUME IInv, NEW c \in Calls, pc[c] = "serving", row' = [row EXCEPT ![c] = "SETTLED"],
           UNCHANGED <<claim, payment>>, Paid' = Paid
    PROVE  Contract!Serve(c)
<1> USE CallsAssumption DEF IInv, Agreement, TypeOK, StateTypeOK, Procs, CallInv, StoreInv
<1>1. c \notin Served /\ KindOf[c] # "stream"
  BY DEF Served, Delivered, GetInv
<1>2. Served' = Served \cup {c}
  BY DEF Served, Delivered
<1>3. SettledPayments' = SettledPayments
  BY DEF SettledPayments
<1>4. QED
  BY <1>1, <1>2, <1>3 DEF Contract!Serve

\* Closing the row of a delivery is the one Serve of the call whose ticket the
\* GET claimed.
LEMMA DeliveryServes ==
    ASSUME IInv, NEW g \in Gets, pc[g] = "delivering", row' = [row EXCEPT ![g] = "SETTLED"],
           UNCHANGED <<claim, payment, transfer>>
    PROVE  claim[g] \in Calls /\ Contract!Serve(claim[g])
<1> USE CallsAssumption DEF IInv, Agreement, TypeOK, StateTypeOK, Procs
<1> DEFINE c == claim[g]
<1>1. c \in Calls /\ c # Nothing /\ KindOf[c] = "stream" /\ pc[c] = "answered"
      /\ row[g] = "PENDING"
  BY DEF GetInv
<1>2. c \in Paid
  BY <1>1 DEF Paid, CallInv
<1>3. c \notin Served
  BY <1>1 DEF Served, Delivered, StoreInv, OneDeliveryPerPayment
<1>4. Served' = Served \cup {c}
  BY <1>1 DEF Served, Delivered
<1>5. Paid' = Paid /\ SettledPayments' = SettledPayments
  BY DEF Paid, SettledPayments
<1>6. QED
  BY <1>1, <1>2, <1>3, <1>4, <1>5 DEF Contract!Serve

\* A completion's row is closed in the step that asks for the settlement, or by
\* an update that committed and threw.
LEMMA CompletionServes ==
    ASSUME IInv, NEW c \in Calls, Complete(c) \/ CompletionFails(c)
    PROVE  Contract!Serve(c) \/ Stutters
<1> USE CallsAssumption DEF IInv, Agreement, TypeOK, StateTypeOK, Procs
<1>1. pc[c] = "serving" /\ row[c] = "PENDING" /\ transfer[c] = "none"
      /\ UNCHANGED <<claim, payment>>
  BY DEF Complete, CompletionFails, CallInv
<1>2. Paid' = Paid
  BY <1>1 DEF Complete, CompletionFails, Settle, Paid
<1>3. CASE row' = [row EXCEPT ![c] = "SETTLED"]
  BY <1>1, <1>2, <1>3, ClosingServes
<1>4. CASE UNCHANGED row \/ row' = [row EXCEPT ![c] = "FAILED"]
  BY <1>1, <1>2, <1>4 DEF Stutters, Served, Delivered, SettledPayments
<1>5. QED
  BY <1>3, <1>4 DEF Complete, CompletionFails, FailRow

\* A delivery's row is closed when the stream ends, or by an update that
\* committed and threw.
LEMMA DeliveringServes ==
    ASSUME IInv, NEW g \in Gets, Deliver(g) \/ DeliveryFails(g)
    PROVE  claim[g] \in Calls /\ (Contract!Serve(claim[g]) \/ Stutters)
<1> USE CallsAssumption DEF IInv, Agreement, TypeOK, StateTypeOK, Procs
<1>1. pc[g] = "delivering" /\ row[g] = "PENDING" /\ claim[g] \in Calls
      /\ UNCHANGED <<claim, payment, transfer>>
  BY DEF Deliver, DeliveryFails, GetInv
<1>2. CASE row' = [row EXCEPT ![g] = "SETTLED"]
  BY <1>1, <1>2, DeliveryServes
<1>3. CASE UNCHANGED row \/ row' = [row EXCEPT ![g] = "FAILED"]
  BY <1>1, <1>3 DEF Stutters, Served, Delivered, Paid, SettledPayments
<1>4. QED
  BY <1>1, <1>2, <1>3 DEF Deliver, DeliveryFails, FailRow

\* The transfer is the call's one Pay; for a completion the work came first.
LEMMA TransferPays ==
    ASSUME IInv, NEW c \in Calls, Transfer(c)
    PROVE  Contract!Pay(c)
<1> USE CallsAssumption DEF IInv, Agreement, TypeOK, StateTypeOK, Procs, memoryVars, storeVars,
       Transfer, StoreInv
<1>1. c \notin Paid /\ Paid' = Paid \cup {c}
  BY DEF Paid
<1>2. KindOf[c] = "completion" => c \in Served
  BY DEF Served
<1>3. Served' = Served /\ SettledPayments' = SettledPayments
  BY DEF Served, Delivered, SettledPayments
<1>4. QED
  BY <1>1, <1>2, <1>3 DEF Contract!Pay

\* Booking a settlement records a payment that moved, or records nothing.
LEMMA BookingRecords ==
    ASSUME IInv, NEW c \in Calls, RecordSettlement(c) \/ RecordSettlementThrows(c)
    PROVE  Contract!Record(c) \/ Stutters
<1>1. Served' = Served /\ Paid' = Paid
  BY DEF Served, Delivered, Paid, RecordSettlement, RecordSettlementThrows
<1>2. pc[c] = "booking" /\ (WritePayment(c) \/ UNCHANGED payment)
  BY DEF RecordSettlement, RecordSettlementThrows
<1>3. CASE UNCHANGED payment
  BY <1>1, <1>3 DEF Stutters, SettledPayments
<1>4. CASE WritePayment(c)
  <2>1. /\ payment'[c] # Nothing
        /\ payment'[c].status = "SETTLED" => settlement[c] = "success"
        /\ \A d \in Calls : d # c => payment'[d] = payment[d]
    BY <1>2, <1>4, WritePaymentRow
  <2>2. c \notin SettledPayments
    BY <1>2 DEF SettledPayments, IInv, Agreement, CallInv, Accepted
  <2>3. CASE payment'[c].status = "SETTLED"
    <3>1. c \in Paid
      BY <2>1, <2>3 DEF Paid, IInv, Agreement, CallInv
    <3>2. SettledPayments' = SettledPayments \cup {c}
      BY <2>1, <2>3 DEF SettledPayments
    <3>3. QED
      BY <1>1, <2>2, <3>1, <3>2 DEF Contract!Record
  <2>4. CASE payment'[c].status # "SETTLED"
    <3>1. SettledPayments' = SettledPayments
      BY <2>1, <2>2, <2>4 DEF SettledPayments
    <3>2. QED
      BY <1>1, <3>1 DEF Stutters
  <2>5. QED
    BY <2>3, <2>4
<1>5. QED
  BY <1>2, <1>3, <1>4

\* A call's other steps serve, pay and record nothing.
LEMMA CallStutters ==
    ASSUME IInv, NEW c \in Calls,
           \/ /\ CallStep(c) /\ ~Complete(c) /\ ~CompletionFails(c)
              /\ ~RecordSettlement(c) /\ ~RecordSettlementThrows(c)
           \/ LoadSession(c) \/ SweepTicket(c)
    PROVE  Stutters
<1> USE CallsAssumption DEF IInv, Agreement, TypeOK, StateTypeOK, Procs, memoryVars, storeVars,
       Stutters, Served, Delivered, Paid, SettledPayments
<1>1. CASE \/ LoadSession(c) \/ SweepTicket(c) \/ NameChecked(c) \/ StartCount(c)
           \/ CountFails(c) \/ DynamicPrice(c) \/ QuotePreview(c) \/ Verify(c)
           \/ SettleThrows(c) \/ Reply(c)
  BY <1>1 DEF LoadSession, SweepTicket, NameChecked, StartCount, CountFails, DynamicPrice,
     QuotePreview, Verify, SettleThrows, Reply
<1>2. CASE HandlerPrice(c)
  BY <1>2 DEF HandlerPrice, Settle, CallInv
<1>3. CASE OpenRow(c) \/ OpenRowFails(c)
  BY <1>3 DEF OpenRow, OpenRowFails, CallInv
<1>4. CASE SettleAnswered(c)
  BY <1>4 DEF SettleAnswered
<1>5. QED
  BY <1>1, <1>2, <1>3, <1>4 DEF CallStep

\* A GET's other steps serve, pay and record nothing: what it claims, opens and
\* links is not yet delivered.
LEMMA GetStutters ==
    ASSUME IInv, NEW g \in Gets,
           \/ GetStep(g) /\ ~Deliver(g) /\ ~DeliveryFails(g)
           \/ \E c \in Calls : ClaimTicket(g, c)
    PROVE  Stutters
<1> USE CallsAssumption DEF IInv, Agreement, TypeOK, StateTypeOK, Procs, storeVars, Stutters,
       Served, Delivered, Paid, SettledPayments, GetInv
<1>1. CASE OpenDelivery(g) \/ OpenDeliveryFails(g)
  BY <1>1 DEF OpenDelivery, OpenDeliveryFails
<1>2. CASE LinkPayment(g)
  <2>1. ASSUME claim[g] \in booked PROVE payment[claim[g]] \in PaymentRow
    BY <2>1 DEF StoreInv
  <2>2. \A c \in Calls : c \in SettledPayments' <=> c \in SettledPayments
    BY <1>2, <2>1, NothingAssumption DEF LinkPayment, PaymentRow
  <2>3. QED
    BY <1>2, <2>2 DEF LinkPayment
<1>3. CASE \E c \in Calls : ClaimTicket(g, c)
  BY <1>3 DEF ClaimTicket, Goto
<1>4. QED
  BY <1>1, <1>2, <1>3 DEF GetStep

\* Every step of the pipeline maps to a step of the contract or a stutter.
LEMMA ContractStep == IInv /\ [Next]_vars => Contract!Next \/ Stutters
<1> SUFFICES ASSUME IInv, [Next]_vars PROVE Contract!Next \/ Stutters
  OBVIOUS
<1>1. ASSUME NEW c \in Calls, LoadSession(c) \/ CallStep(c) \/ Transfer(c) \/ SweepTicket(c)
      PROVE  Contract!Next \/ Stutters
  BY <1>1, CompletionServes, TransferPays, BookingRecords, CallStutters DEF Contract!Next
<1>2. ASSUME NEW g \in Gets, GetStep(g) \/ \E c \in Calls : ClaimTicket(g, c)
      PROVE  Contract!Next \/ Stutters
  BY <1>2, DeliveringServes, GetStutters DEF Contract!Next
<1>3. ASSUME \/ \E s \in Sessions : Shut(s)
             \/ \E b \in Bodies : CacheAges(b) \/ CatalogueRefresh(b)
             \/ Restart
             \/ UNCHANGED vars
      PROVE  Stutters
  BY <1>3 DEF Shut, CacheAges, CatalogueRefresh, Restart, vars, memoryVars, storeVars,
     Stutters, Served, Delivered, Paid, SettledPayments
<1>4. QED
  BY <1>1, <1>2, <1>3 DEF Next

\* The gateway keeps its contract with a paying client: whatever fails, times
\* out or restarts, each call is served, paid and recorded at most once, in the
\* order its endpoint promises (routes/chat.ts, x402.ts:40-73, ledger.ts:79).
THEOREM ContractIsHonoured == Spec => HonoursContract
<1>1. Init => Contract!Init
  BY CallsAssumption DEF Init, Contract!Init, Served, Delivered, Paid, SettledPayments, Procs
<1>2. IInv /\ [Next]_vars => [Contract!Next]_(Contract!contractVars)
  BY ContractStep DEF Stutters, Contract!contractVars
<1>3. QED
  BY <1>1, <1>2, InvariantHolds, PTL DEF Spec, HonoursContract, Contract!Spec
-----------------------------------------------------------------------------
(* The spend counter *)

\* The payments a step may write: none, one that is booked, or the request of
\* one that is linked.
BooksCall(c) == pc[c] = "booking" /\ WritePayment(c)
LinksCall(c, g) ==
    /\ payment[c] # Nothing
    /\ payment' = [payment EXCEPT ![c].request = g]
    /\ UNCHANGED spent

LEMMA PaymentStep ==
    ASSUME IInv, [Next]_vars
    PROVE  \/ UNCHANGED <<payment, spent>>
           \/ \E c \in Calls : BooksCall(c) \/ \E g \in Gets : LinksCall(c, g)
<1>1. ASSUME NEW c \in Calls, CallStep(c)
      PROVE  UNCHANGED <<payment, spent>> \/ BooksCall(c)
  BY <1>1 DEF CallStep, NameChecked, StartCount, CountFails, DynamicPrice, QuotePreview,
     Verify, HandlerPrice, OpenRow, OpenRowFails, Complete, CompletionFails, SettleAnswered,
     SettleThrows, RecordSettlement, RecordSettlementThrows, Reply, BooksCall, memoryVars,
     storeVars
<1>2. ASSUME NEW c \in Calls, LoadSession(c) \/ Transfer(c) \/ SweepTicket(c)
      PROVE  UNCHANGED <<payment, spent>>
  BY <1>2 DEF LoadSession, Transfer, SweepTicket, storeVars
<1>3. ASSUME NEW g \in Gets, GetStep(g) \/ \E c \in Calls : ClaimTicket(g, c)
      PROVE  UNCHANGED <<payment, spent>> \/ \E c \in Calls : LinksCall(c, g)
  <2>1. CASE LinkPayment(g) /\ claim[g] \in booked
    <3>1. claim[g] \in Calls /\ payment[claim[g]] # Nothing
      BY <2>1 DEF IInv, Agreement, StoreInv, TypeOK, StateTypeOK
    <3>2. QED
      BY <2>1, <3>1 DEF LinkPayment, LinksCall
  <2>2. CASE ~(LinkPayment(g) /\ claim[g] \in booked)
    BY <1>3, <2>2 DEF GetStep, ClaimTicket, OpenDelivery, OpenDeliveryFails, LinkPayment,
       Deliver, DeliveryFails, storeVars
  <2>3. QED
    BY <2>1, <2>2
<1>4. ASSUME \/ \E s \in Sessions : Shut(s)
             \/ \E b \in Bodies : CacheAges(b) \/ CatalogueRefresh(b)
             \/ Restart \/ UNCHANGED vars
      PROVE  UNCHANGED <<payment, spent>>
  BY <1>4 DEF Shut, CacheAges, CatalogueRefresh, Restart, vars, storeVars
<1>5. QED
  BY <1>1, <1>2, <1>3, <1>4 DEF Next

\* A session's settled payments are finitely many, of natural amounts.
LEMMA SettledAmounts ==
    ASSUME IInv, NEW s \in Sessions
    PROVE  /\ IsFiniteSet(SettledIn(s))
           /\ \A c \in SettledIn(s) : AmountIn(s)[c] = payment[c].amount
           /\ \A c \in SettledIn(s) : AmountIn(s)[c] \in Nat
<1>1. SettledIn(s) \subseteq Calls
  BY DEF SettledIn
<1>2. IsFiniteSet(SettledIn(s))
  BY <1>1, CallsAssumption, FS_Subset
<1>3. \A c \in SettledIn(s) : payment[c] \in PaymentRow
  BY DEF SettledIn, IInv, TypeOK, StateTypeOK
<1>4. QED
  BY <1>2, <1>3 DEF AmountIn, PaymentRow, Prices

\* Booking a success adds its amount to the counter and its payment to the
\* settled ones; booking a failure adds nothing to either.
LEMMA BookingAddsUp ==
    ASSUME IInv, IInv', SpendIsSumOfPayments, NEW c \in Calls, BooksCall(c), NEW s \in Sessions
    PROVE  spent'[s] = SumFunctionOnSet(AmountIn(s)', SettledIn(s)')
<1>1. spent[s] = SumFunctionOnSet(AmountIn(s), SettledIn(s)) /\ spent \in [Sessions -> Nat]
  BY DEF SpendIsSumOfPayments, IInv, TypeOK, StateTypeOK
<1>2. payment[c] = Nothing /\ required[c] \in Prices
  BY DEF BooksCall, IInv, Agreement, CallInv, Accepted
<1>3. /\ \A d \in Calls : d # c => payment'[d] = payment[d]
      /\ payment'[c] \in PaymentRow /\ payment'[c].amount = required[c]
      /\ payment'[c].status = "SETTLED" <=> settlement[c] = "success"
  <2> DEFINE p == [status |-> StatusOf(c), amount |-> required[c], request |-> RequestOf(c)]
  <2>1. payment \in [Calls -> PaymentRow \cup {Nothing}] /\ payment' = [payment EXCEPT ![c] = p]
    BY DEF BooksCall, WritePayment, IInv, TypeOK, StateTypeOK
  <2>2. p \in PaymentRow /\ p.amount = required[c] /\ p.status = StatusOf(c)
    BY <1>2 DEF PaymentRow, Procs, StatusOf, RequestOf
  <2> HIDE DEF p
  <2>3. QED
    BY <2>1, <2>2 DEF StatusOf
<1>4. /\ IsFiniteSet(SettledIn(s)) /\ IsFiniteSet(SettledIn(s)')
      /\ \A d \in SettledIn(s) : AmountIn(s)[d] = payment[d].amount
      /\ \A d \in SettledIn(s)' : AmountIn(s)'[d] = payment'[d].amount
      /\ \A d \in SettledIn(s)' : AmountIn(s)'[d] \in Nat
  <2>1. SettledIn(s)' \subseteq Calls
    BY DEF SettledIn
  <2>2. IsFiniteSet(SettledIn(s)')
    BY <2>1, CallsAssumption, FS_Subset
  <2>3. \A d \in SettledIn(s)' : payment'[d] \in PaymentRow
    BY DEF SettledIn, IInv, TypeOK, StateTypeOK
  <2>4. QED
    BY <2>2, <2>3, SettledAmounts DEF AmountIn, PaymentRow, Prices
<1>5. c \notin SettledIn(s) /\ \A d \in SettledIn(s) : payment[d] = payment'[d]
  BY <1>2, <1>3 DEF SettledIn
<1>6. ASSUME SettledIn(s) \subseteq SettledIn(s)'
      PROVE  SumFunctionOnSet(AmountIn(s)', SettledIn(s)) = spent[s]
  <2> DEFINE T == SettledIn(s)
             f == AmountIn(s)'
             g == AmountIn(s)
  <2>1. IsFiniteSet(T) /\ \A d \in T : f[d] = g[d]
    BY <1>4, <1>5, <1>6
  <2> HIDE DEF T, f, g
  <2>2. SumFunctionOnSet(f, T) = SumFunctionOnSet(g, T)
    BY <2>1, SumIsLocal
  <2>3. QED
    BY <1>1, <2>2 DEF T, f, g
<1>7. CASE settlement[c] = "success" /\ SessionOf[c] = s
  <2>1. SettledIn(s)' = SettledIn(s) \cup {c}
    BY <1>2, <1>3, <1>7, NothingAssumption DEF SettledIn
  <2>2. SettledIn(s)' \ {c} = SettledIn(s) /\ c \in SettledIn(s)'
    BY <1>5, <2>1
  <2>3. SumFunctionOnSet(AmountIn(s)', SettledIn(s)')
          = SumFunctionOnSet(AmountIn(s)', SettledIn(s)) + AmountIn(s)'[c]
    <3> DEFINE T == SettledIn(s)'
               f == AmountIn(s)'
    <3>1. IsFiniteSet(T) /\ (\A x \in T : f[x] \in Nat) /\ c \in T
      BY <1>4, <2>2
    <3> HIDE DEF T, f
    <3>2. SumFunctionOnSet(f, T) = SumFunctionOnSet(f, T \ {c}) + f[c]
      BY <3>1, SumAdds
    <3>3. QED
      BY <2>2, <3>2 DEF T, f
  <2>4. AmountIn(s)'[c] = required[c]
    BY <1>3, <1>4, <2>2
  <2>5. spent'[s] = spent[s] + required[c]
    BY <1>1, <1>7 DEF BooksCall, WritePayment, Charge
  <2>6. QED
    BY <1>1, <1>6, <2>1, <2>3, <2>4, <2>5
<1>8. CASE ~(settlement[c] = "success" /\ SessionOf[c] = s)
  <2>1. SettledIn(s)' = SettledIn(s)
    BY <1>2, <1>3, <1>8 DEF SettledIn
  <2>2. spent'[s] = spent[s]
    BY <1>1, <1>8, CallsAssumption DEF BooksCall, WritePayment, Charge
  <2>3. QED
    BY <1>1, <1>6, <2>1, <2>2
<1>9. QED
  BY <1>7, <1>8

\* Pointing a payment at its request changes neither its amount nor its status.
LEMMA LinkingAddsNothing ==
    ASSUME IInv, SpendIsSumOfPayments, NEW c \in Calls, NEW g \in Gets, LinksCall(c, g),
           NEW s \in Sessions
    PROVE  spent'[s] = SumFunctionOnSet(AmountIn(s)', SettledIn(s)')
<1>1. payment \in [Calls -> PaymentRow \cup {Nothing}]
  BY DEF IInv, TypeOK, StateTypeOK
<1>2. \A d \in Calls : /\ payment'[d] = Nothing <=> payment[d] = Nothing
                       /\ payment[d] # Nothing =>
                             payment'[d].amount = payment[d].amount
                             /\ payment'[d].status = payment[d].status
  <2>1. payment'[c] \in PaymentRow
    BY <1>1 DEF LinksCall, PaymentRow, Procs
  <2>2. QED
    BY <1>1, <2>1, NothingAssumption DEF LinksCall, PaymentRow
<1>3. SettledIn(s)' = SettledIn(s)
  BY <1>2 DEF SettledIn
<1>4. AmountIn(s)' = AmountIn(s)
  BY <1>2, <1>3 DEF AmountIn, SettledIn
<1>5. QED
  BY <1>3, <1>4 DEF LinksCall, SpendIsSumOfPayments

LEMMA SpendStep == IInv /\ SpendIsSumOfPayments /\ [Next]_vars => SpendIsSumOfPayments'
<1> SUFFICES ASSUME IInv, SpendIsSumOfPayments, [Next]_vars, NEW s \in Sessions
             PROVE  spent'[s] = SumFunctionOnSet(AmountIn(s)', SettledIn(s)')
  BY DEF SpendIsSumOfPayments
<1>1. CASE UNCHANGED <<payment, spent>>
  BY <1>1 DEF SpendIsSumOfPayments, AmountIn, SettledIn
<1>2. IInv'
  BY StepAgreement
<1>3. QED
  BY <1>1, <1>2, PaymentStep, BookingAddsUp, LinkingAddsNothing

\* A session's spend counter is exactly the sum of its settled payments, after any
\* number of calls, failures and restarts: the row and the increment are one
\* transaction, and nothing else writes either (ledger.ts:84-111).
THEOREM SpendAddsUp == Spec => []SpendIsSumOfPayments
<1>1. Init => SpendIsSumOfPayments
  <2> SUFFICES ASSUME Init, NEW s \in Sessions
               PROVE  spent[s] = SumFunctionOnSet(AmountIn(s), SettledIn(s))
    BY DEF SpendIsSumOfPayments
  <2>1. SettledIn(s) = {} /\ spent[s] = 0
    BY DEF Init, SettledIn
  <2>2. QED
    BY <2>1, SumOfNothing
<1>2. QED
  BY <1>1, SpendStep, InvariantHolds, PTL DEF Spec
-----------------------------------------------------------------------------
(* A finished request finds its settlement *)

\* A call's steps before its settlement is booked touch nothing of the kind.
LEMMA EarlyStepFinds ==
    ASSUME IInv, FindInv, NEW c \in Calls,
           CallStep(c) \/ LoadSession(c) \/ Transfer(c) \/ SweepTicket(c),
           ~RecordSettlement(c), ~RecordSettlementThrows(c)
    PROVE  FindInv'
<1> USE CallsAssumption DEF IInv, TypeOK, StateTypeOK, Procs, memoryVars, storeVars, Goto
<1>1. /\ booked' = booked /\ payment' = payment /\ claim' = claim
      /\ \A p \in Procs : p # c => pc'[p] = pc[p]
      /\ pc'[c] # "replying" \/ pc' = pc
      /\ pc'[c] = "booking" => row' = row /\ (pc' = pc \/ pc[c] = "settling")
      /\ \A d \in Calls : d # c => row'[d] = row[d]
      /\ pc'[c] = "answered" => pc[c] \in {"replying", "answered"}
      /\ tickets' \subseteq tickets \cup {c}
      /\ c \in tickets' => c \in tickets \/ pc'[c] # "answered"
  <2>1. CASE \/ NameChecked(c) \/ StartCount(c) \/ CountFails(c) \/ DynamicPrice(c)
             \/ QuotePreview(c) \/ Verify(c) \/ LoadSession(c) \/ Transfer(c) \/ SweepTicket(c)
    BY <2>1 DEF NameChecked, StartCount, CountFails, DynamicPrice, QuotePreview, Verify,
       LoadSession, Transfer, SweepTicket
  <2>2. CASE HandlerPrice(c)
    BY <2>2 DEF HandlerPrice
  <2>3. CASE OpenRow(c) \/ OpenRowFails(c) \/ Complete(c)
    BY <2>3 DEF OpenRow, OpenRowFails, Complete
  <2>4. CASE CompletionFails(c)
    BY <2>4, FailedCompletionIsRefused DEF CompletionFails, FailRow
  <2>5. CASE SettleAnswered(c) \/ SettleThrows(c) \/ Reply(c)
    BY <2>5 DEF SettleAnswered, SettleThrows, Reply
  <2>6. QED
    BY <2>1, <2>2, <2>3, <2>4, <2>5 DEF CallStep
<1>2. \A d \in Calls : CallFinds(d)'
  <2>1. pc[c] = "settling" /\ KindOf[c] = "completion" => row[c] = "SETTLED"
    BY DEF Agreement, CallInv, StoreInv
  <2>2. QED
    BY <1>1, <2>1 DEF FindInv, CallFinds
<1>3. \A g \in Gets : GetFinds(g)'
  BY <1>1 DEF FindInv, GetFinds
<1>4. QED
  BY <1>2, <1>3 DEF FindInv, CallFinds, GetFinds

\* Booking puts the payment id into the context, and a completion's payment
\* names its request at once.
LEMMA BookingFinds ==
    ASSUME IInv, FindInv, NEW c \in Calls, RecordSettlement(c)
    PROVE  FindInv'
<1> USE CallsAssumption DEF IInv, TypeOK, StateTypeOK, Procs
<1>1. /\ booked' = booked \cup {c} /\ claim' = claim /\ tickets' = tickets
      /\ \A p \in Procs : p # c => pc'[p] = pc[p]
      /\ pc[c] = "booking" /\ pc'[c] = "replying" /\ WritePayment(c) /\ row' = row
  BY DEF RecordSettlement, Goto
<1>2. /\ payment'[c] # Nothing /\ payment'[c].request = RequestOf(c)
      /\ \A d \in Calls : d # c => payment'[d] = payment[d]
  <2> DEFINE p == [status |-> StatusOf(c), amount |-> required[c], request |-> RequestOf(c)]
  <2>1. payment' = [payment EXCEPT ![c] = p] /\ p.request = RequestOf(c)
    BY <1>1 DEF WritePayment
  <2> HIDE DEF p
  <2>2. QED
    BY <1>1, <2>1, WritePaymentRow
<1>3. KindOf[c] = "completion" => RequestOf(c) = c
  BY <1>1 DEF FindInv, CallFinds, RequestOf
<1>4. \A d \in Calls : CallFinds(d)'
  BY <1>1, <1>2, <1>3 DEF FindInv, CallFinds
<1>5. \A g \in Gets : claim[g] # c \/ pc[g] \notin {"opening", "linking", "delivering", "answered"}
  BY <1>1 DEF Agreement, GetInv
<1>6. \A g \in Gets : GetFinds(g)'
  <2>1. \A g \in Gets : pc'[g] = pc[g] /\ (claim[g] # Nothing => claim[g] \in Calls)
    BY <1>1
  <2>2. \A g \in Gets : pc[g] \in {"delivering", "answered"} => claim[g] # Nothing
    BY DEF Agreement, GetInv
  <2>3. QED
    BY <1>1, <1>2, <1>5, <2>1, <2>2 DEF FindInv, GetFinds
<1>7. QED
  BY <1>4, <1>6 DEF FindInv, CallFinds, GetFinds

\* A GET holds a ticket whose payment id is known, and links before it delivers;
\* without "db" faults none of its updates fails.
LEMMA GetStepFinds ==
    ASSUME IInv, FindInv, "db" \notin Faults, NEW g \in Gets,
           GetStep(g) \/ \E c \in Calls : ClaimTicket(g, c)
    PROVE  FindInv'
<1> USE CallsAssumption DEF IInv, TypeOK, StateTypeOK, Procs, memoryVars, storeVars, Goto
<1>1. \A p \in Procs : p # g => pc'[p] = pc[p] /\ row'[p] = row[p]
  BY DEF GetStep, ClaimTicket, OpenDelivery, OpenDeliveryFails, LinkPayment, Deliver,
     DeliveryFails, FailRow
<1>2. CASE LinkPayment(g)
  <2> DEFINE c == claim[g]
  <2>1. /\ c \in booked /\ c \in Calls /\ payment[c] # Nothing /\ KindOf[c] = "stream"
        /\ pc[g] = "linking" /\ pc'[g] = "delivering"
        /\ payment' = [payment EXCEPT ![c].request = g]
        /\ UNCHANGED <<booked, tickets, claim, row>>
    BY <1>2 DEF LinkPayment, FindInv, GetFinds, Agreement, StoreInv, GetInv
  <2>2. /\ payment'[c] # Nothing /\ payment'[c].request = g
        /\ \A d \in Calls : d # c => payment'[d] = payment[d]
    <3>1. payment'[c] \in PaymentRow /\ payment'[c].request = g
      BY <2>1 DEF PaymentRow
    <3>2. QED
      BY <2>1, <3>1, NothingAssumption
  <2>3. \A h \in Gets : h # g /\ claim[h] # Nothing => claim[h] # c /\ claim[h] \in Calls
    BY <2>1 DEF Agreement, OneDeliveryPerPayment
  <2>4. \A h \in Gets : pc[h] \in {"delivering", "answered"} => claim[h] # Nothing
    BY DEF Agreement, GetInv
  <2> HIDE DEF c
  <2>5. \A d \in Calls : CallFinds(d)'
    BY <1>1, <2>1, <2>2 DEF FindInv, CallFinds
  <2>6. \A h \in Gets : GetFinds(h)'
    BY <1>1, <2>1, <2>2, <2>3, <2>4 DEF FindInv, GetFinds, c
  <2>7. QED
    BY <2>5, <2>6 DEF FindInv
<1>3. CASE \E c \in Calls : ClaimTicket(g, c)
  <2>1. PICK c \in Calls : ClaimTicket(g, c)
    BY <1>3
  <2>2. /\ UNCHANGED <<booked, payment, row>> /\ tickets' = tickets \ {c}
        /\ pc[c] = "answered" /\ pc[g] = "new"
        /\ IF c \in tickets THEN pc'[g] = "opening" /\ claim' = [claim EXCEPT ![g] = c]
                            ELSE pc'[g] = "refused" /\ UNCHANGED claim
    BY <2>1 DEF ClaimTicket, TicketsWithout
  <2>3. \A d \in Calls : CallFinds(d)'
    BY <1>1, <2>2 DEF FindInv, CallFinds
  <2>4. \A h \in Gets : GetFinds(h)'
    BY <1>1, <2>2 DEF FindInv, GetFinds, CallFinds
  <2>5. QED
    BY <2>3, <2>4 DEF FindInv
<1>4. CASE OpenDelivery(g) \/ OpenDeliveryFails(g) \/ Deliver(g) \/ DeliveryFails(g)
  <2>1. /\ UNCHANGED <<booked, payment, claim, tickets>>
        /\ pc'[g] \in {"opening", "linking"} => pc[g] \in {"opening", "linking"}
        /\ pc'[g] \in {"delivering", "answered"} => pc[g] \in {"delivering", "answered"}
    BY <1>4 DEF OpenDelivery, OpenDeliveryFails, Deliver, DeliveryFails
  <2>2. \A d \in Calls : CallFinds(d)'
    BY <1>1, <2>1 DEF FindInv, CallFinds
  <2>3. \A h \in Gets : GetFinds(h)'
    BY <1>1, <2>1 DEF FindInv, GetFinds
  <2>4. QED
    BY <2>2, <2>3 DEF FindInv
<1>5. QED
  BY <1>2, <1>3, <1>4 DEF GetStep

\* A restart drops the tickets with the contexts, and ends whatever runs.
LEMMA RestartFinds ==
    ASSUME IInv, FindInv, Restart
    PROVE  FindInv'
<1> USE CallsAssumption DEF IInv, TypeOK, StateTypeOK, Procs
<1>1. /\ UNCHANGED <<payment, claim, row>> /\ tickets' = {} /\ booked' = {}
      /\ \A p \in Procs : pc'[p] = IF pc[p] \in Running THEN "lost" ELSE pc[p]
  BY DEF Restart, storeVars
<1>2. /\ {"booking", "replying", "opening", "linking", "delivering"} \subseteq Running
      /\ "lost" \notin {"booking", "replying", "opening", "linking", "delivering", "answered"}
  BY DEF Running, Charging
<1>3. \A c \in Calls : CallFinds(c)'
  BY <1>1, <1>2 DEF FindInv, CallFinds
<1>4. \A g \in Gets : GetFinds(g)'
  BY <1>1, <1>2 DEF FindInv, GetFinds
<1>5. QED
  BY <1>3, <1>4 DEF FindInv

LEMMA FindStep ==
    ASSUME "db" \notin Faults
    PROVE  IInv /\ FindInv /\ [Next]_vars => FindInv'
<1> SUFFICES ASSUME IInv, FindInv, [Next]_vars PROVE FindInv'
  OBVIOUS
<1>1. ASSUME NEW c \in Calls, LoadSession(c) \/ CallStep(c) \/ Transfer(c) \/ SweepTicket(c)
      PROVE  FindInv'
  <2>1. ~RecordSettlementThrows(c)
    BY DEF RecordSettlementThrows
  <2>2. QED
    BY <1>1, <2>1, EarlyStepFinds, BookingFinds
<1>2. ASSUME NEW g \in Gets, GetStep(g) \/ \E c \in Calls : ClaimTicket(g, c)
      PROVE  FindInv'
  BY <1>2, GetStepFinds
<1>3. ASSUME \/ \E s \in Sessions : Shut(s)
             \/ \E b \in Bodies : CacheAges(b) \/ CatalogueRefresh(b)
             \/ UNCHANGED vars
      PROVE  FindInv'
  <2>1. UNCHANGED <<pc, booked, tickets, claim, payment, row>>
    BY <1>3 DEF Shut, CacheAges, CatalogueRefresh, vars, memoryVars, storeVars
  <2>2. QED
    BY <2>1 DEF FindInv, CallFinds, GetFinds
<1>4. QED
  BY <1>1, <1>2, <1>3, RestartFinds DEF Next

\* While the database answers, GET /v1/requests/:id finds the settlement of every
\* finished request, through restarts and settlements that time out too: no
\* response leaves, and no ticket is claimed, before the payment id is known
\* (linkPaymentToRequest, ledger.ts:186).
THEOREM SettlementsAreFindable ==
    ASSUME "db" \notin Faults
    PROVE  Spec => []SettlementIsFindable
<1>1. Init => FindInv
  BY CallsAssumption DEF Init, FindInv, CallFinds, GetFinds, Procs
<1>2. IInv /\ FindInv => SettlementIsFindable
  <2> SUFFICES ASSUME IInv, FindInv, NEW p \in Procs, pc[p] = "answered", row[p] = "SETTLED"
               PROVE  payment[OwnerOf(p)].request = p
    BY DEF SettlementIsFindable
  <2>1. CASE p \in Calls
    BY <2>1, CallsAssumption DEF FindInv, CallFinds, OwnerOf, IInv, Agreement, StoreInv
  <2>2. CASE p \in Gets
    BY <2>2, CallsAssumption DEF FindInv, GetFinds, OwnerOf
  <2>3. QED
    BY <2>1, <2>2 DEF Procs
<1>3. QED
  BY <1>1, <1>2, FindStep, InvariantHolds, PTL DEF Spec
-----------------------------------------------------------------------------
(* What a call may be charged *)

\* readCache drops entries and invents none; the quote being counted is today's.
LEMMA MissKeepsQuotes ==
    ASSUME QuoteTypeOK, NEW a \in Bodies, NEW P, QuotesFrom(a, P), price[a] \in P,
           NEW c \in Calls, NEW b \in Bodies, Miss(c, b)
    PROVE  QuotesFrom(a, P)'
<1>1. DOMAIN cache = 1..Len(cache) /\ Len(cache) \in Nat
  BY LenProperties DEF QuoteTypeOK
<1>2. \A j \in At(a)' : cache'[j].quote \in P
  <2>1. CASE UNCHANGED cache
    BY <2>1 DEF QuotesFrom, At
  <2>2. CASE \E i \in At(b) : cache' = Without(i)
    <3>1. PICK i \in DOMAIN cache : cache' = Without(i)
      BY <2>2 DEF At
    <3>2. ASSUME NEW j \in DOMAIN cache'
          PROVE  \E k \in DOMAIN cache : cache'[j] = cache[k]
      <4>1. j \in 1..(Len(cache) - 1) /\ cache'[j] = cache[IF j < i THEN j ELSE j + 1]
        BY <3>1 DEF Without
      <4>2. (IF j < i THEN j ELSE j + 1) \in DOMAIN cache
        BY <1>1, <4>1
      <4>3. QED
        BY <4>1, <4>2
    <3>3. QED
      BY <3>2 DEF QuotesFrom, At
  <2>3. QED
    BY <2>1, <2>2 DEF Miss
<1>3. \A d \in Calls :
         counting'[d] # Nothing /\ counting'[d].body = a => counting'[d].quote \in P
  <2>1. /\ counting' = [counting EXCEPT ![c] = [body |-> b, quote |-> price[b]]]
        /\ counting \in [Calls -> [body : Bodies, quote : Prices] \cup {Nothing}]
    BY DEF Miss, QuoteTypeOK
  <2>2. QED
    BY <2>1 DEF QuotesFrom
<1>4. QED
  BY <1>2, <1>3 DEF QuotesFrom

\* writeCache keeps entries and adds the one it is given.
LEMMA WriteKeepsQuotes ==
    ASSUME QuoteTypeOK, NEW a \in Bodies, NEW P, QuotesFrom(a, P),
           NEW b \in Bodies, NEW q \in Prices, Write(b, q), b = a => q \in P
    PROVE  \A i \in At(a)' : cache'[i].quote \in P
<1> DEFINE kept == IF Full THEN WithoutOldest ELSE cache
           entry == [body |-> b, quote |-> q, fresh |-> TRUE]
           present == \E i \in DOMAIN kept : kept[i].body = b
           inPlace == [i \in DOMAIN kept |-> IF kept[i].body = b THEN entry ELSE kept[i]]
<1>1. cache \in Seq(Entry) /\ DOMAIN cache = 1..Len(cache) /\ Len(cache) \in Nat
  BY LenProperties DEF QuoteTypeOK
<1>2. kept \in Seq(Entry) /\ \A i \in DOMAIN kept : \E j \in DOMAIN cache : kept[i] = cache[j]
  <2>1. CASE Full
    <3>1. cache # <<>>
      BY <2>1, CacheAssumption DEF Full
    <3>2. /\ Tail(cache) \in Seq(Entry)
          /\ Len(Tail(cache)) = Len(cache) - 1
          /\ \A i \in 1..Len(Tail(cache)) : Tail(cache)[i] = cache[i + 1]
      BY <1>1, <3>1, HeadTailProperties
    <3>3. DOMAIN Tail(cache) = 1..(Len(cache) - 1)
      BY <3>2, LenProperties
    <3>4. QED
      BY <1>1, <2>1, <3>2, <3>3 DEF WithoutOldest
  <2>2. CASE ~Full
    BY <1>1, <2>2
  <2>3. QED
    BY <2>1, <2>2
<1>3. cache' = IF present THEN inPlace ELSE Append(kept, entry)
  BY DEF Write
<1>4. entry.body = b /\ entry.quote = q /\ entry \in Entry
  BY DEF Entry
<1> HIDE DEF kept, entry
<1>5. \A i \in DOMAIN cache' : cache'[i] = entry \/ \E j \in DOMAIN kept : cache'[i] = kept[j]
  <2>1. CASE present
    BY <1>3, <2>1
  <2>2. CASE ~present
    <3>1. /\ Append(kept, entry) \in Seq(Entry)
          /\ Len(Append(kept, entry)) = Len(kept) + 1
          /\ \A i \in 1..Len(kept) : Append(kept, entry)[i] = kept[i]
          /\ Append(kept, entry)[Len(kept) + 1] = entry
          /\ DOMAIN kept = 1..Len(kept) /\ Len(kept) \in Nat
      BY <1>2, <1>4, AppendProperties, LenProperties
    <3>2. DOMAIN Append(kept, entry) = 1..(Len(kept) + 1)
      BY <3>1, LenProperties
    <3>3. QED
      BY <1>3, <2>2, <3>1, <3>2
  <2>3. QED
    BY <2>1, <2>2
<1>6. QED
  BY <1>2, <1>4, <1>5 DEF QuotesFrom, At

\* What a price request returns is a price its body has had since it was counted
\* last, whether it was cached, counted or raced by another count.
LEMMA QuotesComeFrom ==
    ASSUME QuoteTypeOK, NEW a \in Bodies, NEW P, QuotesFrom(a, P), price[a] \in P,
           NEW c \in Calls, NEW b \in Bodies
    PROVE  /\ Miss(c, b) => QuotesFrom(a, P)'
           /\ CountFailed(c) => QuotesFrom(a, P)'
           /\ \A q \in Prices : Quoted(c, b, q) => QuotesFrom(a, P)' /\ (b = a => q \in P)
<1>1. /\ counting \in [Calls -> [body : Bodies, quote : Prices] \cup {Nothing}]
      /\ Nothing \notin [body : Bodies, quote : Prices]
  BY UndefinedAssumption DEF QuoteTypeOK, Prices
<1>2. Miss(c, b) => QuotesFrom(a, P)'
  BY MissKeepsQuotes
<1>3. CountFailed(c) => QuotesFrom(a, P)'
  BY <1>1 DEF CountFailed, QuotesFrom, At
<1>4. ASSUME NEW q \in Prices, Quoted(c, b, q)
      PROVE  QuotesFrom(a, P)' /\ (b = a => q \in P)
  <2>1. CASE Hit(c, b, q)
    BY <2>1 DEF Hit, At, quoteVars, QuotesFrom
  <2>2. CASE Counted(c, b, q)
    <3>1. /\ counting[c] # Nothing /\ counting[c].body = b /\ counting[c].quote = q
          /\ counting' = [counting EXCEPT ![c] = Nothing] /\ Write(b, q)
      BY <1>1, <2>2 DEF Counted
    <3>2. b = a => q \in P
      BY <3>1 DEF QuotesFrom
    <3>3. \A i \in At(a)' : cache'[i].quote \in P
      BY <3>1, <3>2, WriteKeepsQuotes
    <3>4. \A d \in Calls :
             counting'[d] # Nothing /\ counting'[d].body = a => counting'[d].quote \in P
      BY <1>1, <3>1 DEF QuotesFrom
    <3>5. QED
      BY <3>2, <3>3, <3>4 DEF QuotesFrom
  <2>3. QED
    BY <1>4, <2>1, <2>2 DEF Quoted
<1>5. QED
  BY <1>2, <1>3, <1>4

\* Any call's step leaves what is remembered of body a a price a has had.
LEMMA CallStepKeepsQuotes ==
    ASSUME IInv, NEW a \in Bodies, NEW P, QuotesFrom(a, P), price[a] \in P,
           NEW c \in Calls, CallStep(c)
    PROVE  QuotesFrom(a, P)'
<1>1. QuoteTypeOK /\ BodyOf[c] \in Bodies
  BY CallsAssumption DEF IInv, TypeOK
<1>2. CASE UNCHANGED quoteVars
  BY <1>2 DEF quoteVars, QuotesFrom, At
<1>3. CASE Miss(c, BodyOf[c]) \/ CountFailed(c) \/ \E q \in Prices : Quoted(c, BodyOf[c], q)
  BY <1>1, <1>3, QuotesComeFrom
<1>4. QED
  BY <1>2, <1>3 DEF CallStep, NameChecked, StartCount, CountFails, DynamicPrice,
       QuotePreview, Verify, HandlerPrice, OpenRow, OpenRowFails, Complete,
       CompletionFails, SettleAnswered, SettleThrows, RecordSettlement,
       RecordSettlementThrows, Reply

\* A call's own steps.  Only dynamicPrice lets it be accepted, and only the handler
\* lets it pass the cap, each with a price of its body; only booking writes an
\* amount, the one required.
LEMMA CallStepKeepsCharge ==
    ASSUME IInv, NEW d \in Calls, NEW P, QuotesFrom(BodyOf[d], P), price[BodyOf[d]] \in P,
           ChargedFrom(d, P), NEW c \in Calls, CallStep(c)
    PROVE  ChargedFrom(d, P)'
<1>1. QuoteTypeOK /\ StateTypeOK /\ BodyOf[d] \in Bodies /\ CallInv(d)
  BY CallsAssumption DEF IInv, TypeOK, Agreement
<1>2. \/ pc'[d] \notin Accepted
      \/ pc[d] \in Accepted /\ required'[d] = required[d]
      \/ required'[d] \in P
  <2>1. CASE DynamicPrice(c)
    BY <1>1, <2>1, QuotesComeFrom DEF DynamicPrice, StateTypeOK, Goto, Procs
  <2>2. ASSUME UNCHANGED required, NEW label \in Labels, Goto(c, label),
               label \notin Accepted \/ pc[c] \in Accepted
        PROVE  pc'[d] \notin Accepted \/ (pc[d] \in Accepted /\ required'[d] = required[d])
    BY <1>1, <2>2 DEF StateTypeOK, Procs, Goto
  <2>3. CASE StartCount(c)
    BY <2>3 DEF StartCount, memoryVars
  <2>4. CASE CallStep(c) /\ ~DynamicPrice(c) /\ ~StartCount(c)
    <3>1. UNCHANGED required /\ \E label \in Labels :
             Goto(c, label) /\ (label \notin Accepted \/ pc[c] \in Accepted)
      BY <2>4 DEF CallStep, NameChecked, CountFails, HandlerPrice,
         QuotePreview, Verify, OpenRow, OpenRowFails, Complete,
         CompletionFails, SettleAnswered, SettleThrows, RecordSettlement,
         RecordSettlementThrows, Reply, Labels, Charging, Running, Ended, Accepted
    <3>2. QED
      BY <2>2, <3>1
  <2>5. QED
    BY <2>1, <2>3, <2>4
<1>3. \/ pc'[d] \notin Passed
      \/ pc[d] \in Passed
      \/ \E q \in P : q <= PerRequestCap[SessionOf[d]]
  <2>1. CASE HandlerPrice(c)
    BY <1>1, <2>1, QuotesComeFrom
       DEF HandlerPrice, WithinRequestCap, StateTypeOK, Procs, Goto, Passed
  <2>2. CASE UNCHANGED pc
    BY <2>2
  <2>3. ASSUME NEW label \in Labels, Goto(c, label),
               label \notin Passed \/ pc[c] \in Passed
        PROVE  pc'[d] \notin Passed \/ pc[d] \in Passed
    BY <1>1, <2>3 DEF StateTypeOK, Procs, Goto
  <2>4. CASE StartCount(c)
    BY <2>2, <2>4 DEF StartCount, memoryVars
  <2>5. CASE CallStep(c) /\ ~HandlerPrice(c) /\ ~StartCount(c)
    <3>1. \E label \in Labels : Goto(c, label) /\ (label \notin Passed \/ pc[c] \in Passed)
      BY <2>5 DEF CallStep, NameChecked, CountFails, DynamicPrice,
         QuotePreview, Verify, OpenRow, OpenRowFails, Complete,
         CompletionFails, SettleAnswered, SettleThrows, RecordSettlement,
         RecordSettlementThrows, Reply, Labels, Charging, Running, Ended, Passed
    <3>2. QED
      BY <2>3, <3>1
  <2>6. QED
    BY <2>1, <2>4, <2>5
<1>4. \/ payment[d] # Nothing /\ payment'[d].amount = payment[d].amount
      \/ payment'[d] = Nothing
      \/ pc[d] = "booking" /\ payment'[d].amount = required[d]
  <2>1. CASE pc[c] = "booking" /\ WritePayment(c)
    BY <1>1, <2>1 DEF WritePayment, StateTypeOK
  <2>2. CASE UNCHANGED payment
    BY <2>2
  <2>3. QED
    BY <2>1, <2>2 DEF CallStep, NameChecked, StartCount, CountFails, DynamicPrice, storeVars,
         QuotePreview, Verify, HandlerPrice, OpenRow, OpenRowFails, Complete,
         CompletionFails, SettleAnswered, SettleThrows, RecordSettlement,
         RecordSettlementThrows, Reply
<1>5. QED
  BY <1>2, <1>3, <1>4 DEF ChargedFrom, Accepted, Passed

\* Every other step: a GET only relabels a payment's request, ageing and repricing
\* leave the quotes alone, and a restart drops whatever is remembered.
LEMMA StepKeepsCharge ==
    ASSUME IInv, NEW d \in Calls, NEW P, QuotesFrom(BodyOf[d], P), price[BodyOf[d]] \in P,
           ChargedFrom(d, P), [Next]_vars
    PROVE  QuotesFrom(BodyOf[d], P)' /\ ChargedFrom(d, P)'
<1>1. QuoteTypeOK /\ StateTypeOK /\ (\A c \in Calls : StoreInv(c)) /\ BodyOf[d] \in Bodies
  BY CallsAssumption DEF IInv, TypeOK, Agreement
<1>2. ASSUME UNCHANGED <<required, payment>>,
             pc'[d] = pc[d] \/ pc'[d] \notin Accepted
      PROVE  ChargedFrom(d, P)'
  BY <1>2 DEF ChargedFrom, Accepted, Passed
<1>3. ASSUME UNCHANGED <<cache, counting>>
      PROVE  QuotesFrom(BodyOf[d], P)'
  BY <1>3 DEF QuotesFrom, At
<1>4. ASSUME NEW c \in Calls, LoadSession(c) \/ Transfer(c) \/ SweepTicket(c)
      PROVE  QuotesFrom(BodyOf[d], P)' /\ ChargedFrom(d, P)'
  <2>1. UNCHANGED quoteVars /\ UNCHANGED <<required, payment>>
    BY <1>4 DEF LoadSession, Transfer, SweepTicket, memoryVars, storeVars
  <2>2. pc'[d] = pc[d] \/ pc'[d] \notin Accepted
    BY <1>1, <1>4 DEF LoadSession, Transfer, SweepTicket, memoryVars, Goto, StateTypeOK,
         Procs, Accepted
  <2>3. QED
    BY <1>2, <1>3, <2>1, <2>2 DEF quoteVars
<1>5. ASSUME NEW g \in Gets, GetStep(g) \/ \E c \in Calls : ClaimTicket(g, c)
      PROVE  QuotesFrom(BodyOf[d], P)' /\ ChargedFrom(d, P)'
  <2>1. UNCHANGED quoteVars /\ UNCHANGED required /\ pc'[d] = pc[d]
    BY <1>1, <1>5, CallsAssumption DEF GetStep, ClaimTicket, OpenDelivery, OpenDeliveryFails,
         LinkPayment, Deliver, DeliveryFails, Goto, StateTypeOK, Procs
  <2>2. CASE UNCHANGED payment
    BY <1>2, <1>3, <2>1, <2>2 DEF quoteVars
  <2>3. CASE LinkPayment(g) /\ ~UNCHANGED payment
    <3>1. claim[g] \in booked /\ payment' = [payment EXCEPT ![claim[g]].request = g]
      BY <2>3 DEF LinkPayment
    <3>2. payment[claim[g]] \in PaymentRow /\ claim[g] \in Calls
      BY <1>1, <3>1 DEF StoreInv, StateTypeOK
    <3>3. \/ payment[d] # Nothing /\ payment'[d].amount = payment[d].amount
          \/ payment'[d] = Nothing
      BY <1>1, <3>1, <3>2, NothingAssumption DEF StateTypeOK, PaymentRow
    <3>4. ChargedFrom(d, P)'
      BY <2>1, <3>3 DEF ChargedFrom
    <3>5. QED
      BY <1>3, <2>1, <3>4 DEF quoteVars
  <2>4. QED
    BY <1>5, <2>2, <2>3 DEF GetStep, ClaimTicket, OpenDelivery, OpenDeliveryFails,
         LinkPayment, Deliver, DeliveryFails, storeVars
<1>6. ASSUME NEW s \in Sessions, Shut(s)
      PROVE  QuotesFrom(BodyOf[d], P)' /\ ChargedFrom(d, P)'
  BY <1>2, <1>3, <1>6 DEF Shut, memoryVars, quoteVars
<1>7. ASSUME NEW b \in Bodies, CacheAges(b) \/ CatalogueRefresh(b)
      PROVE  QuotesFrom(BodyOf[d], P)' /\ ChargedFrom(d, P)'
  <2>1. UNCHANGED <<pc, required, payment, counting>>
    BY <1>7 DEF CacheAges, CatalogueRefresh, Age, Reprice, memoryVars, storeVars
  <2>2. UNCHANGED cache \/ \E i \in At(b) : cache' = [cache EXCEPT ![i] =
              [body |-> b, quote |-> cache[i].quote, fresh |-> FALSE]]
    BY <1>7 DEF CacheAges, CatalogueRefresh, Age, Reprice
  <2>3. \A i \in At(BodyOf[d])' : i \in At(BodyOf[d]) /\ cache'[i].quote = cache[i].quote
    BY <1>1, <2>2 DEF At, QuoteTypeOK
  <2>4. QED
    BY <1>2, <2>1, <2>3 DEF QuotesFrom
<1>8. CASE Restart
  <2>1. QuotesFrom(BodyOf[d], P)'
    BY <1>8 DEF Restart, QuoteRestart, QuotesFrom, At
  <2>2. pc'[d] = pc[d] \/ pc'[d] \notin Accepted
    BY <1>1, <1>8 DEF Restart, Accepted, StateTypeOK, Procs
  <2>3. QED
    BY <1>2, <1>8, <2>1, <2>2 DEF Restart, storeVars
<1>9. CASE UNCHANGED vars
  BY <1>2, <1>3, <1>9 DEF vars, memoryVars, storeVars, quoteVars
<1>10. ASSUME NEW c \in Calls, CallStep(c)
       PROVE  QuotesFrom(BodyOf[d], P)' /\ ChargedFrom(d, P)'
  BY <1>1, <1>10, CallStepKeepsQuotes, CallStepKeepsCharge
<1>11. QED
  BY <1>4, <1>5, <1>6, <1>7, <1>8, <1>9, <1>10 DEF Next

\* Nothing is required or remembered at the start.
LEMMA NothingCharged ==
    ASSUME Init, NEW d \in Calls, NEW P
    PROVE  QuotesFrom(BodyOf[d], P) /\ ChargedFrom(d, P)
BY DEF Init, QuoteInit, QuotesFrom, ChargedFrom, At, Accepted, Passed, Procs

\* What a call is charged is a price its body has had, whatever the cache evicts,
\* ages or loses to a restart, whichever counts race, and however often the
\* catalogue is refreshed in between (quote.ts:115-157, ledger.ts:84-111).
THEOREM ChargesAreQuotedPrices ==
    ASSUME NEW d \in Calls, NEW P
    PROVE  Spec /\ [](price[BodyOf[d]] \in P)
              => [](payment[d] # Nothing => payment[d].amount \in P)
<1>1. Init => QuotesFrom(BodyOf[d], P) /\ ChargedFrom(d, P)
  BY NothingCharged
<1>2. /\ IInv /\ QuotesFrom(BodyOf[d], P) /\ ChargedFrom(d, P)
      /\ price[BodyOf[d]] \in P /\ [Next]_vars
      => QuotesFrom(BodyOf[d], P)' /\ ChargedFrom(d, P)'
  BY StepKeepsCharge
<1>3. ChargedFrom(d, P) => (payment[d] # Nothing => payment[d].amount \in P)
  BY DEF ChargedFrom
<1>4. QED
  BY <1>1, <1>2, <1>3, InvariantHolds, PTL DEF Spec

\* The per-request cap is tested on a second quote (enforcePerRequestCap,
\* routes/chat.ts:63), and still bounds the charge as long as the prices of the body
\* stay on one side of the cap.  When a refresh moves them across it between the
\* two quotes, it does not.
THEOREM CapHoldsOnOneSide ==
    ASSUME NEW d \in Calls, NEW P \in SUBSET Prices,
           \A p, q \in P : p <= PerRequestCap[SessionOf[d]] => q <= PerRequestCap[SessionOf[d]]
    PROVE  Spec /\ [](price[BodyOf[d]] \in P) => []WithinCeiling(d)
<1>1. Init => QuotesFrom(BodyOf[d], P) /\ ChargedFrom(d, P)
  BY NothingCharged
<1>2. /\ IInv /\ QuotesFrom(BodyOf[d], P) /\ ChargedFrom(d, P)
      /\ price[BodyOf[d]] \in P /\ [Next]_vars
      => QuotesFrom(BodyOf[d], P)' /\ ChargedFrom(d, P)'
  BY StepKeepsCharge
<1>3. ChargedFrom(d, P) => WithinCeiling(d)
  BY DEF ChargedFrom, WithinCeiling, SettledPayments
<1>4. QED
  BY <1>1, <1>2, <1>3, InvariantHolds, PTL DEF Spec
-----------------------------------------------------------------------------
(* What a step writes into the payments *)

\* A payment, once written, keeps its amount, and a completion's stays as it is.
PaymentStays(c) ==
    payment[c] # Nothing =>
        /\ payment'[c] # Nothing /\ payment'[c].amount = payment[c].amount
        /\ KindOf[c] = "completion" => payment'[c] = payment[c]

\* What a step that books call c has written.
Books(c) ==
    /\ payment[c] = Nothing /\ payment'[c] # Nothing
    /\ required[c] \in Prices
    /\ payment'[c].amount = required[c]
    /\ payment'[c].request = RequestOf(c)
    /\ RequestOf(c) # Nothing => KindOf[c] = "completion"

Ledgered == \A c \in Calls : PaymentStays(c) /\ (c \in booked' \ booked => Books(c))

LEMMA BookingIsLedgered ==
    ASSUME IInv, NEW c \in Calls, RecordSettlement(c) \/ RecordSettlementThrows(c)
    PROVE  Ledgered
<1>1. pc[c] = "booking" /\ payment[c] = Nothing /\ required[c] \in Prices
  BY DEF RecordSettlement, RecordSettlementThrows, IInv, Agreement, CallInv, Accepted
<1>2. payment \in [Calls -> PaymentRow \cup {Nothing}] /\ row \in [Procs -> RowStatus]
  BY DEF IInv, TypeOK, StateTypeOK
<1>3. booked' \ booked \subseteq {c} /\ (c \in booked' => c \in booked \/ WritePayment(c))
  BY DEF RecordSettlement, RecordSettlementThrows
<1>4. \A d \in Calls : payment[d] # Nothing => payment'[d] = payment[d]
  <2>1. CASE WritePayment(c)
    BY <1>1, <1>2, <2>1 DEF WritePayment
  <2>2. CASE UNCHANGED payment
    BY <2>2
  <2> QED
    BY <2>1, <2>2 DEF RecordSettlement, RecordSettlementThrows
<1>5. WritePayment(c) => Books(c)
  <2>1. SUFFICES ASSUME WritePayment(c)
        PROVE  Books(c)
    OBVIOUS
  <2> DEFINE p == [status |-> StatusOf(c), amount |-> required[c], request |-> RequestOf(c)]
  <2>2. payment'[c] = p
    BY <1>2, <2>1 DEF WritePayment
  <2>3. p \in PaymentRow /\ p.amount = required[c] /\ p.request = RequestOf(c)
    BY <1>1 DEF PaymentRow, Procs, StatusOf, RequestOf
  <2>4. RequestOf(c) # Nothing => KindOf[c] = "completion"
    BY CallsAssumption DEF RequestOf, IInv, Agreement, StoreInv
  <2> HIDE DEF p
  <2> QED
    BY <1>1, <2>2, <2>3, <2>4, NothingAssumption DEF Books
<1> QED
  BY <1>3, <1>4, <1>5 DEF Ledgered, PaymentStays

LEMMA LinkIsLedgered ==
    ASSUME IInv, NEW g \in Gets, LinkPayment(g)
    PROVE  Ledgered
<1>1. booked' = booked
  BY DEF LinkPayment
<1>2. claim[g] # Nothing => claim[g] \in Calls /\ KindOf[claim[g]] = "stream"
  BY DEF IInv, Agreement, GetInv, TypeOK, StateTypeOK
<1>3. payment \in [Calls -> PaymentRow \cup {Nothing}]
  BY DEF IInv, TypeOK, StateTypeOK
<1>4. ASSUME NEW c \in Calls
      PROVE  PaymentStays(c)
  <2>1. CASE UNCHANGED payment
    BY <2>1 DEF PaymentStays
  <2>2. CASE c # claim[g] /\ payment' = [payment EXCEPT ![claim[g]].request = g]
    BY <1>3, <2>2 DEF PaymentStays
  <2>3. CASE c = claim[g] /\ payment' = [payment EXCEPT ![claim[g]].request = g]
    <3>1. KindOf[c] # "completion"
      BY <1>2, <2>3, CallsAssumption
    <3>2. payment[c] # Nothing =>
             payment'[c] \in PaymentRow /\ payment'[c].amount = payment[c].amount
      BY <1>3, <2>3 DEF PaymentRow, Procs
    <3> QED
      BY <3>1, <3>2, NothingAssumption DEF PaymentStays
  <2> QED
    BY <2>1, <2>2, <2>3 DEF LinkPayment
<1> QED
  BY <1>1, <1>4 DEF Ledgered

LEMMA StepIsLedgered == IInv /\ [Next]_vars => Ledgered
<1> SUFFICES ASSUME IInv, [Next]_vars
             PROVE  Ledgered
  OBVIOUS
<1> DEFINE Quiet == UNCHANGED payment /\ booked' \subseteq booked
<1>0. Quiet => Ledgered
  BY DEF Ledgered, PaymentStays
<1>1. ASSUME NEW c \in Calls, CallStep(c)
      PROVE  Ledgered
  <2>1. CASE RecordSettlement(c) \/ RecordSettlementThrows(c)
    BY <2>1, BookingIsLedgered
  <2>2. CASE ~(RecordSettlement(c) \/ RecordSettlementThrows(c))
    <3>1. CASE \/ NameChecked(c) \/ StartCount(c) \/ CountFails(c) \/ DynamicPrice(c)
               \/ QuotePreview(c) \/ Verify(c) \/ HandlerPrice(c)
      BY <1>0, <3>1 DEF NameChecked, StartCount, CountFails, DynamicPrice, QuotePreview,
            Verify, HandlerPrice, storeVars, memoryVars
    <3>2. CASE OpenRow(c) \/ OpenRowFails(c) \/ Complete(c) \/ CompletionFails(c)
      BY <1>0, <3>2 DEF OpenRow, OpenRowFails, Complete, CompletionFails
    <3>3. CASE SettleAnswered(c) \/ SettleThrows(c) \/ Reply(c)
      BY <1>0, <3>3 DEF SettleAnswered, SettleThrows, Reply, storeVars
    <3> QED
      BY <1>1, <2>2, <3>1, <3>2, <3>3 DEF CallStep
  <2> QED
    BY <2>1, <2>2
<1>2. ASSUME NEW c \in Calls, LoadSession(c) \/ Transfer(c) \/ SweepTicket(c)
      PROVE  Ledgered
  BY <1>0, <1>2 DEF LoadSession, Transfer, SweepTicket, storeVars, memoryVars
<1>3. ASSUME NEW g \in Gets, GetStep(g) \/ \E c \in Calls : ClaimTicket(g, c)
      PROVE  Ledgered
  <2>1. CASE LinkPayment(g)
    BY <2>1, LinkIsLedgered
  <2>2. CASE ~LinkPayment(g)
    BY <1>0, <1>3, <2>2 DEF GetStep, ClaimTicket, OpenDelivery, OpenDeliveryFails, Deliver,
          DeliveryFails, storeVars
  <2> QED
    BY <2>1, <2>2
<1>4. ASSUME NEW s \in Sessions, Shut(s)
      PROVE  Ledgered
  BY <1>0, <1>4 DEF Shut, memoryVars
<1>5. ASSUME NEW b \in Bodies, CacheAges(b) \/ CatalogueRefresh(b)
      PROVE  Ledgered
  BY <1>0, <1>5 DEF CacheAges, CatalogueRefresh, memoryVars, storeVars
<1>6. CASE Restart
  BY <1>0, <1>6 DEF Restart, storeVars
<1>7. CASE UNCHANGED vars
  BY <1>0, <1>7 DEF vars, memoryVars, storeVars
<1> QED
  BY <1>1, <1>2, <1>3, <1>4, <1>5, <1>6, <1>7 DEF Next
-----------------------------------------------------------------------------
(* What is published *)

\* The pipeline of an audited gateway is the pipeline.
LEMMA AuditedStep == [AuditNext]_auditVars => [Next]_vars
BY DEF AuditNext, PipelineStep, Consensus, NoteReceipt, AuditFails, auditVars

\* Every behaviour of the audited gateway is one of the pipeline: publishing
\* in the background neither delays nor alters a call (ledger.ts:121-122), and
\* all that is proved of the pipeline holds with auditing on.
THEOREM AuditingChangesNothing == AuditSpec => Spec
<1>1. AuditInit => Init
  BY DEF AuditInit
<1> QED
  BY <1>1, AuditedStep, PTL DEF AuditSpec, Spec

LEMMA TruthStays ==
    ASSUME Ledgered, NEW m \in Messages, Truthful(m), Fixed(m)
    PROVE  Truthful(m)'
<1>1. m.call \in Calls /\ KindOf[m.call] \in {"completion", "stream"}
  BY CallsAssumption DEF Messages
<1> QED
  BY <1>1 DEF Ledgered, PaymentStays, Truthful, Fixed

\* The message of a call that is booked in this step.
LEMMA NewMessage ==
    ASSUME NEW c \in Calls, NEW m, m = Message(c), Books(c)
    PROVE  m \in Messages /\ Truthful(m)' /\ Fixed(m) /\ m.call = c
<1>1. m.call = c /\ m.amount = required[c] /\ m.request = RequestOf(c)
  BY DEF Message
<1>2. m \in Messages
  BY DEF Books, Message, Messages, RequestOf, Procs
<1> QED
  BY <1>1, <1>2 DEF Books, Truthful, Fixed

LEMMA PipelineKeepsTrail ==
    ASSUME IInv, TrailInv, PipelineStep
    PROVE  TrailInv'
<1>1. Ledgered
  BY StepIsLedgered DEF PipelineStep
<1>2. UNCHANGED <<topic, auditAt, logged>> /\ waiting' \in SUBSET Calls
  <2>1. booked' \subseteq Calls /\ waiting \subseteq Calls
    BY StepAgreement DEF PipelineStep, TrailInv, TrailTypeOK, IInv, TypeOK, StateTypeOK
  <2> QED
    BY <2>1 DEF PipelineStep
<1>3. \A m \in onWay' : m \in onWay \/ \E c \in booked' \ booked : m = Message(c)
  BY DEF PipelineStep
<1>4. booked' \in SUBSET Calls
  BY StepAgreement DEF PipelineStep, IInv, TypeOK, StateTypeOK
<1>5. \A m \in onWay : m \in Messages /\ Truthful(m) /\ Fixed(m)
  BY DEF TrailInv, TrailTypeOK, TopicAgreesWithLedger
<1>6. \A i \in DOMAIN topic : topic[i] \in Messages /\ Truthful(topic[i]) /\ Fixed(topic[i])
  BY ElementOfSeq DEF TrailInv, TrailTypeOK, TopicAgreesWithLedger
<1>7. \A m \in onWay' : m \in Messages /\ Truthful(m)' /\ Fixed(m)
  BY <1>1, <1>3, <1>4, <1>5, TruthStays, NewMessage DEF Ledgered
<1>8. ASSUME NEW i \in DOMAIN topic
      PROVE  Truthful(topic[i])'
  <2> PICK m : m = topic[i]
    OBVIOUS
  <2>1. Truthful(m)'
    BY <1>1, <1>6, TruthStays
  <2> QED
    BY <1>2, <2>1 DEF Truthful
\* A call that is booked has no message yet: it had no payment.
<1>9. ASSUME NEW m \in onWay', m \notin onWay
      PROVE  /\ \A n \in onWay : n.call # m.call
             /\ \A i \in DOMAIN topic : topic[i].call # m.call
             /\ \A n \in onWay' : n \notin onWay /\ n.call = m.call => n = m
  <2>1. PICK c \in booked' \ booked : m = Message(c)
    BY <1>3, <1>9
  <2>2. m.call = c /\ payment[c] = Nothing
    BY <1>1, <1>4, <2>1, NewMessage DEF Ledgered, Books
  <2>3. \A n \in onWay' : n \notin onWay /\ n.call = c => n = Message(c)
    BY <1>1, <1>3, <1>4, NewMessage DEF Ledgered
  <2> QED
    BY <1>5, <1>6, <2>1, <2>2, <2>3 DEF Truthful
<1>10. TopicAgreesWithLedger'
  BY <1>2, <1>7, <1>8 DEF TopicAgreesWithLedger
<1>11. AuditPointsAtOwnRecord' /\ TrailTypeOK'
  BY <1>2, <1>7 DEF TrailInv, AuditPointsAtOwnRecord, TrailTypeOK
<1>12. /\ \A m, n \in onWay' : m.call = n.call => m = n
       /\ \A m \in onWay', i \in DOMAIN topic : topic[i].call # m.call
  BY <1>9 DEF TrailInv
<1>13. (\A m \in onWay : Fixed(m))' /\ (\A i \in DOMAIN topic : Fixed(topic[i]))'
  BY <1>2, <1>6, <1>7 DEF Fixed
<1> QED
  BY <1>2, <1>10, <1>11, <1>12, <1>13 DEF TrailInv

\* Truth is about the payments and the message.
LEMMA TruthUnmoved ==
    ASSUME UNCHANGED vars, NEW m, Truthful(m)
    PROVE  Truthful(m)'
BY DEF vars, storeVars, Truthful

LEMMA ConsensusKeepsTrail ==
    ASSUME TrailInv, NEW m \in onWay, Consensus(m)
    PROVE  TrailInv'
<1>1. /\ onWay' = onWay \ {m} /\ topic' = Append(topic, m)
      /\ UNCHANGED <<vars, waiting, auditAt, logged>>
  BY DEF Consensus
<1>2. topic \in Seq(Messages) /\ m \in Messages /\ Truthful(m) /\ Fixed(m)
  BY DEF TrailInv, TrailTypeOK, TopicAgreesWithLedger
<1>3. /\ topic' \in Seq(Messages) /\ Len(topic') = Len(topic) + 1
      /\ \A i \in 1..Len(topic) : topic'[i] = topic[i]
      /\ topic'[Len(topic) + 1] = m
      /\ DOMAIN topic = 1..Len(topic) /\ DOMAIN topic' = 1..(Len(topic) + 1) /\ Len(topic) \in Nat
  BY <1>1, <1>2, AppendProperties
<1>4. \A i \in DOMAIN topic' : i \in DOMAIN topic \/ (i = Len(topic) + 1 /\ topic'[i] = m)
  BY <1>3
<1>5. \A i \in DOMAIN topic' : Truthful(topic'[i]) /\ Fixed(topic'[i])
  BY <1>2, <1>3, <1>4 DEF TrailInv, TopicAgreesWithLedger
<1>6. TopicAgreesWithLedger'
  BY <1>1, <1>5 DEF TrailInv, TopicAgreesWithLedger, Truthful, vars, storeVars
<1>7. \A i \in DOMAIN topic : topic[i].call # m.call
  BY DEF TrailInv
<1>8. \A i, j \in DOMAIN topic' : topic'[i].call = topic'[j].call => i = j
  BY <1>3, <1>4, <1>7 DEF TrailInv, AuditPointsAtOwnRecord
<1>9. AuditPointsAtOwnRecord'
  BY <1>1, <1>3, <1>8 DEF TrailInv, AuditPointsAtOwnRecord
<1>10. \A n \in onWay', i \in DOMAIN topic' : topic'[i].call # n.call
  BY <1>1, <1>3, <1>4 DEF TrailInv
<1>11. TrailTypeOK'
  BY <1>1, <1>3 DEF TrailInv, TrailTypeOK
<1>12. /\ \A n \in onWay' : Fixed(n)'
       /\ \A i \in DOMAIN topic' : Fixed(topic'[i])
       /\ \A n, o \in onWay' : n.call = o.call => n = o
  BY <1>1, <1>5 DEF TrailInv, Fixed
<1> QED
  BY <1>6, <1>9, <1>10, <1>11, <1>12 DEF TrailInv, Fixed

LEMMA PromiseKeepsTrail ==
    ASSUME TrailInv, NEW c \in Calls, NoteReceipt(c) \/ AuditFails(c)
    PROVE  TrailInv'
<1>1. /\ UNCHANGED <<vars, topic>> /\ onWay' \subseteq onWay
      /\ waiting' \subseteq waiting /\ logged' \subseteq logged \cup {c}
  BY DEF NoteReceipt, AuditFails, LogFailure
<1>2. \/ UNCHANGED auditAt
      \/ \E i \in DOMAIN topic : topic[i].call = c /\ auditAt' = [auditAt EXCEPT ![c] = i]
  BY DEF NoteReceipt, AuditFails, Receipt
<1>3. auditAt \in [Calls -> Nat] /\ topic \in Seq(Messages)
  BY DEF TrailInv, TrailTypeOK
<1>4. /\ auditAt' \in [Calls -> Nat]
      /\ \A d \in Calls : auditAt'[d] = auditAt[d]
            \/ (auditAt'[d] \in DOMAIN topic /\ topic[auditAt'[d]].call = d)
  <2>1. CASE UNCHANGED auditAt
    BY <1>3, <2>1
  <2>2. ASSUME NEW i \in DOMAIN topic, topic[i].call = c, auditAt' = [auditAt EXCEPT ![c] = i]
        PROVE  /\ auditAt' \in [Calls -> Nat]
               /\ \A d \in Calls : auditAt'[d] = auditAt[d]
                     \/ (auditAt'[d] \in DOMAIN topic /\ topic[auditAt'[d]].call = d)
    <3>1. i \in Nat
      BY <1>3
    <3> QED
      BY <1>3, <2>2, <3>1
  <2> QED
    BY <1>2, <2>1, <2>2
<1>5. AuditPointsAtOwnRecord'
  BY <1>1, <1>4 DEF TrailInv, AuditPointsAtOwnRecord
<1>6. TopicAgreesWithLedger'
  BY <1>1 DEF TrailInv, TopicAgreesWithLedger, Truthful, vars, storeVars
<1>7. TrailTypeOK'
  BY <1>1, <1>3, <1>4 DEF TrailInv, TrailTypeOK
<1> QED
  BY <1>1, <1>5, <1>6, <1>7 DEF TrailInv, Fixed

LEMMA AuditInitInv == AuditInit => IInv /\ TrailInv
<1> SUFFICES ASSUME AuditInit
             PROVE  IInv /\ TrailInv
  OBVIOUS
<1>1. IInv
  BY InitAgreement DEF AuditInit
<1>2. topic \in Seq(Messages) /\ DOMAIN topic = {}
  BY EmptySeq DEF AuditInit
<1>3. TrailTypeOK
  BY <1>2 DEF AuditInit, TrailTypeOK
<1>4. TrailInv
  BY <1>2, <1>3 DEF AuditInit, TrailInv, TopicAgreesWithLedger, AuditPointsAtOwnRecord
<1> QED
  BY <1>1, <1>4

LEMMA AuditStepInv == IInv /\ TrailInv /\ [AuditNext]_auditVars => (IInv /\ TrailInv)'
<1> SUFFICES ASSUME IInv, TrailInv, [AuditNext]_auditVars
             PROVE  IInv' /\ TrailInv'
  OBVIOUS
<1>1. IInv'
  BY AuditedStep, StepAgreement
<1>2. CASE UNCHANGED auditVars
  <2>1. UNCHANGED <<vars, onWay, topic, waiting, auditAt, logged>>
    BY <1>2 DEF auditVars, trailVars
  <2>2. TrailTypeOK' /\ AuditPointsAtOwnRecord'
    BY <2>1 DEF TrailInv, TrailTypeOK, AuditPointsAtOwnRecord
  <2>3. TopicAgreesWithLedger'
    BY <2>1 DEF TrailInv, TopicAgreesWithLedger, Truthful, vars, storeVars
  <2> QED
    BY <1>1, <2>1, <2>2, <2>3 DEF TrailInv, Fixed
<1>3. CASE PipelineStep
  BY <1>1, <1>3, PipelineKeepsTrail
<1>4. ASSUME NEW m \in onWay, Consensus(m)
      PROVE  TrailInv'
  BY <1>4, ConsensusKeepsTrail
<1>5. ASSUME NEW c \in Calls, NoteReceipt(c) \/ AuditFails(c)
      PROVE  TrailInv'
  BY <1>5, PromiseKeepsTrail
<1> QED
  BY <1>1, <1>2, <1>3, <1>4, <1>5 DEF AuditNext

\* The trail's invariant, beside the pipeline's.
THEOREM TrailInvariant == AuditSpec => [](IInv /\ TrailInv)
  BY AuditInitInv, AuditStepInv, PTL DEF AuditSpec

\* Anyone who reads the topic reads of payments the ledger has, with their
\* amounts and never with another payment's request (ledger.ts:121-160).
THEOREM TopicIsTrue == AuditSpec => []TopicAgreesWithLedger
<1>1. TrailInv => TopicAgreesWithLedger
  BY DEF TrailInv
<1> QED
  BY <1>1, TrailInvariant, PTL

\* One record per payment, and the payment row points at its own.
THEOREM AuditReferencesAreRight == AuditSpec => []AuditPointsAtOwnRecord
<1>1. TrailInv => AuditPointsAtOwnRecord
  BY DEF TrailInv
<1> QED
  BY <1>1, TrailInvariant, PTL
===============================================================================
