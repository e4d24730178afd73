------------------------------ MODULE CIntProofs ------------------------------
(***************************************************************************)
(* CDiv is C++'s int division for every dividend and non-zero divisor,     *)
(* and the share of sessions each worker gets stays within the total.    *)
(***************************************************************************)
EXTENDS CInt, TLAPS

\* the quotient of the magnitudes, which \div computes exactly
LEMMA MagnitudeDiv ==
  ASSUME NEW a \in Int, NEW b \in Int \ {0}
  PROVE  LET A == AbsInt(a)
             B == AbsInt(b)
         IN  /\ A \in Nat /\ B \in Nat \ {0}
             /\ A \div B \in Nat
             /\ B * (A \div B) <= A
             /\ A < B * (A \div B) + B
  <1>1. AbsInt(a) \in Nat /\ AbsInt(b) \in Nat \ {0}
    BY DEF AbsInt
  <1>2. QED
    BY <1>1

\* b * CDiv(a, b) has the magnitude of the magnitudes' product and the sign
\* of a (or is zero)
LEMMA ProductOfQuotient ==
  ASSUME NEW a \in Int, NEW b \in Int \ {0}
  PROVE  /\ AbsInt(b * CDiv(a, b)) = AbsInt(b) * (AbsInt(a) \div AbsInt(b))
         /\ b * CDiv(a, b) = 0 \/ (b * CDiv(a, b) > 0) = (a > 0)
  <1> DEFINE q0 == AbsInt(a) \div AbsInt(b)
  <1>1. q0 \in Nat
    BY MagnitudeDiv
  <1>2. CASE a >= 0 /\ b > 0
    BY <1>1, <1>2 DEF CDiv, AbsInt
  <1>3. CASE a < 0 /\ b < 0
    BY <1>1, <1>3 DEF CDiv, AbsInt
  <1>4. CASE a >= 0 /\ b < 0
    BY <1>1, <1>4 DEF CDiv, AbsInt
  <1>5. CASE a < 0 /\ b > 0
    BY <1>1, <1>5 DEF CDiv, AbsInt
  <1>6. QED
    BY <1>2, <1>3, <1>4, <1>5

\* CDiv truncates toward zero, as C++ requires of int division.
THEOREM CDivTruncates ==
  \A a \in Int : \A b \in Int \ {0} : IsTruncQuotient(a, b, CDiv(a, b))
  <1> SUFFICES ASSUME NEW a \in Int, NEW b \in Int \ {0}
               PROVE  IsTruncQuotient(a, b, CDiv(a, b))
    OBVIOUS
  <1>1. QED
    BY MagnitudeDiv, ProductOfQuotient DEF IsTruncQuotient

\* Dividing a non-negative session total among w >= 1 workers gives each a
\* non-negative share, and the w shares add up to no more than the total:
\* the arithmetic that SessionsWithinTotal checks for the workers TLC runs.
THEOREM ShareWithinTotal ==
  \A total \in Nat : \A w \in Nat \ {0} :
      CDiv(total, w) \in Nat /\ w * CDiv(total, w) <= total
  <1> SUFFICES ASSUME NEW total \in Nat, NEW w \in Nat \ {0}
               PROVE  CDiv(total, w) \in Nat /\ w * CDiv(total, w) <= total
    OBVIOUS
  <1>1. CDiv(total, w) = total \div w
    BY DEF CDiv, AbsInt
  <1>2. QED
    BY <1>1
=============================================================================
