-------------------------------- MODULE CInt --------------------------------
(***************************************************************************)
(* C++ integer division as the proxy's code uses it (`sessionsMax /       *)
(* workerCount` in App::Private::run(), src/proxy/app.cpp): the quotient   *)
(* of two ints truncates toward zero (C++11 [expr.mul]/4), where the       *)
(* \div of TLA+ rounds toward minus infinity.                              *)
(***************************************************************************)
EXTENDS Integers

\* the absolute value of an int
AbsInt(x) == IF x < 0 THEN -x ELSE x

\* what [expr.mul]/4 asks of the quotient q of a / b: the algebraic
\* quotient with its fractional part discarded, so b * q lies between 0 and
\* a, less than one |b| away from a
IsTruncQuotient(a, b, q) ==
    /\ AbsInt(b * q) <= AbsInt(a)
    /\ AbsInt(a) < AbsInt(b * q) + AbsInt(b)
    /\ b * q = 0 \/ (b * q > 0) = (a > 0)

\* C++ int division, which truncates toward zero (\div floors)
CDiv(a, b) ==
    LET q == AbsInt(a) \div AbsInt(b) IN
    IF (a < 0) = (b < 0) THEN q ELSE -q

=============================================================================
