---------------------------- MODULE MCEspBignum ----------------------------
(* EspBignum for TLC: which calls the two tasks make.                      *)
EXTENDS EspBignum, TLC

CONSTANTS a, b

Mul(x, y)          == [NoJob EXCEPT !.op = "mul", !.x = x, !.y = y]
MulMod(x, y, m)    == [NoJob EXCEPT !.op = "mulmod", !.x = x, !.y = y, !.m = m]
ExpMod(x, y, m, z) == [NoJob EXCEPT !.op = "expmod", !.x = x, !.y = y, !.m = m,
                                    !.z = z]
Cached(j)          == [j EXCEPT !.rn = TRUE]
IntoX(j)           == [j EXCEPT !.into = {"x"}, !.z = j.x]
IntoY(j)           == [j EXCEPT !.into = {"y"}, !.z = j.y]
Square(x)          == [Mul(x, x) EXCEPT !.into = {"x", "y"}, !.z = x]

\* With limbs of 2 bits and blocks of 4, the multiplier takes 4 bits and the
\* accelerator 8.  Factors on both sides of each limit: 0 and 1, products that
\* are multiplied, fail over and are split once and more, of both signs.
Products ==
  {<<0, 9>>, <<-1, 7>>, <<6, -1>>, <<15, 15>>, <<-2, 16>>, <<15, 255>>,
   <<17, -15>>, <<-255, -256>>, <<3, 2741>>, <<-300, 2741>>}

\* Products into a factor: a sign that survives and one that is lost, factors
\* loaded before they are overwritten, Z as the shorter factor of a split, and
\* as the one that is cut.
InPlace ==
  {IntoY(Mul(-1, 7)), IntoX(Mul(-1, 7)), IntoX(Mul(7, -1)),
   IntoX(Mul(-2, 16)), Square(-15), IntoX(Mul(-3, 2741)), IntoY(Mul(17, 15)),
   IntoY(Mul(-15, 17))}

MCJobs ==
  a :> ({Mul(p[1], p[2]) : p \in Products} \cup InPlace
         \cup {MulMod(14, 200, 201), MulMod(0, 3, 13), MulMod(-2, 11, 13),
               MulMod(5, 5, 1), MulMod(2, 3, 0)}
         \* one modulus for the mpi that caches Rinv, and two lengths
         \cup {Cached(ExpMod(x, 5, 13, 0)) : x \in {0, 12, 200}}
         \cup {ExpMod(14, 0, 201, 0), ExpMod(200, 5, 201, 0),
               ExpMod(5, 3, 201, 70000)})
  @@ b :> {MulMod(9, 12, 13), ExpMod(3, 6, 11, 5)}

\* The calls are those that the theorem ResultsAreRight speaks of.
ASSUME JobsFit == OperandsFit
=============================================================================
