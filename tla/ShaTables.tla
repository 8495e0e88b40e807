----------------------------- MODULE ShaTables -----------------------------
(***************************************************************************)
(* The words that the SHA ports build in: the round constants and the      *)
(* initial states.  A word is written as its 16-bit parts, the most        *)
(* significant first, so that TLC's integers hold them.                    *)
(*                                                                         *)
(* The tables of SHA-256 hold the leading halves of those of SHA-512, and  *)
(* the initial state of SHA-224 the trailing halves of that of SHA-384;    *)
(* they are stated that way here.                                          *)
(***************************************************************************)
EXTENDS ShaWords

\* K of esp_sha512.c, K512[t + 1] for round t.
K512 == <<
  <<\h428A,\h2F98,\hD728,\hAE22>>, <<\h7137,\h4491,\h23EF,\h65CD>>,
  <<\hB5C0,\hFBCF,\hEC4D,\h3B2F>>, <<\hE9B5,\hDBA5,\h8189,\hDBBC>>,
  <<\h3956,\hC25B,\hF348,\hB538>>, <<\h59F1,\h11F1,\hB605,\hD019>>,
  <<\h923F,\h82A4,\hAF19,\h4F9B>>, <<\hAB1C,\h5ED5,\hDA6D,\h8118>>,
  <<\hD807,\hAA98,\hA303,\h0242>>, <<\h1283,\h5B01,\h4570,\h6FBE>>,
  <<\h2431,\h85BE,\h4EE4,\hB28C>>, <<\h550C,\h7DC3,\hD5FF,\hB4E2>>,
  <<\h72BE,\h5D74,\hF27B,\h896F>>, <<\h80DE,\hB1FE,\h3B16,\h96B1>>,
  <<\h9BDC,\h06A7,\h25C7,\h1235>>, <<\hC19B,\hF174,\hCF69,\h2694>>,
  <<\hE49B,\h69C1,\h9EF1,\h4AD2>>, <<\hEFBE,\h4786,\h384F,\h25E3>>,
  <<\h0FC1,\h9DC6,\h8B8C,\hD5B5>>, <<\h240C,\hA1CC,\h77AC,\h9C65>>,
  <<\h2DE9,\h2C6F,\h592B,\h0275>>, <<\h4A74,\h84AA,\h6EA6,\hE483>>,
  <<\h5CB0,\hA9DC,\hBD41,\hFBD4>>, <<\h76F9,\h88DA,\h8311,\h53B5>>,
  <<\h983E,\h5152,\hEE66,\hDFAB>>, <<\hA831,\hC66D,\h2DB4,\h3210>>,
  <<\hB003,\h27C8,\h98FB,\h213F>>, <<\hBF59,\h7FC7,\hBEEF,\h0EE4>>,
  <<\hC6E0,\h0BF3,\h3DA8,\h8FC2>>, <<\hD5A7,\h9147,\h930A,\hA725>>,
  <<\h06CA,\h6351,\hE003,\h826F>>, <<\h1429,\h2967,\h0A0E,\h6E70>>,
  <<\h27B7,\h0A85,\h46D2,\h2FFC>>, <<\h2E1B,\h2138,\h5C26,\hC926>>,
  <<\h4D2C,\h6DFC,\h5AC4,\h2AED>>, <<\h5338,\h0D13,\h9D95,\hB3DF>>,
  <<\h650A,\h7354,\h8BAF,\h63DE>>, <<\h766A,\h0ABB,\h3C77,\hB2A8>>,
  <<\h81C2,\hC92E,\h47ED,\hAEE6>>, <<\h9272,\h2C85,\h1482,\h353B>>,
  <<\hA2BF,\hE8A1,\h4CF1,\h0364>>, <<\hA81A,\h664B,\hBC42,\h3001>>,
  <<\hC24B,\h8B70,\hD0F8,\h9791>>, <<\hC76C,\h51A3,\h0654,\hBE30>>,
  <<\hD192,\hE819,\hD6EF,\h5218>>, <<\hD699,\h0624,\h5565,\hA910>>,
  <<\hF40E,\h3585,\h5771,\h202A>>, <<\h106A,\hA070,\h32BB,\hD1B8>>,
  <<\h19A4,\hC116,\hB8D2,\hD0C8>>, <<\h1E37,\h6C08,\h5141,\hAB53>>,
  <<\h2748,\h774C,\hDF8E,\hEB99>>, <<\h34B0,\hBCB5,\hE19B,\h48A8>>,
  <<\h391C,\h0CB3,\hC5C9,\h5A63>>, <<\h4ED8,\hAA4A,\hE341,\h8ACB>>,
  <<\h5B9C,\hCA4F,\h7763,\hE373>>, <<\h682E,\h6FF3,\hD6B2,\hB8A3>>,
  <<\h748F,\h82EE,\h5DEF,\hB2FC>>, <<\h78A5,\h636F,\h4317,\h2F60>>,
  <<\h84C8,\h7814,\hA1F0,\hAB72>>, <<\h8CC7,\h0208,\h1A64,\h39EC>>,
  <<\h90BE,\hFFFA,\h2363,\h1E28>>, <<\hA450,\h6CEB,\hDE82,\hBDE9>>,
  <<\hBEF9,\hA3F7,\hB2C6,\h7915>>, <<\hC671,\h78F2,\hE372,\h532B>>,
  <<\hCA27,\h3ECE,\hEA26,\h619C>>, <<\hD186,\hB8C7,\h21C0,\hC207>>,
  <<\hEADA,\h7DD6,\hCDE0,\hEB1E>>, <<\hF57D,\h4F7F,\hEE6E,\hD178>>,
  <<\h06F0,\h67AA,\h7217,\h6FBA>>, <<\h0A63,\h7DC5,\hA2C8,\h98A6>>,
  <<\h113F,\h9804,\hBEF9,\h0DAE>>, <<\h1B71,\h0B35,\h131C,\h471B>>,
  <<\h28DB,\h77F5,\h2304,\h7D84>>, <<\h32CA,\hAB7B,\h40C7,\h2493>>,
  <<\h3C9E,\hBE0A,\h15C9,\hBEBC>>, <<\h431D,\h67C4,\h9C10,\h0D4C>>,
  <<\h4CC5,\hD4BE,\hCB3E,\h42B6>>, <<\h597F,\h299C,\hFC65,\h7E2A>>,
  <<\h5FCB,\h6FAB,\h3AD6,\hFAEC>>, <<\h6C44,\h198C,\h4A47,\h5817>> >>

\* K of esp_sha256.c.
K256 == [t \in 1..64 |-> SubSeq(K512[t], 1, 2)]

\* The K of the four stages of SHA-1, twenty rounds each.
K1 == << <<\h5A82,\h7999>>, <<\h6ED9,\hEBA1>>,
         <<\h8F1B,\hBCDC>>, <<\hCA62,\hC1D6>> >>

\* The initial states, by algorithm.
State512 == <<
  <<\h6A09,\hE667,\hF3BC,\hC908>>, <<\hBB67,\hAE85,\h84CA,\hA73B>>,
  <<\h3C6E,\hF372,\hFE94,\hF82B>>, <<\hA54F,\hF53A,\h5F1D,\h36F1>>,
  <<\h510E,\h527F,\hADE6,\h82D1>>, <<\h9B05,\h688C,\h2B3E,\h6C1F>>,
  <<\h1F83,\hD9AB,\hFB41,\hBD6B>>, <<\h5BE0,\hCD19,\h137E,\h2179>> >>

State384 == <<
  <<\hCBBB,\h9D5D,\hC105,\h9ED8>>, <<\h629A,\h292A,\h367C,\hD507>>,
  <<\h9159,\h015A,\h3070,\hDD17>>, <<\h152F,\hECD8,\hF70E,\h5939>>,
  <<\h6733,\h2667,\hFFC0,\h0B31>>, <<\h8EB4,\h4A87,\h6858,\h1511>>,
  <<\hDB0C,\h2E0D,\h64F9,\h8FA7>>, <<\h47B5,\h481D,\hBEFA,\h4FA4>> >>

State256 == [k \in 1..8 |-> SubSeq(State512[k], 1, 2)]
State224 == [k \in 1..8 |-> SubSeq(State384[k], 3, 4)]

State1 == << <<\h6745,\h2301>>, <<\hEFCD,\hAB89>>, <<\h98BA,\hDCFE>>,
             <<\h1032,\h5476>>, <<\hC3D2,\hE1F0>> >>

-----------------------------------------------------------------------------
Long(a) == a \in {"SHA384", "SHA512"}

\* The constant that the call number t of P adds.
K(a, t) ==
  CASE a = "SHA1"                  -> FromParts(32, K1[t \div 20 + 1])
    [] a \in {"SHA224", "SHA256"} -> FromParts(32, K256[t + 1])
    [] Long(a)                     -> FromParts(64, K512[t + 1])

\* The words that starts_ret puts into ctx->state.
Started(a) ==
  CASE a = "SHA1"   -> [j \in 0..4 |-> FromParts(32, State1[j + 1])]
    [] a = "SHA224" -> [j \in 0..7 |-> FromParts(32, State224[j + 1])]
    [] a = "SHA256" -> [j \in 0..7 |-> FromParts(32, State256[j + 1])]
    [] a = "SHA384" -> [j \in 0..7 |-> FromParts(64, State384[j + 1])]
    [] a = "SHA512" -> [j \in 0..7 |-> FromParts(64, State512[j + 1])]
=============================================================================
