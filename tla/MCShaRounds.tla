--------------------------- MODULE MCShaRounds ---------------------------
(***************************************************************************)
(* ShaRounds for TLC: the messages are the two examples that accompany the *)
(* standard for every algorithm, "abc" (one block) and "abcdbcdecdef..."   *)
(* (two), padded, and Digest holds the published digests.                  *)
(***************************************************************************)
EXTENDS ShaRounds

\* The bytes of a message of n bytes, given by char, in blocks of size bytes.
Padded(char(_), n, size) ==
  LET whole == size * ((n + 1 + size \div 8 + size - 1) \div size)
      byte(p) == CASE p < n -> char(p)
                   [] p = n -> 128
                   [] p = whole - 2 -> (8 * n) \div 256
                   [] p = whole - 1 -> (8 * n) % 256
                   [] OTHER -> 0
  IN  [k \in 1..(whole \div size) |->
         [p \in 0..(size - 1) |-> byte(size * (k - 1) + p)]]

Abc(p)     == 97 + p
Rows(p)    == 97 + p \div 4 + (p % 4)   \* abcd bcde cdef ...
LongRows(p) == 97 + p \div 8 + (p % 8)  \* abcdefgh bcdefghi ...

Examples(a) == IF a \in {"SHA384", "SHA512"}
               THEN <<Padded(Abc, 3, 128), Padded(LongRows, 112, 128)>>
               ELSE <<Padded(Abc, 3, 64), Padded(Rows, 56, 64)>>

MCMessages == [a \in Algorithms |-> {Examples(a)[1], Examples(a)[2]}]
MCBlocks   == [a \in Algorithms |-> UNION {{m[k] : k \in DOMAIN m} :
                                            m \in MCMessages[a]}]

\* The published digests, word by word.
Digest(a) ==
    CASE a = "SHA1" -> <<
      <<<<\hA999,\h3E36>>, <<\h4706,\h816A>>, <<\hBA3E,\h2571>>, <<\h7850,\hC26C>>,
       <<\h9CD0,\hD89D>>>>,
      <<<<\h8498,\h3E44>>, <<\h1C3B,\hD26E>>, <<\hBAAE,\h4AA1>>, <<\hF951,\h29E5>>,
       <<\hE546,\h70F1>>>> >>
    [] a = "SHA224" -> <<
      <<<<\h2309,\h7D22>>, <<\h3405,\hD822>>, <<\h8642,\hA477>>, <<\hBDA2,\h55B3>>,
       <<\h2AAD,\hBCE4>>, <<\hBDA0,\hB3F7>>, <<\hE36C,\h9DA7>>>>,
      <<<<\h7538,\h8B16>>, <<\h5127,\h76CC>>, <<\h5DBA,\h5DA1>>, <<\hFD89,\h0150>>,
       <<\hB0C6,\h455C>>, <<\hB4F5,\h8B19>>, <<\h5252,\h2525>>>> >>
    [] a = "SHA256" -> <<
      <<<<\hBA78,\h16BF>>, <<\h8F01,\hCFEA>>, <<\h4141,\h40DE>>, <<\h5DAE,\h2223>>,
       <<\hB003,\h61A3>>, <<\h9617,\h7A9C>>, <<\hB410,\hFF61>>, <<\hF200,\h15AD>>>>,
      <<<<\h248D,\h6A61>>, <<\hD206,\h38B8>>, <<\hE5C0,\h2693>>, <<\h0C3E,\h6039>>,
       <<\hA33C,\hE459>>, <<\h64FF,\h2167>>, <<\hF6EC,\hEDD4>>, <<\h19DB,\h06C1>>>> >>
    [] a = "SHA384" -> <<
      <<<<\hCB00,\h753F,\h45A3,\h5E8B>>, <<\hB5A0,\h3D69,\h9AC6,\h5007>>,
       <<\h272C,\h32AB,\h0EDE,\hD163>>, <<\h1A8B,\h605A,\h43FF,\h5BED>>,
       <<\h8086,\h072B,\hA1E7,\hCC23>>, <<\h58BA,\hECA1,\h34C8,\h25A7>>>>,
      <<<<\h0933,\h0C33,\hF711,\h47E8>>, <<\h3D19,\h2FC7,\h82CD,\h1B47>>,
       <<\h5311,\h1B17,\h3B3B,\h05D2>>, <<\h2FA0,\h8086,\hE3B0,\hF712>>,
       <<\hFCC7,\hC71A,\h557E,\h2DB9>>, <<\h66C3,\hE9FA,\h9174,\h6039>>>> >>
    [] a = "SHA512" -> <<
      <<<<\hDDAF,\h35A1,\h9361,\h7ABA>>, <<\hCC41,\h7349,\hAE20,\h4131>>,
       <<\h12E6,\hFA4E,\h89A9,\h7EA2>>, <<\h0A9E,\hEEE6,\h4B55,\hD39A>>,
       <<\h2192,\h992A,\h274F,\hC1A8>>, <<\h36BA,\h3C23,\hA3FE,\hEBBD>>,
       <<\h454D,\h4423,\h643C,\hE80E>>, <<\h2A9A,\hC94F,\hA54C,\hA49F>>>>,
      <<<<\h8E95,\h9B75,\hDAE3,\h13DA>>, <<\h8CF4,\hF728,\h14FC,\h143F>>,
       <<\h8F77,\h79C6,\hEB9F,\h7FA1>>, <<\h7299,\hAEAD,\hB688,\h9018>>,
       <<\h501D,\h289E,\h4900,\hF7E4>>, <<\h331B,\h99DE,\hC4B5,\h433A>>,
       <<\hC7D3,\h29EE,\hB6DD,\h2654>>, <<\h5E96,\hE55B,\h874B,\hE909>>>> >>

\* A context that has been given all blocks of an example holds its digest:
\* the tables, the chaining of blocks and the additions are the real ones
\* (the numbers of esp_sha1.c:115, esp_sha256.c:122, esp_sha512.c:146 and
\* the tables K).  SHA-224 and SHA-384 publish fewer words than they keep.
PublishedDigests ==
  \A n \in 1..2 :
    pc = "idle" /\ fed = Examples(algorithm)[n] =>
      LET d == Digest(algorithm)[n]
      IN  \A k \in DOMAIN d : state[k - 1] = FromParts(Bits, d[k])
=============================================================================
