---------------------------- MODULE HelperProofs ----------------------------
(***************************************************************************)
(* Two things every part of the application relies on: what runCommand     *)
(* returns, for every size of the pipe and of the output, and the paths    *)
(* made from the URL of the data directory, for names of every length.     *)
(***************************************************************************)
EXTENDS RunCommand, DataDirPath, SequenceTheorems, WellFoundedInduction, TLAPS

-----------------------------------------------------------------------------
(* Loops over a sequence.                                                  *)

LEMMA LeastNat ==
    ASSUME NEW G, G \subseteq Nat, G # {}
    PROVE  \E n \in G : \A m \in G : n <= m
<1> DEFINE R == OpToRel(<, Nat)
<1>1. \A m, n \in Nat : <<m, n>> \notin R => n <= m
  BY DEF OpToRel
<1>2. IsWellFoundedOn(R, Nat)
  BY NatLessThanWellFounded
<1> HIDE DEF R
<1>3. \E n \in G : \A m \in G : <<m, n>> \notin R
  BY <1>2, WFMin
<1> QED
  BY <1>1, <1>3

\* Induction up to a bound, for a set.
LEMMA UpTo ==
    ASSUME NEW G, NEW L \in Nat, 0 \in G, \A n \in Nat : n < L /\ n \in G => n + 1 \in G
    PROVE  \A n \in 0 .. L : n \in G
<1> SUFFICES ASSUME NEW x \in 0 .. L, x \notin G PROVE FALSE
  OBVIOUS
<1> DEFINE B == {n \in 0 .. L : n \notin G}
<1>1. B \subseteq Nat /\ B # {}
  OBVIOUS
<1>2. PICK n \in B : \A m \in B : n <= m
  BY <1>1, LeastNat
<1>3. n # 0 /\ n - 1 \in Nat /\ n - 1 < L /\ (n - 1) + 1 = n
  BY <1>2
<1>4. n - 1 \in G
  BY <1>2, <1>3
<1> QED
  BY <1>2, <1>3, <1>4

\* Induction over the sequences that grow at their end.
LEMMA ByAppend ==
    ASSUME NEW S, NEW G, << >> \in G,
           \A s \in Seq(S), e \in S : s \in G => Append(s, e) \in G
    PROVE  \A s \in Seq(S) : s \in G
<1> SUFFICES ASSUME NEW x \in Seq(S) PROVE x \in G
  OBVIOUS
<1> DEFINE H == {n \in Nat : \A s \in Seq(S) : Len(s) = n => s \in G}
<1>1. 0 \in H
  BY EmptySeq
<1>2. ASSUME NEW n \in Nat, n \in H PROVE n + 1 \in H
  <2> SUFFICES ASSUME NEW s \in Seq(S), Len(s) = n + 1 PROVE s \in G
    OBVIOUS
  <2>1. s # << >>
    BY EmptySeq
  <2>2. PICK t \in Seq(S), e \in S : s = Append(t, e)
    BY <2>1, SequenceEmptyOrAppend
  <2>3. Len(s) = Len(t) + 1 /\ Len(t) \in Nat
    BY <2>2, AppendProperties, LenProperties
  <2>4. Len(t) = n
    BY <2>3
  <2>5. t \in G
    BY <1>2, <2>4
  <2> QED
    BY <2>2, <2>5
<1>3. Len(x) \in Nat
  BY LenProperties
<1> HIDE DEF H
<1>4. \A n \in Nat : n < Len(x) /\ n \in H => n + 1 \in H
  BY <1>2
<1>5. Len(x) \in 0 .. Len(x)
  BY <1>3
<1>6. Len(x) \in H
  BY <1>1, <1>3, <1>4, <1>5, UpTo
<1> QED
  BY <1>6 DEF H

IsJoined(f, d, code) ==
    f = [n \in 0 .. Len(d) |-> IF n = 0 THEN <<>> ELSE f[n - 1] \o code[d[n]]]

\* The loop of Joined does what it says.
LEMMA JoinedIs ==
    ASSUME NEW code, NEW d, Len(d) \in Nat
    PROVE  \E f : IsJoined(f, d, code) /\ Joined(d, code) = f[Len(d)]
<1> DEFINE Is(f, L) == f = [n \in 0 .. L |-> IF n = 0 THEN <<>> ELSE f[n - 1] \o code[d[n]]]
           G == {L \in Nat : \E f : Is(f, L)}
<1>1. 0 \in G
  <2>1. Is([n \in 0 .. 0 |-> <<>>], 0)
    OBVIOUS
  <2> QED
    BY <2>1
<1>2. ASSUME NEW L \in Nat, L \in G PROVE L + 1 \in G
  <2>1. PICK f : Is(f, L)
    BY <1>2
  <2> DEFINE v == f[L] \o code[d[L + 1]]
             g == [n \in 0 .. L + 1 |-> IF n = L + 1 THEN v ELSE f[n]]
  <2>2. \A n \in 0 .. L : f[n] = IF n = 0 THEN <<>> ELSE f[n - 1] \o code[d[n]]
    BY <2>1
  <2>3. \A n \in 0 .. L : n # 0 => n - 1 \in 0 .. L
    OBVIOUS
  <2>4. \A n \in 0 .. L + 1 : g[n] = IF n = 0 THEN <<>> ELSE g[n - 1] \o code[d[n]]
    <3> SUFFICES ASSUME NEW n \in 0 .. L + 1
                 PROVE g[n] = IF n = 0 THEN <<>> ELSE g[n - 1] \o code[d[n]]
      OBVIOUS
    <3>1. CASE n = L + 1
      <4>1. n # 0 /\ n - 1 = L /\ L \in 0 .. L + 1 /\ L # L + 1
        BY <3>1
      <4>2. g[n - 1] = f[L] /\ g[n] = v
        BY <3>1, <4>1
      <4> QED
        BY <3>1, <4>1, <4>2
    <3>2. CASE n \in 0 .. L
      <4>1. g[n] = f[n] /\ (n # 0 => g[n - 1] = f[n - 1])
        BY <2>3, <3>2
      <4> HIDE DEF g
      <4> QED
        BY <2>2, <3>2, <4>1
    <3> QED
      BY <3>1, <3>2
  <2>5. g = [n \in 0 .. L + 1 |-> g[n]]
    OBVIOUS
  <2> HIDE DEF g
  <2>6. Is(g, L + 1)
    BY <2>4, <2>5
  <2> QED
    BY <2>6
<1>3. Len(d) \in 0 .. Len(d)
  OBVIOUS
<1>4. \A n \in Nat : n < Len(d) /\ n \in G => n + 1 \in G
  BY <1>2
<1> HIDE DEF G
<1>5. Len(d) \in G
  BY <1>1, <1>3, <1>4, UpTo
<1> DEFINE url == CHOOSE f : Is(f, Len(d))
<1>6. Is(url, Len(d))
  BY <1>5 DEF G
<1>7. Joined(d, code) = url[Len(d)]
  BY DEF Joined
<1> QED
  BY <1>6, <1>7 DEF IsJoined

LEMMA JoinedEmpty ==
    ASSUME NEW code
    PROVE  Joined(<< >>, code) = << >>
<1>1. ASSUME NEW d, d = << >> PROVE Joined(d, code) = << >>
  <2>1. Len(d) = 0 /\ Len(d) \in Nat
    BY <1>1, EmptySeq
  <2>2. PICK f : IsJoined(f, d, code) /\ Joined(d, code) = f[Len(d)]
    BY <2>1, JoinedIs, Zenon
  <2>3. 0 \in 0 .. Len(d)
    BY <2>1
  <2>4. f[0] = << >>
    BY <2>2, <2>3 DEF IsJoined
  <2> QED
    BY <2>1, <2>2, <2>4
<1> QED
  BY <1>1

LEMMA JoinedAppend ==
    ASSUME NEW code, NEW S, NEW d \in Seq(S), NEW c \in S
    PROVE  Joined(Append(d, c), code) = Joined(d, code) \o code[c]
<1> DEFINE e == Append(d, c)
<1>1. /\ Len(d) \in Nat /\ Len(e) = Len(d) + 1 /\ e[Len(d) + 1] = c
      /\ \A n \in 1 .. Len(d) : e[n] = d[n]
  BY AppendProperties, LenProperties
<1> HIDE DEF e
<1>2. PICK f : IsJoined(f, d, code) /\ Joined(d, code) = f[Len(d)]
  BY <1>1, JoinedIs, Zenon
<1>3. Len(e) \in Nat
  BY <1>1
<1>4. PICK g : IsJoined(g, e, code) /\ Joined(e, code) = g[Len(e)]
  BY <1>3, JoinedIs, Zenon
<1>5. \A n \in 0 .. Len(e) : g[n] = IF n = 0 THEN <<>> ELSE g[n - 1] \o code[e[n]]
  BY <1>4 DEF IsJoined
<1>6. \A n \in 0 .. Len(d) : f[n] = IF n = 0 THEN <<>> ELSE f[n - 1] \o code[d[n]]
  BY <1>2 DEF IsJoined
<1> DEFINE H == {n \in 0 .. Len(d) : f[n] = g[n]}
<1>7. 0 \in H
  BY <1>1, <1>5, <1>6
<1>8. ASSUME NEW n \in Nat, n < Len(d), n \in H PROVE n + 1 \in H
  <2>1. n + 1 \in 0 .. Len(d) /\ n + 1 \in 1 .. Len(d) /\ n + 1 \in 0 .. Len(e)
        /\ n + 1 # 0 /\ (n + 1) - 1 = n
    BY <1>1, <1>8
  <2>2. f[n + 1] = f[n] \o code[d[n + 1]] /\ g[n + 1] = g[n] \o code[e[n + 1]]
    BY <1>5, <1>6, <2>1
  <2> QED
    BY <1>1, <1>8, <2>1, <2>2
<1>9. Len(d) \in H
  <2> HIDE DEF H
  <2>1. \A n \in Nat : n < Len(d) /\ n \in H => n + 1 \in H
    BY <1>8
  <2>2. Len(d) \in 0 .. Len(d)
    BY <1>1
  <2> QED
    BY <1>1, <1>7, <2>1, <2>2, UpTo
<1>10. Len(e) \in 0 .. Len(e) /\ Len(e) # 0 /\ Len(e) - 1 = Len(d)
  BY <1>1
<1>11. g[Len(e)] = g[Len(d)] \o code[c]
  BY <1>1, <1>5, <1>10
<1> QED
  BY <1>2, <1>4, <1>9, <1>11 DEF e
IsRewrite(f, s, old, new) ==
    f = [n \in 0 .. Len(s) |-> IF n = 0 THEN <<>> ELSE Put(f[n - 1], s[n], old, new)]

\* The loop of Rewrite does what it says.
LEMMA RewriteIs ==
    ASSUME NEW old, NEW new, NEW s, Len(s) \in Nat
    PROVE  \E f : IsRewrite(f, s, old, new) /\ Rewrite(s, old, new) = f[Len(s)]
<1> DEFINE Is(f, L) ==
             f = [n \in 0 .. L |-> IF n = 0 THEN <<>> ELSE Put(f[n - 1], s[n], old, new)]
           G == {L \in Nat : \E f : Is(f, L)}
<1>1. 0 \in G
  <2>1. Is([n \in 0 .. 0 |-> <<>>], 0)
    OBVIOUS
  <2> QED
    BY <2>1
<1>2. ASSUME NEW L \in Nat, L \in G PROVE L + 1 \in G
  <2>1. PICK f : Is(f, L)
    BY <1>2
  <2> DEFINE v == Put(f[L], s[L + 1], old, new)
             g == [n \in 0 .. L + 1 |-> IF n = L + 1 THEN v ELSE f[n]]
  <2>2. \A n \in 0 .. L : f[n] = IF n = 0 THEN <<>> ELSE Put(f[n - 1], s[n], old, new)
    BY <2>1
  <2>3. \A n \in 0 .. L : n # 0 => n - 1 \in 0 .. L
    OBVIOUS
  <2>4. \A n \in 0 .. L + 1 : g[n] = IF n = 0 THEN <<>> ELSE Put(g[n - 1], s[n], old, new)
    <3> SUFFICES ASSUME NEW n \in 0 .. L + 1
                 PROVE g[n] = IF n = 0 THEN <<>> ELSE Put(g[n - 1], s[n], old, new)
      OBVIOUS
    <3>1. CASE n = L + 1
      <4>1. n # 0 /\ n - 1 = L /\ L \in 0 .. L + 1 /\ L # L + 1
        BY <3>1
      <4>2. g[n - 1] = f[L] /\ g[n] = v
        BY <3>1, <4>1
      <4> QED
        BY <3>1, <4>1, <4>2
    <3>2. CASE n \in 0 .. L
      <4>1. g[n] = f[n] /\ (n # 0 => g[n - 1] = f[n - 1])
        BY <2>3, <3>2
      <4> HIDE DEF g
      <4> QED
        BY <2>2, <3>2, <4>1
    <3> QED
      BY <3>1, <3>2
  <2>5. g = [n \in 0 .. L + 1 |-> g[n]]
    OBVIOUS
  <2> HIDE DEF g
  <2>6. Is(g, L + 1)
    BY <2>4, <2>5
  <2> QED
    BY <2>6
<1>3. Len(s) \in 0 .. Len(s)
  OBVIOUS
<1>4. \A n \in Nat : n < Len(s) /\ n \in G => n + 1 \in G
  BY <1>2
<1> HIDE DEF G
<1>5. Len(s) \in G
  BY <1>1, <1>3, <1>4, UpTo
<1> DEFINE out == CHOOSE f : Is(f, Len(s))
<1>6. Is(out, Len(s))
  BY <1>5 DEF G
<1>7. Rewrite(s, old, new) = out[Len(s)]
  BY DEF Rewrite
<1> QED
  BY <1>6, <1>7 DEF IsRewrite

LEMMA RewriteEmpty ==
    ASSUME NEW old, NEW new
    PROVE  Rewrite(<< >>, old, new) = << >>
<1>1. ASSUME NEW s, s = << >> PROVE Rewrite(s, old, new) = << >>
  <2>1. Len(s) = 0 /\ Len(s) \in Nat
    BY <1>1, EmptySeq
  <2>2. PICK f : IsRewrite(f, s, old, new) /\ Rewrite(s, old, new) = f[Len(s)]
    BY <2>1, RewriteIs, Zenon
  <2>3. 0 \in 0 .. Len(s)
    BY <2>1
  <2>4. f[0] = << >>
    BY <2>2, <2>3 DEF IsRewrite
  <2> QED
    BY <2>1, <2>2, <2>4
<1> QED
  BY <1>1

LEMMA RewriteAppend ==
    ASSUME NEW old, NEW new, NEW S, NEW s \in Seq(S), NEW c \in S
    PROVE  Rewrite(Append(s, c), old, new) = Put(Rewrite(s, old, new), c, old, new)
<1> DEFINE e == Append(s, c)
<1>1. /\ Len(s) \in Nat /\ Len(e) = Len(s) + 1 /\ e[Len(s) + 1] = c
      /\ \A n \in 1 .. Len(s) : e[n] = s[n]
  BY AppendProperties, LenProperties
<1> HIDE DEF e
<1>2. PICK f : IsRewrite(f, s, old, new) /\ Rewrite(s, old, new) = f[Len(s)]
  BY <1>1, RewriteIs, Zenon
<1>3. Len(e) \in Nat
  BY <1>1
<1>4. PICK g : IsRewrite(g, e, old, new) /\ Rewrite(e, old, new) = g[Len(e)]
  BY <1>3, RewriteIs, Zenon
<1>5. \A n \in 0 .. Len(e) : g[n] = IF n = 0 THEN <<>> ELSE Put(g[n - 1], e[n], old, new)
  BY <1>4 DEF IsRewrite
<1>6. \A n \in 0 .. Len(s) : f[n] = IF n = 0 THEN <<>> ELSE Put(f[n - 1], s[n], old, new)
  BY <1>2 DEF IsRewrite
<1> DEFINE H == {n \in 0 .. Len(s) : f[n] = g[n]}
<1>7. 0 \in H
  BY <1>1, <1>5, <1>6
<1>8. ASSUME NEW n \in Nat, n < Len(s), n \in H PROVE n + 1 \in H
  <2>1. n + 1 \in 0 .. Len(s) /\ n + 1 \in 1 .. Len(s) /\ n + 1 \in 0 .. Len(e)
        /\ n + 1 # 0 /\ (n + 1) - 1 = n
    BY <1>1, <1>8
  <2>2. f[n + 1] = Put(f[n], s[n + 1], old, new) /\ g[n + 1] = Put(g[n], e[n + 1], old, new)
    BY <1>5, <1>6, <2>1
  <2> QED
    BY <1>1, <1>8, <2>1, <2>2
<1>9. Len(s) \in H
  <2> HIDE DEF H
  <2>1. \A n \in Nat : n < Len(s) /\ n \in H => n + 1 \in H
    BY <1>8
  <2>2. Len(s) \in 0 .. Len(s)
    BY <1>1
  <2> QED
    BY <1>1, <1>7, <2>1, <2>2, UpTo
<1>10. Len(e) \in 0 .. Len(e) /\ Len(e) # 0 /\ Len(e) - 1 = Len(s)
  BY <1>1
<1>11. g[Len(e)] = Put(g[Len(s)], c, old, new)
  BY <1>1, <1>5, <1>10
<1> QED
  BY <1>2, <1>4, <1>9, <1>11 DEF e

-----------------------------------------------------------------------------
(* The conversion of a URL.                                                *)

\* What paths and URLs are made of.
Symbols == {"a", "2", "0", "5", "space", "%", "u:", "u", "C", "8", "/",
            "file://localhost", "pqsql", "mov"}

Text == Seq(Symbols)

LEMMA CharsAreSymbols == Chars \subseteq Symbols \ {"/", "file://localhost"}
BY CharsAssumption DEF Symbols

LEMMA ConcatAppend ==
    ASSUME NEW S, NEW s \in Seq(S), NEW t \in Seq(S), NEW c \in S
    PROVE  s \o Append(t, c) = Append(s \o t, c)
<1>1. Append(t, c) = t \o <<c>> /\ Append(s \o t, c) = (s \o t) \o <<c>>
  BY AppendIsConcat, ConcatProperties
<1>2. <<c>> \in Seq(S)
  OBVIOUS
<1> QED
  BY <1>1, <1>2, ConcatAssociative

LEMMA ConcatCancel ==
    ASSUME NEW S, NEW s \in Seq(S), NEW t \in Seq(S), NEW u \in Seq(S), s \o u = t \o u
    PROVE  s = t
<1>1. /\ Len(s) \in Nat /\ Len(t) \in Nat /\ Len(u) \in Nat
      /\ Len(s \o u) = Len(s) + Len(u) /\ Len(t \o u) = Len(t) + Len(u)
  BY LenProperties, ConcatProperties
<1>2. Len(s) = Len(t)
  BY <1>1
<1>3. ASSUME NEW i \in 1 .. Len(s) PROVE s[i] = t[i]
  <2>1. (s \o u)[i] = s[i] /\ (t \o u)[i] = t[i]
    BY <1>1, <1>2, ConcatProperties
  <2> QED
    BY <2>1
<1> QED
  BY <1>2, <1>3, SeqEqual

\* Symbols that are put out as they are.
Plain(P, old, new) ==
    /\ P \subseteq Symbols
    /\ \A out \in Text, c \in P : Put(out, c, old, new) = Append(out, c)

\* A text that is put out as it is, after s.
Kept(s, t, old, new) == Rewrite(s \o t, old, new) = Rewrite(s, old, new) \o t

\* They are all but the last one of old.
LEMMA PlainSymbols ==
    ASSUME NEW old, NEW new, NEW P, P \subseteq Symbols,
           Len(old) \in Nat, Len(old) # 0, old[Len(old)] \notin P
    PROVE  Plain(P, old, new)
<1> SUFFICES ASSUME NEW out \in Text, NEW c \in P PROVE Put(out, c, old, new) = Append(out, c)
  BY DEF Plain
<1> DEFINE t == Append(out, c)
<1>1. Len(t) \in Nat /\ t[Len(t)] = c
  BY AppendProperties, LenProperties DEF Text
<1> HIDE DEF t
<1>2. /\ Len(old) \in 1 .. Len(old) /\ old[Len(old)] # c
      /\ Len(t) - Len(old) + Len(old) = Len(t)
  BY <1>1
<1>3. ~ EndsIn(t, old)
  BY <1>1, <1>2 DEF EndsIn
<1> QED
  BY <1>3 DEF Put, t

LEMMA PlainKept ==
    ASSUME NEW old, NEW new, NEW s \in Text, NEW P, NEW t \in Seq(P),
           Plain(P, old, new), Rewrite(s, old, new) \in Text
    PROVE  Kept(s, t, old, new)
<1> DEFINE r == Rewrite(s, old, new)
           G == {x \in Seq(P) : Rewrite(s \o x, old, new) = r \o x}
<1>1. << >> \in G
  <2>1. s \o << >> = s /\ r \o << >> = r /\ << >> \in Seq(P)
    BY ConcatSimplifications, EmptySeq DEF Text
  <2> QED
    BY <2>1
<1>2. ASSUME NEW x \in Seq(P), NEW c \in P, x \in G PROVE Append(x, c) \in G
  <2>1. x \in Text /\ c \in Symbols /\ Append(x, c) \in Seq(P)
    BY DEF Plain, Text
  <2>2. s \o x \in Text /\ r \o x \in Text
    BY <2>1, ConcatProperties DEF Text
  <2>3. s \o Append(x, c) = Append(s \o x, c) /\ r \o Append(x, c) = Append(r \o x, c)
    BY <2>1, ConcatAppend DEF Text
  <2>4. Rewrite(Append(s \o x, c), old, new) = Put(r \o x, c, old, new)
    <3>1. Rewrite(Append(s \o x, c), old, new) = Put(Rewrite(s \o x, old, new), c, old, new)
      BY <2>1, <2>2, RewriteAppend, Zenon DEF Text
    <3>2. Rewrite(s \o x, old, new) = r \o x
      BY <1>2
    <3> HIDE DEF r, G
    <3> QED
      BY <3>1, <3>2, Zenon
  <2>5. Put(r \o x, c, old, new) = Append(r \o x, c)
    BY <2>2, Zenon DEF Plain
  <2> QED
    BY <2>1, <2>3, <2>4, <2>5
<1> HIDE DEF G
<1>3. \A x \in Seq(P), c \in P : x \in G => Append(x, c) \in G
  BY <1>2
<1>4. t \in G
  BY <1>1, <1>3, ByAppend
<1> QED
  BY <1>4 DEF G, Kept

\* The host is removed.
LEMMA HostRemoved ==
    ASSUME NEW P, P \subseteq Symbols, "file://localhost" \notin P, NEW s \in Seq(P)
    PROVE  WithoutHost(<<"file://localhost">> \o s) = s
<1> DEFINE host == <<"file://localhost">>
<1>1. /\ Plain(P, host, << >>)
      /\ host \in Text /\ << >> \in Text /\ "file://localhost" \in Symbols
  <2>1. Plain(P, host, << >>)
    <3>1. Len(host) \in Nat /\ Len(host) # 0 /\ host[Len(host)] \notin P
      OBVIOUS
    <3> HIDE DEF host
    <3> QED
      BY <3>1, PlainSymbols, Zenon
  <2>2. "file://localhost" \in Symbols
    BY DEF Symbols
  <2> QED
    BY <2>1, <2>2, EmptySeq DEF Text
<1>2. Rewrite(host, host, << >>) = << >>
  <2>1. host = Append(<< >>, "file://localhost")
    OBVIOUS
  <2>2. Rewrite(host, host, << >>) = Put(<< >>, "file://localhost", host, << >>)
    <3>1. Rewrite(Append(<< >>, "file://localhost"), host, << >>)
            = Put(Rewrite(<< >>, host, << >>), "file://localhost", host, << >>)
      BY <1>1, RewriteAppend, Zenon DEF Text
    <3> QED
      BY <2>1, <3>1, RewriteEmpty, Zenon
  <2>3. EndsIn(host, host) /\ Len(host) - Len(host) = 0
    BY DEF EndsIn
  <2>4. SubSeq(host, 1, 0) \o << >> = << >>
    OBVIOUS
  <2> QED
    BY <2>1, <2>2, <2>3, <2>4 DEF Put
<1> HIDE DEF host
<1>3. Rewrite(host \o s, host, << >>) = << >> \o s
  <2>1. Rewrite(host, host, << >>) \in Text
    BY <1>1, <1>2
  <2>2. Kept(host, s, host, << >>)
    BY <1>1, <2>1, PlainKept, Zenon
  <2> QED
    BY <1>2, <2>2, Zenon DEF Kept
<1>4. << >> \o s = s
  BY ConcatSimplifications
<1> QED
  BY <1>3, <1>4 DEF host, WithoutHost, Replace

\* What PathOf leaves of a character.
Decoded == [c \in Chars |-> IF c = "space" THEN <<"space">> ELSE Escape[c]]

Encoded(d) == <<"/">> \o Joined(d, Escape)
Path(d) == <<"/">> \o Joined(d, Decoded)

\* No symbol of a converted name is a separator.
NameSymbols == Symbols \ {"/", "file://localhost"}

LEMMA EscapeOf ==
    ASSUME NEW c \in Chars
    PROVE  /\ c = "space" => Escape[c] = <<"%", "2", "0">> /\ Decoded[c] = <<"space">>
           /\ c = "%" => Escape[c] = <<"%", "2", "5">> /\ Decoded[c] = <<"%", "2", "5">>
           /\ c = "u:" => /\ Escape[c] = <<"u", "%", "C", "C", "%", "8", "8">>
                          /\ Decoded[c] = <<"u", "%", "C", "C", "%", "8", "8">>
           /\ c \notin {"space", "%", "u:"} => Escape[c] = <<c>> /\ Decoded[c] = <<c>>
<1>1. CASE c = "space"
  BY <1>1 DEF Escape, Decoded
<1>2. CASE c = "%"
  BY <1>2 DEF Escape, Decoded
<1>3. CASE c = "u:"
  BY <1>3 DEF Escape, Decoded
<1>4. CASE c \notin {"space", "%", "u:"}
  BY <1>4 DEF Escape, Decoded
<1> QED
  BY <1>1, <1>2, <1>3, <1>4, Zenon

LEMMA EscapeType ==
    Escape \in [Chars -> Seq(NameSymbols)] /\ Decoded \in [Chars -> Seq(NameSymbols)]
<1>1. ASSUME NEW c \in Chars
      PROVE  Escape[c] \in Seq(NameSymbols) /\ Decoded[c] \in Seq(NameSymbols)
  <2>1. CASE c = "space"
    <3>1. <<"%", "2", "0">> \in Seq(NameSymbols) /\ <<"space">> \in Seq(NameSymbols)
      BY DEF NameSymbols, Symbols
    <3> QED
      BY <2>1, <3>1, EscapeOf, Zenon
  <2>2. CASE c = "%"
    <3>1. <<"%", "2", "5">> \in Seq(NameSymbols)
      BY DEF NameSymbols, Symbols
    <3> QED
      BY <2>2, <3>1, EscapeOf, Zenon
  <2>3. CASE c = "u:"
    <3>1. <<"u", "%", "C", "C", "%", "8", "8">> \in Seq(NameSymbols)
      BY DEF NameSymbols, Symbols
    <3> QED
      BY <2>3, <3>1, EscapeOf, Zenon
  <2>4. CASE c \notin {"space", "%", "u:"}
    <3>1. c \in NameSymbols
      BY CharsAreSymbols DEF NameSymbols
    <3>2. <<c>> \in Seq(NameSymbols)
      BY <3>1
    <3> QED
      BY <2>4, <3>2, EscapeOf, Zenon
  <2> QED
    BY <2>1, <2>2, <2>3, <2>4, Zenon
<1>2. Escape = [c \in Chars |-> Escape[c]] /\ Decoded = [c \in Chars |-> Decoded[c]]
  BY DEF Escape, Decoded
<1> QED
  BY <1>1, <1>2

LEMMA JoinedType ==
    ASSUME NEW S, NEW code \in [Chars -> Seq(S)], NEW d \in Seq(Chars)
    PROVE  Joined(d, code) \in Seq(S)
<1> DEFINE G == {x \in Seq(Chars) : Joined(x, code) \in Seq(S)}
<1>1. << >> \in G
  BY JoinedEmpty, EmptySeq
<1>2. ASSUME NEW x \in Seq(Chars), NEW c \in Chars, x \in G PROVE Append(x, c) \in G
  <2>1. Joined(Append(x, c), code) = Joined(x, code) \o code[c]
    BY JoinedAppend, Zenon
  <2>2. Joined(x, code) \in Seq(S) /\ code[c] \in Seq(S)
    BY <1>2
  <2>3. Joined(x, code) \o code[c] \in Seq(S)
    BY <2>2, ConcatProperties
  <2>4. Append(x, c) \in Seq(Chars)
    BY AppendProperties
  <2> QED
    BY <2>1, <2>3, <2>4, Zenon
<1> HIDE DEF G
<1>3. \A x \in Seq(Chars), c \in Chars : x \in G => Append(x, c) \in G
  BY <1>2
<1>4. d \in G
  BY <1>1, <1>3, ByAppend
<1> QED
  BY <1>4 DEF G

\* One character more.
LEMMA PathAppend ==
    ASSUME NEW d \in Seq(Chars), NEW c \in Chars
    PROVE  /\ Encoded(Append(d, c)) = Encoded(d) \o Escape[c]
           /\ Path(Append(d, c)) = Path(d) \o Decoded[c]
           /\ Encoded(d) \in Text /\ Path(d) \in Text
           /\ Escape[c] \in Text /\ Decoded[c] \in Text
<1>1. Escape \in [Chars -> Text] /\ Decoded \in [Chars -> Text] /\ <<"/">> \in Text
  <2>1. NameSymbols \subseteq Symbols /\ "/" \in Symbols
    BY DEF NameSymbols, Symbols
  <2>2. Seq(NameSymbols) \subseteq Text
    BY <2>1 DEF Text
  <2> QED
    BY <2>1, <2>2, EscapeType DEF Text
<1>2. Joined(d, Escape) \in Text /\ Joined(d, Decoded) \in Text
  BY <1>1, JoinedType DEF Text
<1>3. Escape[c] \in Text /\ Decoded[c] \in Text
  BY <1>1
<1>4. Joined(Append(d, c), Escape) = Joined(d, Escape) \o Escape[c]
  BY JoinedAppend, Zenon
<1>5. Joined(Append(d, c), Decoded) = Joined(d, Decoded) \o Decoded[c]
  BY JoinedAppend, Zenon
<1>6. Encoded(d) \in Text /\ Path(d) \in Text
  BY <1>1, <1>2, ConcatProperties DEF Encoded, Path, Text
<1>7. Encoded(d) \o Escape[c] = <<"/">> \o (Joined(d, Escape) \o Escape[c])
  BY <1>1, <1>2, <1>3, ConcatAssociative DEF Encoded, Text
<1>8. Path(d) \o Decoded[c] = <<"/">> \o (Joined(d, Decoded) \o Decoded[c])
  BY <1>1, <1>2, <1>3, ConcatAssociative DEF Path, Text
<1> QED
  BY <1>3, <1>4, <1>5, <1>6, <1>7, <1>8, Zenon DEF Encoded, Path

LEMMA PathEmpty == Encoded(<< >>) = <<"/">> /\ Path(<< >>) = <<"/">>
<1>1. <<"/">> \o << >> = <<"/">>
  OBVIOUS
<1> QED
  BY <1>1, JoinedEmpty, Zenon DEF Encoded, Path

\* The end of a concatenation is the end of its second part.
LEMMA ConcatEnd ==
    ASSUME NEW s \in Text, NEW t \in Text, Len(t) # 0
    PROVE  /\ Len(s) \in Nat /\ Len(t) \in Nat /\ Len(s \o t) = Len(s) + Len(t)
           /\ (s \o t)[Len(s \o t)] = t[Len(t)]
           /\ Len(t) > 1 => (s \o t)[Len(s \o t) - 1] = t[Len(t) - 1]
           /\ Len(t) = 1 /\ Len(s) # 0 => (s \o t)[Len(s \o t) - 1] = s[Len(s)]
<1>1. Len(s) \in Nat /\ Len(t) \in Nat /\ Len(s \o t) = Len(s) + Len(t)
  BY LenProperties, ConcatProperties DEF Text
<1>2. \A i \in 1 .. Len(s) + Len(t) :
        (s \o t)[i] = IF i <= Len(s) THEN s[i] ELSE t[i - Len(s)]
  BY ConcatProperties DEF Text
<1> QED
  BY <1>1, <1>2

LEMMA DecodedEnd ==
    ASSUME NEW c \in Chars
    PROVE  /\ Len(Decoded[c]) # 0
           /\ Decoded[c][Len(Decoded[c])] \notin {"%", "/"}
           /\ Decoded[c][Len(Decoded[c])] = "2" => Len(Decoded[c]) = 1
           /\ c = "%" => Decoded[c][Len(Decoded[c])] = "5"
           /\ c = "u:" => Decoded[c][Len(Decoded[c])] = "8"
           /\ c \notin {"%", "u:"} => Decoded[c] = <<c>> /\ Decoded[c][Len(Decoded[c])] = c
<1> DEFINE t == Decoded[c]
<1>1. CASE c = "%"
  <2>1. t = <<"%", "2", "5">>
    BY <1>1, EscapeOf
  <2>2. Len(t) = 3 /\ t[3] = "5"
    BY <2>1
  <2> QED
    BY <1>1, <2>2
<1>2. CASE c = "u:"
  <2>1. t = <<"u", "%", "C", "C", "%", "8", "8">>
    BY <1>2, EscapeOf
  <2>2. Len(t) = 7 /\ t[7] = "8"
    BY <2>1
  <2> QED
    BY <1>2, <2>2
<1>3. CASE c \notin {"%", "u:"}
  <2>1. t = <<c>> /\ c # "/"
    BY <1>3, EscapeOf, CharsAssumption
  <2>2. Len(t) = 1 /\ t[1] = c
    BY <2>1
  <2> QED
    BY <1>3, <2>1, <2>2
<1> QED
  BY <1>1, <1>2, <1>3

\* A path in which no escape has been begun.
NotOpen(v) ==
    /\ Len(v) # 0
    /\ v[Len(v)] # "%"
    /\ Len(v) > 1 /\ v[Len(v)] = "2" => v[Len(v) - 1] # "%"

LEMMA PathNotOpen ==
    ASSUME NEW d \in Seq(Chars)
    PROVE  NotOpen(Path(d))
<1> DEFINE G == {x \in Seq(Chars) : NotOpen(Path(x))}
<1>1. << >> \in G
  <2>1. NotOpen(<<"/">>)
    BY DEF NotOpen
  <2> QED
    BY <2>1, PathEmpty, EmptySeq
<1>2. ASSUME NEW x \in Seq(Chars), NEW c \in Chars, x \in G PROVE Append(x, c) \in G
  <2> DEFINE v == Path(x)
             t == Decoded[c]
  <2>1. Path(Append(x, c)) = v \o t /\ v \in Text /\ t \in Text
    BY PathAppend
  <2>2. NotOpen(v) /\ Append(x, c) \in Seq(Chars)
    BY <1>2
  <2>3. Len(t) # 0 /\ t[Len(t)] # "%" /\ (t[Len(t)] = "2" => Len(t) = 1)
    BY DecodedEnd
  <2> HIDE DEF t, v, G
  <2>4. NotOpen(v \o t)
    <3>1. /\ Len(v) \in Nat /\ Len(t) \in Nat /\ Len(v \o t) = Len(v) + Len(t)
          /\ (v \o t)[Len(v \o t)] = t[Len(t)]
          /\ Len(t) = 1 /\ Len(v) # 0 => (v \o t)[Len(v \o t) - 1] = v[Len(v)]
      BY <2>1, <2>3, ConcatEnd
    <3> DEFINE u == v \o t
    <3> HIDE DEF u
    <3>2. Len(u) # 0 /\ u[Len(u)] = t[Len(t)] /\ (Len(t) = 1 => u[Len(u) - 1] = v[Len(v)])
      BY <2>2, <2>3, <3>1 DEF u, NotOpen
    <3>3. NotOpen(u)
      BY <2>2, <2>3, <3>2 DEF NotOpen
    <3> QED
      BY <3>3 DEF u
  <2> QED
    BY <2>1, <2>2, <2>4 DEF G
<1> HIDE DEF G
<1>3. \A x \in Seq(Chars), c \in Chars : x \in G => Append(x, c) \in G
  BY <1>2
<1>4. d \in G
  BY <1>1, <1>3, ByAppend
<1> QED
  BY <1>4 DEF G

LEMMA ConcatEscape ==
    ASSUME NEW v \in Text
    PROVE  v \o <<"%", "2", "0">> = Append(v \o <<"%", "2">>, "0")
<1> DEFINE old == <<"%", "2", "0">>
<1>1. <<"%", "2">> \in Text /\ old \in Text /\ "0" \in Symbols
  <2>1. "%" \in Symbols /\ "2" \in Symbols /\ "0" \in Symbols
    BY DEF Symbols
  <2> QED
    BY <2>1 DEF Text
<1>2. Append(v \o <<"%", "2">>, "0") = v \o Append(<<"%", "2">>, "0")
  BY <1>1, ConcatAppend DEF Text
<1>3. Append(<<"%", "2">>, "0") = old
  <2> DEFINE e == Append(<<"%", "2">>, "0")
  <2>1. Len(<<"%", "2">>) = 2 /\ <<"%", "2">>[1] = "%" /\ <<"%", "2">>[2] = "2"
    OBVIOUS
  <2>2. /\ e \in Text /\ Len(e) = 3
        /\ e[1] = "%" /\ e[2] = "2" /\ e[3] = "0"
    BY <1>1, <2>1, AppendProperties DEF Text
  <2> HIDE DEF e
  <2>3. Len(old) = 3 /\ \A i \in 1 .. Len(e) : e[i] = old[i]
    BY <2>2
  <2>4. e = old
    BY <1>1, <2>2, <2>3, SeqEqual DEF Text
  <2> QED
    BY <2>4 DEF e
<1> QED
  BY <1>2, <1>3

\* The escape of a space becomes a space.
LEMMA PutSpace ==
    ASSUME NEW v \in Text
    PROVE  Put(v \o <<"%", "2">>, "0", <<"%", "2", "0">>, <<"space">>) = v \o <<"space">>
<1> DEFINE old == <<"%", "2", "0">>
           t == Append(v \o <<"%", "2">>, "0")
<1>1. Len(v) \in Nat /\ <<"%", "2">> \in Text /\ old \in Text /\ "0" \in Symbols
  <2>1. "%" \in Symbols /\ "2" \in Symbols /\ "0" \in Symbols
    BY DEF Symbols
  <2>2. Len(v) \in Nat
    BY LenProperties DEF Text
  <2> QED
    BY <2>1, <2>2 DEF Text
<1>2. t = v \o old
  BY ConcatEscape
<1>3. /\ Len(t) = Len(v) + 3 /\ t \in Text
      /\ \A i \in 1 .. Len(v) : t[i] = v[i]
      /\ \A i \in 1 .. 3 : t[Len(v) + i] = old[i]
  <2>1. Len(old) = 3
    OBVIOUS
  <2> HIDE DEF old, t
  <2>2. /\ t \in Text /\ Len(t) = Len(v) + 3
        /\ \A i \in 1 .. Len(v) + 3 : t[i] = IF i <= Len(v) THEN v[i] ELSE old[i - Len(v)]
    <3>1. v \in Seq(Symbols) /\ old \in Seq(Symbols)
      BY <1>1 DEF Text
    <3>2. /\ v \o old \in Seq(Symbols) /\ Len(v \o old) = Len(v) + Len(old)
          /\ \A i \in 1 .. Len(v) + Len(old) :
               (v \o old)[i] = IF i <= Len(v) THEN v[i] ELSE old[i - Len(v)]
      BY <3>1, ConcatProperties
    <3> QED
      BY <1>2, <2>1, <3>2 DEF Text
  <2> QED
    BY <1>1, <2>2
<1>4. EndsIn(t, old)
  <2>1. Len(old) = 3
    OBVIOUS
  <2> HIDE DEF old, t
  <2> QED
    BY <1>1, <1>3, <2>1 DEF EndsIn
<1>5. SubSeq(t, 1, Len(t) - Len(old)) = v
  <2>1. Len(t) - Len(old) = Len(v)
    BY <1>1, <1>3
  <2> HIDE DEF old, t
  <2>2. /\ SubSeq(t, 1, Len(v)) \in Text /\ Len(SubSeq(t, 1, Len(v))) = Len(v)
        /\ \A i \in 1 .. Len(v) : SubSeq(t, 1, Len(v))[i] = t[i]
    BY <1>1, <1>3, SubSeqProperties DEF Text
  <2>3. SubSeq(t, 1, Len(v)) = v
    BY <1>3, <2>2, SeqEqual DEF Text
  <2> QED
    BY <2>1, <2>3
<1> QED
  BY <1>4, <1>5 DEF Put

\* A zero is no end of an escape.
LEMMA PutZero ==
    ASSUME NEW v \in Text, NotOpen(v)
    PROVE  Put(v, "0", <<"%", "2", "0">>, <<"space">>) = Append(v, "0")
<1> DEFINE old == <<"%", "2", "0">>
           t == Append(v, "0")
<1>1. "0" \in Symbols
  BY DEF Symbols
<1>2. Len(v) \in Nat /\ Len(t) = Len(v) + 1 /\ \A i \in 1 .. Len(v) : t[i] = v[i]
  BY <1>1, LenProperties, AppendProperties DEF Text
<1> HIDE DEF t
<1>3. ASSUME EndsIn(t, old) PROVE FALSE
  <2>1. Len(t) >= 3 /\ t[Len(t) - 3 + 1] = "%" /\ t[Len(t) - 3 + 2] = "2"
    BY <1>3 DEF EndsIn
  <2>2. v[Len(v) - 1] = "%" /\ v[Len(v)] = "2" /\ Len(v) > 1
    BY <1>2, <2>1
  <2> QED
    BY <2>2 DEF NotOpen
<1> QED
  BY <1>3 DEF Put, t

\* Of the escapes, only those of spaces are decoded.
LEMMA SpacesDecoded ==
    ASSUME NEW d \in Seq(Chars)
    PROVE  Rewrite(Encoded(d), <<"%", "2", "0">>, <<"space">>) = Path(d)
<1> DEFINE old == <<"%", "2", "0">>
           new == <<"space">>
           G == {x \in Seq(Chars) : Rewrite(Encoded(x), old, new) = Path(x)}
<1>1. Len(old) \in Nat /\ Len(old) # 0 /\ old[Len(old)] = "0"
  OBVIOUS
<1>2. ASSUME NEW P, P \subseteq Symbols, "0" \notin P PROVE Plain(P, old, new)
  <2> HIDE DEF old, new
  <2> QED
    BY <1>1, <1>2, PlainSymbols
<1>3. << >> \in G
  <2>1. Plain({"/"}, old, new)
    BY <1>2 DEF Symbols
  <2>2. << >> \in Text /\ <<"/">> \in Seq({"/"}) /\ << >> \o <<"/">> = <<"/">>
    BY EmptySeq DEF Text
  <2> HIDE DEF old, new
  <2>3. Rewrite(<< >>, old, new) = << >>
    BY RewriteEmpty, Zenon
  <2>4. Rewrite(<< >>, old, new) \in Text
    BY <2>2, <2>3, Zenon
  <2>5. Kept(<< >>, <<"/">>, old, new)
    BY <2>1, <2>2, <2>4, PlainKept, Zenon
  <2>6. Rewrite(<<"/">>, old, new) = <<"/">>
    BY <2>2, <2>3, <2>5, Zenon DEF Kept
  <2> QED
    BY <2>6, PathEmpty, EmptySeq
<1>4. ASSUME NEW x \in Seq(Chars), NEW c \in Chars, x \in G PROVE Append(x, c) \in G
  <2> DEFINE u == Encoded(x)
             v == Path(x)
  <2>1. /\ Encoded(Append(x, c)) = u \o Escape[c] /\ Path(Append(x, c)) = v \o Decoded[c]
        /\ u \in Text /\ v \in Text /\ Escape[c] \in Text /\ Decoded[c] \in Text
    BY PathAppend
  <2>2. Rewrite(u, old, new) = v /\ NotOpen(v) /\ Append(x, c) \in Seq(Chars)
    BY <1>4, PathNotOpen
  <2> HIDE DEF u, v, G
  <2>3. Rewrite(u \o Escape[c], old, new) = v \o Decoded[c]
    <3>1. CASE c = "space"
      <4>1. Escape[c] = old /\ Decoded[c] = new
        BY <3>1, EscapeOf
      <4>2. u \o old = Append(u \o <<"%", "2">>, "0")
        BY <2>1, ConcatEscape
      <4>3. {"%", "2"} \subseteq Symbols /\ "0" \notin {"%", "2"} /\ "0" \in Symbols
        BY DEF Symbols
      <4>4. <<"%", "2">> \in Seq({"%", "2"}) /\ <<"%", "2">> \in Text
        BY <4>3 DEF Text
      <4>5. Plain({"%", "2"}, old, new)
        BY <1>2, <4>3
      <4>6. u \o <<"%", "2">> \in Text
        BY <2>1, <4>4, ConcatProperties DEF Text
      <4>7. Put(v \o <<"%", "2">>, "0", old, new) = v \o new
        BY <2>1, PutSpace
      <4> HIDE DEF old, new
      <4>8. Kept(u, <<"%", "2">>, old, new)
        BY <2>1, <2>2, <4>4, <4>5, PlainKept, Zenon
      <4>9. Rewrite(u \o <<"%", "2">>, old, new) = v \o <<"%", "2">>
        BY <2>2, <4>8, Zenon DEF Kept
      <4>10. Rewrite(Append(u \o <<"%", "2">>, "0"), old, new)
               = Put(Rewrite(u \o <<"%", "2">>, old, new), "0", old, new)
        BY <4>3, <4>6, RewriteAppend, Zenon DEF Text
      <4> QED
        BY <4>1, <4>2, <4>7, <4>9, <4>10, Zenon
    <3>2. CASE c = "0"
      <4>1. Escape[c] = <<"0">> /\ Decoded[c] = <<"0">> /\ "0" \in Symbols
        BY <3>2, EscapeOf DEF Symbols
      <4>2. u \o <<"0">> = Append(u, "0") /\ v \o <<"0">> = Append(v, "0")
        BY <2>1, <4>1, AppendIsConcat DEF Text
      <4>3. Put(v, "0", old, new) = Append(v, "0")
        BY <2>1, <2>2, PutZero
      <4> HIDE DEF old, new
      <4>4. Rewrite(Append(u, "0"), old, new) = Put(Rewrite(u, old, new), "0", old, new)
        BY <2>1, <4>1, RewriteAppend, Zenon DEF Text
      <4> QED
        BY <2>2, <4>1, <4>2, <4>3, <4>4, Zenon
    <3>3. CASE c \notin {"space", "0"}
      <4> DEFINE P == Symbols \ {"0"}
      <4>1. P \subseteq Symbols /\ "0" \notin P
        OBVIOUS
      <4>2. Escape[c] \in Seq(P) /\ Decoded[c] = Escape[c]
        <5>1. CASE c = "%"
          <6>1. <<"%", "2", "5">> \in Seq(P)
            BY DEF Symbols
          <6> QED
            BY <5>1, <6>1, EscapeOf, Zenon
        <5>2. CASE c = "u:"
          <6>1. <<"u", "%", "C", "C", "%", "8", "8">> \in Seq(P)
            BY DEF Symbols
          <6> QED
            BY <5>2, <6>1, EscapeOf, Zenon
        <5>3. CASE c \notin {"%", "u:"}
          <6>1. c \in P /\ c \notin {"space", "%", "u:"}
            BY <3>3, <5>3, CharsAreSymbols
          <6>2. <<c>> \in Seq(P)
            BY <6>1
          <6> QED
            BY <6>1, <6>2, EscapeOf, Zenon
        <5> QED
          BY <5>1, <5>2, <5>3, Zenon
      <4>3. Plain(P, old, new)
        BY <1>2, <4>1
      <4> HIDE DEF P, old, new
      <4>4. Kept(u, Escape[c], old, new)
        BY <2>1, <2>2, <4>2, <4>3, PlainKept, Zenon
      <4> QED
        BY <2>2, <4>2, <4>4, Zenon DEF Kept
    <3> QED
      BY <3>1, <3>2, <3>3, Zenon
  <2> QED
    BY <2>1, <2>2, <2>3, Zenon DEF G
<1> HIDE DEF G
<1>5. \A x \in Seq(Chars), c \in Chars : x \in G => Append(x, c) \in G
  BY <1>4
<1>6. d \in G
  BY <1>3, <1>5, ByAppend
<1> QED
  BY <1>6 DEF G

LEMMA PathOfIs ==
    ASSUME NEW d \in Seq(Chars)
    PROVE  PathOf(AbsoluteString(d)) = Append(Path(d), "/") /\ Path(d) \in Text
<1> DEFINE P == Symbols \ {"file://localhost"}
           host == <<"file://localhost">>
           J == Joined(d, Escape)
           old == <<"%", "2", "0">>
           new == <<"space">>
<1>1. /\ P \subseteq Symbols /\ "file://localhost" \notin P
      /\ "/" \in P /\ "file://localhost" \in Symbols
  BY DEF Symbols
<1>2. J \in Seq(P) /\ Path(d) \in Text
  <2>1. Joined(d, Escape) \in Seq(NameSymbols) /\ Joined(d, Decoded) \in Seq(NameSymbols)
    BY JoinedType, EscapeType
  <2>2. NameSymbols \subseteq P
    BY DEF NameSymbols
  <2>3. <<"/">> \in Text /\ Joined(d, Decoded) \in Text
    BY <1>1, <2>1, <2>2 DEF Text
  <2> HIDE DEF P
  <2> QED
    BY <2>1, <2>2, <2>3, ConcatProperties DEF Path, Text
<1>3. Encoded(d) \in Seq(P) /\ Append(Encoded(d), "/") \in Seq(P) /\ <<"/">> \in Seq(P)
  <2> HIDE DEF P, J
  <2>1. <<"/">> \in Seq(P)
    BY <1>1
  <2>2. Encoded(d) \in Seq(P)
    BY <1>2, <2>1, ConcatProperties DEF Encoded, J
  <2> QED
    BY <1>1, <2>1, <2>2, AppendProperties
<1>4. AbsoluteString(d) = host \o Append(Encoded(d), "/")
  <2>1. <<"file://localhost", "/">> = host \o <<"/">>
    OBVIOUS
  <2>2. host \in Text /\ <<"/">> \in Text /\ J \in Text /\ Encoded(d) \in Text
    BY <1>1, <1>2, <1>3 DEF Text
  <2> HIDE DEF P, J, host
  <2>3. (host \o <<"/">>) \o J = host \o Encoded(d)
    BY <2>2, ConcatAssociative DEF Encoded, J, Text
  <2>4. (host \o Encoded(d)) \o <<"/">> = host \o (Encoded(d) \o <<"/">>)
    BY <2>2, ConcatAssociative DEF Text
  <2>5. Encoded(d) \o <<"/">> = Append(Encoded(d), "/")
    BY <1>1, <1>3, AppendIsConcat
  <2> QED
    BY <2>1, <2>3, <2>4, <2>5, Zenon DEF AbsoluteString, J
<1>5. WithoutHost(AbsoluteString(d)) = Append(Encoded(d), "/")
  <2> HIDE DEF P
  <2> QED
    BY <1>1, <1>3, <1>4, HostRemoved, Zenon
<1>6. Rewrite(Encoded(d), old, new) = Path(d)
  BY SpacesDecoded
<1>7. Plain({"/"}, old, new)
  <2>1. /\ Len(old) \in Nat /\ Len(old) # 0
        /\ old[Len(old)] \notin {"/"} /\ {"/"} \subseteq Symbols
    BY DEF Symbols
  <2> HIDE DEF old, new
  <2> QED
    BY <2>1, PlainSymbols, Zenon
<1> HIDE DEF P, old, new
<1>8. Rewrite(Append(Encoded(d), "/"), old, new)
        = Put(Rewrite(Encoded(d), old, new), "/", old, new)
  BY <1>1, <1>3, RewriteAppend, Zenon
<1>9. Put(Path(d), "/", old, new) = Append(Path(d), "/")
  BY <1>2, <1>7 DEF Plain
<1> QED
  BY <1>2, <1>5, <1>6, <1>8, <1>9, Zenon DEF PathOf, Replace, old, new

\* A path ends in the name it is the path of.
LEMMA PathEnd ==
    ASSUME NEW d \in Seq(Chars), d # << >>
    PROVE  Path(d) \in Text /\ Len(Path(d)) # 0 /\ Path(d)[Len(Path(d))] # "/"
<1>1. PICK x \in Seq(Chars), c \in Chars : d = Append(x, c)
  BY SequenceEmptyOrAppend
<1> DEFINE v == Path(x)
           t == Decoded[c]
<1>2. Path(d) = v \o t /\ v \in Text /\ t \in Text
  BY <1>1, PathAppend
<1>3. Len(t) # 0 /\ t[Len(t)] # "/"
  BY DecodedEnd
<1> HIDE DEF v, t
<1>4. Len(v \o t) = Len(v) + Len(t) /\ Len(v) \in Nat /\ Len(t) \in Nat
      /\ (v \o t)[Len(v \o t)] = t[Len(t)]
  BY <1>2, <1>3, ConcatEnd
<1>5. v \o t \in Text
  BY <1>2, ConcatProperties DEF Text
<1> DEFINE p == v \o t
<1> HIDE DEF p
<1>6. p \in Text /\ Len(p) # 0 /\ p[Len(p)] # "/"
  BY <1>3, <1>4, <1>5 DEF p
<1> QED
  BY <1>2, <1>6 DEF p

\* A slash after a name stays, a second one does not.
LEMMA PutSlash ==
    ASSUME NEW v \in Text, Len(v) # 0, v[Len(v)] # "/"
    PROVE  /\ Put(v, "/", <<"/", "/">>, <<"/">>) = Append(v, "/")
           /\ Put(Append(v, "/"), "/", <<"/", "/">>, <<"/">>) = Append(v, "/")
<1> DEFINE old == <<"/", "/">>
           w == Append(v, "/")
           t == Append(w, "/")
<1>1. "/" \in Symbols /\ Len(old) = 2 /\ old[1] = "/" /\ old[2] = "/"
  BY DEF Symbols
<1>2. /\ Len(v) \in Nat /\ w \in Text /\ Len(w) = Len(v) + 1 /\ w[Len(v) + 1] = "/"
      /\ \A i \in 1 .. Len(v) : w[i] = v[i]
  BY <1>1, LenProperties, AppendProperties DEF Text
<1>3. w = v \o <<"/">>
  BY <1>1, AppendIsConcat DEF Text
<1> HIDE DEF w
<1>4. /\ t \in Text /\ Len(t) = Len(v) + 2 /\ t[Len(v) + 2] = "/"
      /\ \A i \in 1 .. Len(v) + 1 : t[i] = w[i]
  BY <1>1, <1>2, LenProperties, AppendProperties DEF Text
<1> HIDE DEF t, old
<1>5. ~ EndsIn(w, old)
  <2> SUFFICES ASSUME EndsIn(w, old) PROVE FALSE
    OBVIOUS
  <2>1. 1 \in 1 .. Len(old) /\ Len(w) - Len(old) + 1 = Len(v)
    BY <1>1, <1>2
  <2>2. w[Len(v)] = "/"
    BY <1>1, <2>1 DEF EndsIn
  <2> QED
    BY <1>2, <2>2
<1>6. EndsIn(t, old)
  <2>1. t[Len(v) + 1] = "/"
    BY <1>2, <1>4
  <2> QED
    BY <1>1, <1>2, <1>4, <2>1 DEF EndsIn
<1>7. SubSeq(t, 1, Len(t) - Len(old)) = v
  <2>1. Len(t) - Len(old) = Len(v)
    BY <1>1, <1>2, <1>4
  <2>2. /\ SubSeq(t, 1, Len(v)) \in Text /\ Len(SubSeq(t, 1, Len(v))) = Len(v)
        /\ \A i \in 1 .. Len(v) : SubSeq(t, 1, Len(v))[i] = t[i]
    BY <1>2, <1>4, SubSeqProperties DEF Text
  <2>3. SubSeq(t, 1, Len(v)) = v
    BY <1>2, <1>4, <2>2, SeqEqual DEF Text
  <2> QED
    BY <2>1, <2>3
<1>8. Put(v, "/", old, <<"/">>) = w
  BY <1>5 DEF Put, w
<1>9. Put(w, "/", old, <<"/">>) = w
  BY <1>3, <1>6, <1>7, Zenon DEF Put, t
<1> QED
  BY <1>8, <1>9 DEF old, w

LEMMA TwoSymbols ==
    ASSUME NEW a \in Symbols, NEW b \in Symbols
    PROVE  <<a>> \o <<b>> = <<a, b>>
<1> DEFINE s == <<a>>
           t == <<b>>
           u == <<a, b>>
<1>1. s \in Text /\ t \in Text /\ u \in Text
  BY DEF Text
<1>2. Len(s) = 1 /\ s[1] = a /\ Len(t) = 1 /\ t[1] = b /\ Len(u) = 2 /\ u[1] = a /\ u[2] = b
  OBVIOUS
<1> HIDE DEF s, t, u
<1>3. /\ s \o t \in Seq(Symbols) /\ Len(s \o t) = Len(s) + Len(t)
      /\ \A i \in 1 .. Len(s) + Len(t) :
           (s \o t)[i] = IF i <= Len(s) THEN s[i] ELSE t[i - Len(s)]
  BY <1>1, ConcatProperties DEF Text
<1> DEFINE c == s \o t
<1> HIDE DEF c
<1>4. c \in Seq(Symbols) /\ Len(c) = 2 /\ c[1] = a /\ c[2] = b
  BY <1>2, <1>3 DEF c
<1>5. Len(c) = Len(u) /\ \A i \in 1 .. Len(c) : c[i] = u[i]
  BY <1>2, <1>4
<1>6. c = u
  BY <1>1, <1>4, <1>5, SeqEqual DEF Text
<1> QED
  BY <1>6 DEF c, s, t, u

LEMMA AppendTwo ==
    ASSUME NEW w \in Text, NEW a \in Symbols, NEW b \in Symbols
    PROVE  w \o <<a, b>> = Append(Append(w, a), b)
<1>1. Append(w, a) \in Text /\ <<a>> \in Text /\ <<b>> \in Text
  BY AppendProperties DEF Text
<1>2. Append(w, a) = w \o <<a>> /\ Append(Append(w, a), b) = Append(w, a) \o <<b>>
  BY <1>1, AppendIsConcat DEF Text
<1>3. <<a>> \o <<b>> = <<a, b>>
  BY TwoSymbols
<1>4. (w \o <<a>>) \o <<b>> = w \o (<<a>> \o <<b>>)
  BY <1>1, ConcatAssociative DEF Text
<1> QED
  BY <1>2, <1>3, <1>4, Zenon

\* So the file system finds the converted name.
LEMMA ResolveIs ==
    ASSUME NEW d \in Seq(Chars), d # << >>, NEW name \in NameSymbols
    PROVE  /\ Resolve(Append(Path(d), "/") \o <<name>>) = Append(Append(Path(d), "/"), name)
           /\ Resolve(Append(Path(d), "/") \o <<"/", name>>) = Append(Append(Path(d), "/"), name)
<1> DEFINE old == <<"/", "/">>
           new == <<"/">>
           v == Path(d)
           w == Append(v, "/")
           J == Joined(d, Decoded)
<1>1. name \in Symbols /\ "/" \in Symbols
  BY DEF NameSymbols, Symbols
<1>2. v \in Text /\ Len(v) # 0 /\ v[Len(v)] # "/" /\ <<"/">> \in Text /\ << >> \in Text
  BY <1>1, PathEnd, EmptySeq DEF Text
<1>3. Plain(NameSymbols, old, new)
  <2>1. /\ Len(old) \in Nat /\ Len(old) # 0 /\ old[Len(old)] \notin NameSymbols
        /\ NameSymbols \subseteq Symbols
    BY DEF NameSymbols
  <2> HIDE DEF old, new
  <2> QED
    BY <2>1, PlainSymbols, Zenon
<1>4. Rewrite(<<"/">>, old, new) = <<"/">>
  <2>1. <<"/">> = Append(<< >>, "/") /\ ~ EndsIn(<<"/">>, old)
    BY DEF EndsIn
  <2> HIDE DEF old, new
  <2>2. Rewrite(Append(<< >>, "/"), old, new) = Put(Rewrite(<< >>, old, new), "/", old, new)
    BY <1>1, <1>2, RewriteAppend, Zenon DEF Text
  <2>3. Rewrite(<< >>, old, new) = << >>
    BY RewriteEmpty, Zenon
  <2>4. Put(<< >>, "/", old, new) = <<"/">>
    BY <2>1 DEF Put
  <2> QED
    BY <2>1, <2>2, <2>3, <2>4, Zenon
<1>5. Rewrite(v, old, new) = v
  <2>1. J \in Seq(NameSymbols)
    BY JoinedType, EscapeType
  <2>2. v = <<"/">> \o J
    BY DEF Path
  <2> HIDE DEF old, new, v, J
  <2>3. Rewrite(<<"/">>, old, new) \in Text
    BY <1>2, <1>4, Zenon
  <2>4. Kept(<<"/">>, J, old, new)
    BY <1>2, <1>3, <2>1, <2>3, PlainKept, Zenon
  <2> QED
    BY <1>4, <2>2, <2>4, Zenon DEF Kept
<1>6. w \in Text /\ Append(w, "/") \in Text
  BY <1>1, <1>2, AppendProperties DEF Text
<1>7. Put(v, "/", old, new) = w /\ Put(w, "/", old, new) = w
  BY <1>2, PutSlash
<1> HIDE DEF old, new, v
<1>8. Rewrite(w, old, new) = w
  <2>1. Rewrite(Append(v, "/"), old, new) = Put(Rewrite(v, old, new), "/", old, new)
    BY <1>1, <1>2, RewriteAppend, Zenon DEF Text
  <2> QED
    BY <1>5, <1>7, <2>1, Zenon
<1> HIDE DEF w
<1>9. Rewrite(Append(w, "/"), old, new) = w
  <2>1. Rewrite(Append(w, "/"), old, new) = Put(Rewrite(w, old, new), "/", old, new)
    BY <1>1, <1>6, RewriteAppend, Zenon DEF Text
  <2> QED
    BY <1>7, <1>8, <2>1, Zenon
<1>10. Put(w, name, old, new) = Append(w, name)
  BY <1>3, <1>6 DEF Plain
<1>11. Rewrite(Append(w, name), old, new) = Append(w, name)
  <2>1. Rewrite(Append(w, name), old, new) = Put(Rewrite(w, old, new), name, old, new)
    BY <1>1, <1>6, RewriteAppend, Zenon DEF Text
  <2> QED
    BY <1>8, <1>10, <2>1, Zenon
<1>12. Rewrite(Append(Append(w, "/"), name), old, new) = Append(w, name)
  <2>1. Rewrite(Append(Append(w, "/"), name), old, new)
          = Put(Rewrite(Append(w, "/"), old, new), name, old, new)
    BY <1>1, <1>6, RewriteAppend, Zenon DEF Text
  <2> QED
    BY <1>9, <1>10, <2>1, Zenon
<1>13. w \o <<name>> = Append(w, name)
  BY <1>1, <1>6, AppendIsConcat DEF Text
<1>14. w \o <<"/", name>> = Append(Append(w, "/"), name)
  BY <1>1, <1>6, AppendTwo
<1> QED
  BY <1>11, <1>12, <1>13, <1>14, Zenon DEF Resolve, old, new, v, w

\* The paths of a directory's cluster and of its movies.
LEMMA PathsAre ==
    ASSUME NEW d \in Seq(Chars), d # << >>
    PROVE  /\ PostgresDataDir(d) = Append(Append(Path(d), "/"), "pqsql")
           /\ RecorderMovDir(d) = Append(Append(Path(d), "/"), "mov")
           /\ FetchMovDir(d) = Append(Append(Path(d), "/"), "mov")
<1>1. "pqsql" \in NameSymbols /\ "mov" \in NameSymbols
  BY DEF NameSymbols, Symbols
<1>2. PathOf(AbsoluteString(d)) = Append(Path(d), "/")
  BY PathOfIs
<1>3. Resolve(Append(Path(d), "/") \o <<"/", "pqsql">>) = Append(Append(Path(d), "/"), "pqsql")
  BY <1>1, ResolveIs, Zenon
<1>4. Resolve(Append(Path(d), "/") \o <<"mov">>) = Append(Append(Path(d), "/"), "mov")
  BY <1>1, ResolveIs, Zenon
<1>5. Resolve(Append(Path(d), "/") \o <<"/", "mov">>) = Append(Append(Path(d), "/"), "mov")
  BY <1>1, ResolveIs, Zenon
<1> QED
  BY <1>2, <1>3, <1>4, <1>5, Zenon DEF PostgresDataDir, RecorderMovDir, FetchMovDir

\* An escaped percent sign is no digit after another name.
LEMMA NoDigitForPercent ==
    ASSUME NEW v \in Text, NEW w \in Text, NotOpen(w)
    PROVE  v \o <<"%", "2", "5">> # w \o <<"5">>
<1> DEFINE t == <<"%", "2", "5">>
           u == <<"5">>
<1> SUFFICES ASSUME v \o t = w \o u PROVE FALSE
  OBVIOUS
<1>1. t \in Text /\ u \in Text
  BY DEF Text, Symbols
<1>2. Len(t) = 3 /\ t[1] = "%" /\ t[2] = "2" /\ Len(u) = 1
  OBVIOUS
<1> HIDE DEF t, u
<1>3. Len(v) \in Nat /\ Len(w) \in Nat /\ Len(w) = Len(v) + 2
  <2>1. Len(v \o t) = Len(v) + Len(t) /\ Len(w \o u) = Len(w) + Len(u)
    BY <1>1, ConcatProperties DEF Text
  <2>2. Len(v) \in Nat /\ Len(w) \in Nat
    BY LenProperties DEF Text
  <2> QED
    BY <1>2, <2>1, <2>2
<1>4. \A i \in 1 .. Len(v) + 3 : (v \o t)[i] = IF i <= Len(v) THEN v[i] ELSE t[i - Len(v)]
  <2>1. \A i \in 1 .. Len(v) + Len(t) :
          (v \o t)[i] = IF i <= Len(v) THEN v[i] ELSE t[i - Len(v)]
    BY <1>1, ConcatProperties DEF Text
  <2> QED
    BY <1>2, <2>1
<1>5. \A i \in 1 .. Len(w) + 1 : (w \o u)[i] = IF i <= Len(w) THEN w[i] ELSE u[i - Len(w)]
  <2>1. \A i \in 1 .. Len(w) + Len(u) :
          (w \o u)[i] = IF i <= Len(w) THEN w[i] ELSE u[i - Len(w)]
    BY <1>1, ConcatProperties DEF Text
  <2> QED
    BY <1>2, <2>1
<1> DEFINE c == v \o t
<1>6. c = w \o u
  OBVIOUS
<1> HIDE DEF c
<1>7. c[Len(v) + 1] = "%" /\ c[Len(v) + 2] = "2"
  BY <1>2, <1>3, <1>4 DEF c
<1>8. c[Len(w) - 1] = w[Len(w) - 1] /\ c[Len(w)] = w[Len(w)]
  BY <1>3, <1>5, <1>6
<1>9. Len(w) - 1 = Len(v) + 1 /\ Len(w) > 1
  BY <1>3
<1> QED
  BY <1>3, <1>7, <1>8, <1>9 DEF NotOpen

\* No two names have the same path.
LEMMA PathInjective ==
    ASSUME NEW d \in Seq(Chars), NEW e \in Seq(Chars), Path(d) = Path(e)
    PROVE  d = e
<1> DEFINE G == {x \in Seq(Chars) : \A y \in Seq(Chars) : Path(x) = Path(y) => x = y}
<1>1. ASSUME NEW y \in Seq(Chars), Path(y) = <<"/">> PROVE y = << >>
  <2> SUFFICES ASSUME y # << >> PROVE FALSE
    OBVIOUS
  <2>1. Path(y)[Len(Path(y))] # "/"
    BY PathEnd
  <2>2. <<"/">>[Len(<<"/">>)] = "/"
    OBVIOUS
  <2> QED
    BY <1>1, <2>1, <2>2
<1>2. << >> \in G
  <2>1. << >> \in Seq(Chars)
    BY EmptySeq
  <2> QED
    BY <1>1, <2>1, PathEmpty
<1>3. ASSUME NEW x \in Seq(Chars), NEW c \in Chars, x \in G PROVE Append(x, c) \in G
  <2>1. Append(x, c) \in Seq(Chars) /\ Append(x, c) # << >>
    BY AppendProperties
  <2> SUFFICES ASSUME NEW z \in Seq(Chars), Path(Append(x, c)) = Path(z)
               PROVE  Append(x, c) = z
    BY <2>1
  <2>2. z # << >>
    BY <1>1, <2>1, PathEmpty
  <2>3. PICK y \in Seq(Chars), b \in Chars : z = Append(y, b)
    BY <2>2, SequenceEmptyOrAppend
  <2> DEFINE v == Path(x)
             w == Path(y)
             t == Decoded[c]
             u == Decoded[b]
  <2>4. v \o t = w \o u /\ v \in Text /\ w \in Text /\ t \in Text /\ u \in Text
    BY <2>3, PathAppend
  <2>5. NotOpen(v) /\ NotOpen(w)
    BY PathNotOpen
  <2>6. t[Len(t)] = u[Len(u)]
    <3>1. Len(t) # 0 /\ Len(u) # 0
      BY DecodedEnd
    <3> HIDE DEF v, w, t, u
    <3>2. (v \o t)[Len(v \o t)] = t[Len(t)] /\ (w \o u)[Len(w \o u)] = u[Len(u)]
      BY <2>4, <3>1, ConcatEnd
    <3> QED
      BY <2>4, <3>2
  <2>7. /\ c = "%" => t[Len(t)] = "5"
        /\ c = "u:" => t[Len(t)] = "8"
        /\ c \notin {"%", "u:"} => t = <<c>> /\ t[Len(t)] = c
        /\ b = "%" => u[Len(u)] = "5"
        /\ b = "u:" => u[Len(u)] = "8"
        /\ b \notin {"%", "u:"} => u = <<b>> /\ u[Len(u)] = b
    BY DecodedEnd
  <2>8. c # "8" /\ b # "8"
    BY CharsAssumption
  <2>9. (c = "%" => t = <<"%", "2", "5">>) /\ (b = "%" => u = <<"%", "2", "5">>)
    BY EscapeOf
  <2>10. b = c
    <3> SUFFICES ASSUME b # c PROVE FALSE
      OBVIOUS
    <3> HIDE DEF v, w, t, u
    <3>1. \/ c = "%" /\ b = "5" /\ u = <<"5">>
          \/ c = "5" /\ b = "%" /\ t = <<"5">>
      BY <2>6, <2>7, <2>8
    <3>2. CASE c = "%" /\ b = "5" /\ u = <<"5">>
      <4>1. v \o <<"%", "2", "5">> = w \o <<"5">>
        BY <2>4, <2>9, <3>2, Zenon
      <4> QED
        BY <2>4, <2>5, <4>1, NoDigitForPercent, Zenon
    <3>3. CASE c = "5" /\ b = "%" /\ t = <<"5">>
      <4>1. w \o <<"%", "2", "5">> = v \o <<"5">>
        BY <2>4, <2>9, <3>3, Zenon
      <4> QED
        BY <2>4, <2>5, <4>1, NoDigitForPercent, Zenon
    <3> QED
      BY <3>1, <3>2, <3>3, Zenon
  <2>11. v = w
    <3>1. u = t
      BY <2>10
    <3> HIDE DEF v, w, t, u
    <3> QED
      BY <2>4, <3>1, ConcatCancel DEF Text
  <2>12. x = y
    BY <1>3, <2>11
  <2> QED
    BY <2>3, <2>10, <2>12
<1> HIDE DEF G
<1>4. \A x \in Seq(Chars), c \in Chars : x \in G => Append(x, c) \in G
  BY <1>3
<1>5. d \in G
  BY <1>2, <1>4, ByAppend
<1> QED
  BY <1>5 DEF G

\* Two directories have different clusters.
LEMMA PostgresDataDirInjective ==
    ASSUME NEW d \in Seq(Chars), d # << >>, NEW e \in Seq(Chars), e # << >>,
           PostgresDataDir(d) = PostgresDataDir(e)
    PROVE  d = e
<1> DEFINE p == Append(Path(d), "/")
           q == Append(Path(e), "/")
<1>1. Append(p, "pqsql") = Append(q, "pqsql")
  BY PathsAre
<1>2. "/" \in Symbols /\ "pqsql" \in Symbols
  BY DEF Symbols
<1>3. Path(d) \in Text /\ Path(e) \in Text
  BY PathEnd
<1>4. p \in Text /\ q \in Text
  BY <1>2, <1>3, AppendProperties DEF Text
<1>5. p = q
  <2> HIDE DEF p, q
  <2> QED
    BY <1>1, <1>2, <1>4, AppendInjective DEF Text
<1>6. Path(d) = Path(e)
  BY <1>2, <1>3, <1>5, AppendInjective DEF Text
<1> QED
  BY <1>6, PathInjective

\* The path of a name of plain characters and spaces is that name.
LEMMA PlainPath ==
    ASSUME NEW d \in Seq(Chars \ {"%", "u:"})
    PROVE  Path(d) = <<"/">> \o d
<1> DEFINE S == Chars \ {"%", "u:"}
           G == {x \in Seq(S) : Joined(x, Decoded) = x}
<1>1. << >> \in G
  BY JoinedEmpty, EmptySeq
<1>2. ASSUME NEW x \in Seq(S), NEW c \in S, x \in G PROVE Append(x, c) \in G
  <2>1. c \in Chars /\ c \notin {"%", "u:"} /\ Append(x, c) \in Seq(S)
    OBVIOUS
  <2>2. Decoded[c] = <<c>>
    BY <2>1, DecodedEnd, Zenon
  <2>3. Joined(Append(x, c), Decoded) = Joined(x, Decoded) \o Decoded[c]
    <3> HIDE DEF S, G
    <3> QED
      BY JoinedAppend, Zenon
  <2>4. Append(x, c) = x \o <<c>>
    BY AppendIsConcat
  <2>5. Joined(x, Decoded) = x
    BY <1>2
  <2> QED
    BY <2>1, <2>2, <2>3, <2>4, <2>5, Zenon
<1> HIDE DEF G
<1>3. \A x \in Seq(S), c \in S : x \in G => Append(x, c) \in G
  BY <1>2
<1>4. d \in G
  <2> HIDE DEF S
  <2>1. d \in Seq(S)
    BY DEF S
  <2> QED
    BY <1>1, <1>3, <2>1, ByAppend
<1> QED
  BY <1>4 DEF G, Path

LEMMA NamesAreSequences ==
    ASSUME NEW d \in Names
    PROVE  d \in Seq(Chars) /\ d # << >>
<1>1. PICK n \in 1 .. MaxLength : d \in [1 .. n -> Chars]
  BY DEF Names
<1>2. n \in Nat /\ n # 0
  BY <1>1, BoundAssumption
<1>3. d \in Seq(Chars) /\ Len(d) = n
  BY <1>1, <1>2
<1> QED
  BY <1>2, <1>3, EmptySeq

-----------------------------------------------------------------------------
(* The data directory and its cluster.                                     *)

\* A cluster is where its directory's path leads, and a session uses that of
\* its directory.
PathInv ==
    /\ PathTypeOK
    /\ \A p \in DOMAIN made : p = PostgresDataDir(made[p])
    /\ used # <<>> => dir # <<>> /\ used = PostgresDataDir(dir)

LEMMA PathInvInit == PathInit => PathInv
BY DEF PathInit, PathInv, PathTypeOK

LEMMA PathInvStep == PathInv /\ [PathNext]_pathVars => PathInv'
<1> SUFFICES ASSUME PathInv, [PathNext]_pathVars PROVE PathInv'
  OBVIOUS
<1>1. CASE UNCHANGED pathVars
  BY <1>1 DEF pathVars, PathInv, PathTypeOK
<1>2. CASE PathUpdated
  BY <1>2 DEF PathUpdated, PathInv, PathTypeOK
<1>3. CASE Start
  <2>1. dir \in Names /\ dir # <<>> /\ dir' = dir /\ used' = PostgresDataDir(dir)
    BY <1>3 DEF Start, PathInv, PathTypeOK
  <2>2. CASE used' \in DOMAIN made /\ UNCHANGED made
    BY <2>1, <2>2 DEF PathInv, PathTypeOK
  <2>3. CASE made' = [p \in DOMAIN made \cup {used'} |-> IF p = used' THEN dir ELSE made[p]]
    <3>1. /\ DOMAIN made' = DOMAIN made \cup {used'} /\ made'[used'] = dir
          /\ \A p \in DOMAIN made' : p # used' => p \in DOMAIN made /\ made'[p] = made[p]
      BY <2>3
    <3>2. \A p \in DOMAIN made' : made'[p] \in Names /\ p = PostgresDataDir(made'[p])
      BY <2>1, <3>1 DEF PathInv, PathTypeOK
    <3> QED
      BY <2>1, <3>1, <3>2 DEF PathInv, PathTypeOK
  <2> QED
    BY <1>3, <2>2, <2>3 DEF Start
<1> QED
  BY <1>1, <1>2, <1>3 DEF PathNext

LEMMA PathInvAlways == PathSpec => []PathInv
<1>1. PathInit => PathInv
  BY PathInvInit
<1>2. PathInv /\ [PathNext]_pathVars => PathInv'
  BY PathInvStep
<1> QED
  BY <1>1, <1>2, PTL DEF PathSpec

LEMMA PathInvOwnCluster == PathInv => OwnCluster
<1> SUFFICES ASSUME PathInv, used # <<>> PROVE made[used] = dir
  BY DEF OwnCluster
<1>1. /\ used \in DOMAIN made /\ used = PostgresDataDir(made[used])
      /\ used = PostgresDataDir(dir) /\ made[used] \in Names /\ dir \in Names
  BY DEF PathInv, PathTypeOK
<1>2. /\ made[used] \in Seq(Chars) /\ made[used] # << >>
      /\ dir \in Seq(Chars) /\ dir # << >>
  BY <1>1, NamesAreSequences
<1> QED
  BY <1>1, <1>2, PostgresDataDirInjective

LEMMA PathInvPlain == PathInv => PlainInSelectedDir
<1> DEFINE in(name) == <<"/">> \o dir \o <<"/", name>>
<1> SUFFICES ASSUME PathInv, dir # <<>>, \A i \in DOMAIN dir : dir[i] \notin {"%", "u:"}
             PROVE  /\ used \in {<<>>, in("pqsql")}
                    /\ RecorderMovDir(dir) = in("mov") /\ FetchMovDir(dir) = in("mov")
  BY DEF PlainInSelectedDir
<1>1. dir \in Names /\ (used # <<>> => used = PostgresDataDir(dir))
  BY DEF PathInv, PathTypeOK
<1>2. dir \in Seq(Chars)
  BY <1>1, NamesAreSequences
<1>3. dir \in Seq(Chars \ {"%", "u:"})
  <2>1. Len(dir) \in Nat /\ DOMAIN dir = 1 .. Len(dir)
    BY <1>2, LenProperties
  <2>2. \A i \in 1 .. Len(dir) : dir[i] \in Chars \ {"%", "u:"}
    BY <1>2, <2>1, ElementOfSeq
  <2>3. dir \in [1 .. Len(dir) -> Chars \ {"%", "u:"}]
    BY <1>2, <2>1, <2>2, LenProperties
  <2> QED
    BY <2>1, <2>3
<1>4. Path(dir) = <<"/">> \o dir /\ Path(dir) \in Text
  BY <1>2, <1>3, PlainPath, PathEnd
<1>5. "/" \in Symbols /\ "pqsql" \in Symbols /\ "mov" \in Symbols
  BY DEF Symbols
<1>6. ASSUME NEW name \in Symbols PROVE in(name) = Append(Append(Path(dir), "/"), name)
  <2>1. Path(dir) \o <<"/", name>> = Append(Append(Path(dir), "/"), name)
    BY <1>4, <1>5, AppendTwo
  <2> QED
    BY <1>4, <2>1, Zenon
<1>7. /\ PostgresDataDir(dir) = in("pqsql")
      /\ RecorderMovDir(dir) = in("mov") /\ FetchMovDir(dir) = in("mov")
  <2> HIDE DEF in
  <2> QED
    BY <1>2, <1>5, <1>6, PathsAre
<1> HIDE DEF in
<1> QED
  BY <1>1, <1>7

(***************************************************************************)
(* Directories, clusters and what a session uses are names and paths.      *)
(***************************************************************************)
THEOREM PathTypeCorrect == PathSpec => []PathTypeOK
<1>1. PathInv => PathTypeOK
  BY DEF PathInv
<1> QED
  BY <1>1, PathInvAlways, PTL

(***************************************************************************)
(* Two data directories never share a cluster, for names of every length:  *)
(* the conversion of pathUpdated's URL in start is one-to-one, although it *)
(* decodes only the spaces.                                                *)
(***************************************************************************)
THEOREM OwnClusterAlways == PathSpec => []OwnCluster
BY PathInvOwnCluster, PathInvAlways, PTL

(***************************************************************************)
(* For names of plain characters and spaces, of every length, start,       *)
(* startRecorder and fetch all work in the selected directory.             *)
(***************************************************************************)
THEOREM PlainInSelectedDirAlways == PathSpec => []PlainInSelectedDir
BY PathInvPlain, PathInvAlways, PTL

-----------------------------------------------------------------------------
(* runCommand.                                                             *)

USE PipeAssumption, OutputAssumption

\* Every chunk is still to be written, in the pipe or read; a shell that has
\* exited has written all; past the end of file the pipe is empty.
IndInv ==
    /\ TypeOK
    /\ written = pipe + output
    /\ written + unwritten <= MaxOutput
    /\ shell = "exited" => unwritten = 0
    /\ pc # "idle" => shell # "none"
    /\ pc \in {"waiting", "result", "raised"} /\ Piped =>
          pipe = 0 /\ shell # "running"
    /\ pc \in {"result", "raised"} => shell = "exited"

LEMMA IndInvInit == Init => IndInv
BY DEF Init, IndInv, TypeOK, Piped

LEMMA IndInvStep == IndInv /\ [Next]_vars => IndInv'
<1> SUFFICES ASSUME IndInv, [Next]_vars PROVE IndInv'
  OBVIOUS
<1> USE DEF IndInv, TypeOK, Piped
<1>1. CASE UNCHANGED vars
  BY <1>1 DEF vars
<1>2. ASSUME NEW m \in Methods, Launch(m) PROVE IndInv'
  <2>1. TypeOK'
    BY <1>2 DEF Launch, Methods
  <2> HIDE DEF IndInv, TypeOK
  <2>2. written' = 0 /\ pipe' = 0 /\ output' = 0 /\ unwritten' \in 0 .. MaxOutput
    BY <1>2 DEF Launch
  <2>3. shell' = "running" /\ (Piped' => pc' = "reading")
        /\ pc' \in {"reading", "waiting"}
    BY <1>2 DEF Launch
  <2>4. written' = pipe' + output' /\ written' + unwritten' <= MaxOutput
    <3>1. \A w, u \in 0 .. MaxOutput : w = 0 => w + u <= MaxOutput
      OBVIOUS
    <3>2. written' = pipe' + output'
      BY <2>2
    <3> QED
      BY <2>1, <2>2, <3>1, <3>2, Zenon DEF TypeOK
  <2> QED
    BY <2>1, <2>2, <2>3, <2>4 DEF IndInv
<1>3. CASE Read
  BY <1>3 DEF Read
<1>4. CASE EndOfFile
  BY <1>4 DEF EndOfFile, WriteEndOpen
<1>5. CASE Exited
  BY <1>5 DEF Exited
<1>6. CASE Write
  BY <1>6 DEF Write
<1>7. CASE Fork
  BY <1>7 DEF Fork
<1>8. CASE ShellExits
  BY <1>8 DEF ShellExits
<1>9. CASE DaemonExits
  BY <1>9 DEF DaemonExits
<1> QED
  BY <1>1, <1>2, <1>3, <1>4, <1>5, <1>6, <1>7, <1>8, <1>9 DEF Next, MainThread

\* The chunks of the command's output are accounted for in every state.
THEOREM Accounting == Spec => []IndInv
BY IndInvInit, IndInvStep, PTL DEF Spec

\* Neither the pipe nor the output outgrows its bound, and pc and the states of
\* the processes stay in their sets, whatever the sizes are.
THEOREM RunCommandTypeOK == Spec => []TypeOK
<1>1. IndInv => TypeOK
  BY DEF IndInv
<1> QED
  BY <1>1, Accounting, PTL

\* runCommand's result is the whole output of the command.
THEOREM OutputCompleteAlways == Spec => []OutputComplete
<1>1. IndInv => OutputComplete
  BY DEF IndInv, TypeOK, OutputComplete
<1> QED
  BY <1>1, Accounting, PTL

-----------------------------------------------------------------------------
(* Why a call returns.                                                     *)

Calling == pc \in {"reading", "waiting"}

\* The main thread or the shell can go on, or the pipe is drained and only a
\* background process of the command keeps it open.
NobodyStuck ==
    Calling =>
        \/ pc = "reading" /\ (pipe > 0 \/ ~WriteEndOpen)
        \/ pc = "waiting" /\ shell = "exited"
        \/ shell = "running" /\ (unwritten = 0 \/ (Piped => pipe < PipeSize))
        \/ Piped /\ daemon = "running" /\ shell = "exited" /\ pipe = 0

\* A chunk is written and then read; the shell exits, the pipe is at its end,
\* and the result is put together.
CallSteps ==
    2 * unwritten + pipe + 1 + (IF shell = "running" THEN 1 ELSE 0)
                             + (IF pc = "reading" THEN 1 ELSE 0)

WorkLeft == IF Calling THEN CallSteps ELSE 0

WorkBounded == Calling => WorkLeft \in 1 .. 2 * MaxOutput + PipeSize + 3

WorkShrinks ==
    [][Calling => \/ WorkLeft' < WorkLeft
                  \/ UNCHANGED <<method, pc, shell, unwritten, pipe, output, written>>]_vars

LEMMA IndInvNobodyStuck == IndInv => NobodyStuck
<1> SUFFICES ASSUME IndInv, Calling PROVE NobodyStuck
  BY DEF NobodyStuck
<1>1. shell \in {"running", "exited"}
  BY DEF IndInv, TypeOK, Calling
<1>2. pipe \in Nat /\ unwritten \in Nat /\ PipeSize \in Nat \ {0}
  BY DEF IndInv, TypeOK
<1>3. CASE pc = "reading"
  BY <1>1, <1>2, <1>3 DEF NobodyStuck, WriteEndOpen
<1>4. CASE pc = "waiting"
  BY <1>1, <1>2, <1>4 DEF NobodyStuck, IndInv
<1> QED
  BY <1>3, <1>4 DEF Calling

LEMMA IndInvWorkBounded == IndInv => WorkBounded
<1> SUFFICES ASSUME IndInv, Calling PROVE WorkLeft \in 1 .. 2 * MaxOutput + PipeSize + 3
  BY DEF WorkBounded
<1>1. unwritten \in 0 .. MaxOutput /\ pipe \in 0 .. PipeSize
  BY DEF IndInv, TypeOK
<1> QED
  BY <1>1 DEF WorkLeft, CallSteps

LEMMA WorkStep ==
    ASSUME IndInv, Next, Calling
    PROVE  \/ WorkLeft' < WorkLeft
           \/ UNCHANGED <<method, pc, shell, unwritten, pipe, output, written>>
<1>1. /\ unwritten \in Nat /\ pipe \in Nat /\ pc \in {"reading", "waiting"}
      /\ WorkLeft = CallSteps
  BY DEF IndInv, TypeOK, Calling, WorkLeft
<1>2. WorkLeft' = IF pc' \in {"reading", "waiting"} THEN CallSteps' ELSE 0
  BY DEF WorkLeft, Calling
<1>3. CASE Read
  BY <1>1, <1>2, <1>3 DEF Read, CallSteps
<1>4. CASE EndOfFile
  BY <1>1, <1>2, <1>4 DEF EndOfFile, CallSteps
<1>5. CASE Exited
  <2>1. pc' \in {"raised", "result"}
    BY <1>5 DEF Exited
  <2> QED
    BY <1>1, <1>2, <2>1 DEF CallSteps
<1>6. CASE Write
  <2>1. /\ unwritten' = unwritten - 1 /\ unwritten > 0 /\ pipe' \in {pipe, pipe + 1}
        /\ pc' = pc /\ shell' = shell
    BY <1>6 DEF Write
  <2>2. ASSUME NEW u \in Nat, NEW p \in Nat, NEW q, u > 0, q = p \/ q = p + 1, NEW n \in Nat
        PROVE  2 * (u - 1) + q + n < 2 * u + p + n
    <3>1. 2 * (u - 1) = 2 * u - 2 /\ 2 * u \in Nat
      BY <2>2
    <3> QED
      BY <2>2, <3>1
  <2> DEFINE n == 1 + (IF shell = "running" THEN 1 ELSE 0) + (IF pc = "reading" THEN 1 ELSE 0)
  <2>3. n \in Nat /\ CallSteps = 2 * unwritten + pipe + n
    BY <1>1 DEF CallSteps
  <2>4. CallSteps' = 2 * (unwritten - 1) + pipe' + n
    BY <1>1, <2>1 DEF CallSteps
  <2> HIDE DEF n
  <2>5. CallSteps' < CallSteps
    BY <1>1, <2>1, <2>2, <2>3, <2>4
  <2> QED
    BY <1>1, <1>2, <2>1, <2>5
<1>7. CASE ShellExits
  BY <1>1, <1>2, <1>7 DEF ShellExits, CallSteps
<1>8. CASE Fork \/ DaemonExits
  BY <1>8 DEF Fork, DaemonExits
<1>9. ASSUME NEW m \in Methods, Launch(m) PROVE FALSE
  BY <1>1, <1>9 DEF Launch
<1> QED
  BY <1>3, <1>4, <1>5, <1>6, <1>7, <1>8, <1>9 DEF Next, MainThread

(***************************************************************************)
(* What CommandReturns rests on, for every size of pipe and output.  While *)
(* a method of Helper runs, the application and the shell never wait for   *)
(* each other: one of them can go on, unless all output is read and a      *)
(* background process holds the pipe.  And each of their steps leaves less *)
(* to do, so that after at most 2 * MaxOutput + PipeSize + 3 of them the   *)
(* call is over; what background processes do adds nothing.                *)
(***************************************************************************)
THEOREM CallsCannotGetStuck == Spec => []NobodyStuck /\ []WorkBounded /\ WorkShrinks
<1>1. IndInv => NobodyStuck /\ WorkBounded
  BY IndInvNobodyStuck, IndInvWorkBounded
<1>2. IndInv /\ [Next]_vars =>
        [Calling => \/ WorkLeft' < WorkLeft
                    \/ UNCHANGED <<method, pc, shell, unwritten, pipe, output, written>>]_vars
  BY WorkStep
<1> QED
  BY <1>1, <1>2, Accounting, PTL DEF Spec, WorkShrinks
=============================================================================
