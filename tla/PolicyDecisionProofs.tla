------------------------ MODULE PolicyDecisionProofs ------------------------
(***************************************************************************)
(* Proofs about hosts and decisions: for texts of any length over the      *)
(* characters of HostName, any rules, any number of them, any limits.      *)
(***************************************************************************)
EXTENDS PolicyDecision, FunctionTheorems, FiniteSetTheorems, TLAPS

-----------------------------------------------------------------------------
(***************************************************************************)
(* Numbers: the least and the greatest of some.                            *)
(***************************************************************************)

(* Numbers up to a bound have a least one: otherwise one less is an        *)
(* injection of the numbers above some of them into themselves, and misses *)
(* the bound.                                                              *)
LEMMA LeastUpTo ==
  ASSUME NEW n \in Nat, NEW S \in SUBSET (0 .. n), S # {}
  PROVE  \E m \in S : \A k \in S : m <= k
<1> SUFFICES ASSUME \A m \in S : \E k \in S : ~(m <= k) PROVE FALSE  OBVIOUS
<1> DEFINE T == {j \in 0 .. n : \E k \in S : k <= j}
           f == [j \in T |-> j - 1]
<1>1. ASSUME NEW j \in T PROVE j - 1 \in T
  <2>1. PICK k \in S : k <= j  OBVIOUS
  <2>2. PICK i \in S : ~(k <= i)  OBVIOUS
  <2>3. i \in 0 .. n /\ k \in 0 .. n /\ j \in 0 .. n  OBVIOUS
  <2>4. i <= j - 1 /\ j - 1 \in 0 .. n  BY <2>1, <2>2, <2>3
  <2> QED  BY <2>4
<1>2. f \in [T -> T]  BY <1>1
<1>3. \A i, j \in T : f[i] = f[j] => i = j
  <2>1. \A i \in T : i \in Int  OBVIOUS
  <2> QED  BY <2>1
<1>4. f \in Injection(T, T)  BY <1>2, <1>3 DEF Injection, IsInjective
<1>5. IsFiniteSet(0 .. n) /\ T \in SUBSET (0 .. n)  BY FS_Interval
<1>6. IsFiniteSet(T)  BY <1>5, FS_Subset
<1>7. f \in Surjection(T, T)  BY <1>4, <1>6, FS_Injection
<1>8. n \in T
  <2>1. PICK k \in S : TRUE  OBVIOUS
  <2>2. k \in 0 .. n  OBVIOUS
  <2> QED  BY <2>2
<1>9. PICK j \in T : f[j] = n  BY <1>7, <1>8 DEF Surjection
<1>10. j \in 0 .. n /\ j - 1 = n  BY <1>9
<1> QED  BY <1>10

LEMMA GreatestUpTo ==
  ASSUME NEW n \in Nat, NEW S \in SUBSET (0 .. n), S # {}
  PROVE  \E m \in S : \A k \in S : m >= k
<1> DEFINE U == {j \in 0 .. n : \A k \in S : k <= j}
<1>1. n \in U  OBVIOUS
<1>2. U \in SUBSET (0 .. n) /\ U # {}  BY <1>1
<1> HIDE DEF U
<1>3. PICK m \in U : \A k \in U : m <= k  BY <1>2, LeastUpTo
<1>4. m \in 0 .. n /\ \A k \in S : k <= m  BY DEF U
<1>5. m \in S
  <2> SUFFICES ASSUME m \notin S PROVE FALSE  OBVIOUS
  <2>1. PICK s \in S : TRUE  OBVIOUS
  <2>2. s \in 0 .. n /\ s <= m /\ s # m  BY <1>4
  <2>3. m - 1 \in 0 .. n  BY <1>4, <2>2
  <2>4. \A k \in S : k \in 0 .. n /\ k <= m /\ k # m  BY <1>4
  <2>5. \A k \in S : k <= m - 1  BY <1>4, <2>4
  <2>6. m - 1 \in U  BY <2>3, <2>5 DEF U
  <2> QED  BY <1>3, <1>4, <2>6
<1> QED  BY <1>4, <1>5

-----------------------------------------------------------------------------
(***************************************************************************)
(* Characters and texts.                                                   *)
(***************************************************************************)

Mark == {"A", "B", "G", "a", "b", "g", "0", "1", "2", "3", "4", "5", "6", "7", "8", "9",
         "-", "+"}

(* The characters, one by one.                                             *)
LEMMA Characters ==
  /\ Upper = {"A", "B", "G"} /\ Letter = {"a", "b", "g"}
  /\ \A c \in Upper : LowerOf[c] \in Letter
  /\ Digit = {"0", "1", "2", "3", "4", "5", "6", "7", "8", "9"}
<1>1. Upper = {"A", "B", "G"}  BY DEF Upper, LowerOf
<1>2. LowerOf["A"] = "a" /\ LowerOf["B"] = "b" /\ LowerOf["G"] = "g"  BY DEF LowerOf
<1>3. Letter = {"a", "b", "g"}  BY <1>1, <1>2 DEF Letter
<1>4. DOMAIN DigitAt = 1 .. 10  BY DEF DigitAt
<1>5. Digit = {"0", "1", "2", "3", "4", "5", "6", "7", "8", "9"}
  <2>1. DigitAt[1] = "0" /\ DigitAt[2] = "1" /\ DigitAt[3] = "2" /\ DigitAt[4] = "3" /\ DigitAt[5] = "4"
        /\ DigitAt[6] = "5" /\ DigitAt[7] = "6" /\ DigitAt[8] = "7" /\ DigitAt[9] = "8" /\ DigitAt[10] = "9"
    BY DEF DigitAt
  <2> QED  BY <1>4, <2>1 DEF Digit
<1> QED  BY <1>1, <1>2, <1>3, <1>5

(* What characters there are.                                              *)
LEMMA CharactersOf ==
  /\ Character = Ascii \cup {"?"}
  /\ Ascii = Mark \cup {"_", "*", ".", ":", "[", "]", " "}
  /\ HexDigit = {"0", "1", "2", "3", "4", "5", "6", "7", "8", "9", "a", "b", "f"}
BY Characters DEF Character, Ascii, Mark, Sign, HexDigit

-----------------------------------------------------------------------------
(***************************************************************************)
(* Sequences over any set.                                                 *)
(***************************************************************************)

(* Texts and their parts: the provers know sequences by length and         *)
(* places.                                                                 *)
LEMMA SeqOf ==
  ASSUME NEW S, NEW n \in Nat, NEW f \in [1 .. n -> S]
  PROVE  f \in Seq(S) /\ Len(f) = n
OBVIOUS

LEMMA PartIs ==
  ASSUME NEW S, NEW t \in Seq(S), NEW f \in 1 .. Len(t), NEW l \in 1 .. Len(t), f <= l
  PROVE  /\ SubSeq(t, f, l) \in Seq(S) /\ Len(SubSeq(t, f, l)) = l - f + 1
         /\ \A i \in 1 .. l - f + 1 : f + i - 1 \in 1 .. Len(t) /\ SubSeq(t, f, l)[i] = t[f + i - 1]
OBVIOUS

LEMMA SameText ==
  ASSUME NEW S, NEW s \in Seq(S), NEW t \in Seq(S), Len(s) = Len(t),
         \A i \in 1 .. Len(s) : s[i] = t[i]
  PROVE  s = t
OBVIOUS

LEMMA Before ==
  ASSUME NEW S, NEW c \in S, NEW t \in Seq(S)
  PROVE  /\ <<c>> \o t \in Seq(S) /\ Len(<<c>> \o t) = Len(t) + 1
         /\ (<<c>> \o t)[1] = c /\ \A i \in 1 .. Len(t) : (<<c>> \o t)[i + 1] = t[i]
OBVIOUS

LEMMA After ==
  ASSUME NEW S, NEW c \in S, NEW t \in Seq(S)
  PROVE  /\ t \o <<c>> \in Seq(S) /\ Len(t \o <<c>>) = Len(t) + 1
         /\ (t \o <<c>>)[Len(t) + 1] = c /\ \A i \in 1 .. Len(t) : (t \o <<c>>)[i] = t[i]
OBVIOUS

LEMMA Around ==
  ASSUME NEW S, NEW c \in S, NEW d \in S, NEW t \in Seq(S)
  PROVE  /\ <<c>> \o t \o <<d>> \in Seq(S) /\ Len(<<c>> \o t \o <<d>>) = Len(t) + 2
         /\ (<<c>> \o t \o <<d>>)[1] = c /\ (<<c>> \o t \o <<d>>)[Len(t) + 2] = d
         /\ \A i \in 1 .. Len(t) : (<<c>> \o t \o <<d>>)[i + 1] = t[i]
<1> DEFINE u == <<c>> \o t
<1>1. u \in Seq(S) /\ Len(u) = Len(t) + 1 /\ u[1] = c /\ \A i \in 1 .. Len(t) : u[i + 1] = t[i]
  BY Before
<1> HIDE DEF u
<1>2. u \o <<d>> \in Seq(S) /\ Len(u \o <<d>>) = Len(u) + 1 /\ (u \o <<d>>)[Len(u) + 1] = d
      /\ \A i \in 1 .. Len(u) : (u \o <<d>>)[i] = u[i]
  BY <1>1, After
<1>3. Len(t) \in Nat  OBVIOUS
<1>4. \A i \in 1 .. Len(t) : i + 1 \in 1 .. Len(u)  BY <1>1, <1>3
<1>5. 1 \in 1 .. Len(u)  BY <1>1, <1>3
<1>6. Len(u) + 1 = Len(t) + 2  BY <1>1, <1>3
<1> QED  BY <1>1, <1>2, <1>4, <1>5, <1>6 DEF u

-----------------------------------------------------------------------------
(* Lowering works place by place and touches no separator.                 *)
LEMMA LoweredIs ==
  ASSUME NEW t \in Seq(Character)
  PROVE  /\ Lowered(t) \in Seq(Character) /\ Len(Lowered(t)) = Len(t)
         /\ \A i \in 1 .. Len(t) :
              /\ Lowered(t)[i] = (IF t[i] \in Upper THEN LowerOf[t[i]] ELSE t[i])
              /\ Lowered(t)[i] \in Character /\ Lowered(t)[i] \notin Upper
              /\ t[i] \in Ascii => Lowered(t)[i] \in Ascii
              /\ \A c \in {" ", "[", "]", ":", "."} : Lowered(t)[i] = c <=> t[i] = c
<1>1. \A i \in 1 .. Len(t) : t[i] \in Character  OBVIOUS
<1>2. \A c \in Character :
        /\ (IF c \in Upper THEN LowerOf[c] ELSE c) \in Character \ Upper
        /\ c \in Ascii => (IF c \in Upper THEN LowerOf[c] ELSE c) \in Ascii
        /\ \A d \in {" ", "[", "]", ":", "."} : (IF c \in Upper THEN LowerOf[c] ELSE c) = d <=> c = d
  <2>1. \A c \in Upper : LowerOf[c] \in {"a", "b", "g"}  BY Characters
  <2> QED  BY <2>1, Characters, CharactersOf DEF Mark
<1>3. Lowered(t) = [i \in 1 .. Len(t) |-> IF t[i] \in Upper THEN LowerOf[t[i]] ELSE t[i]]
  BY DEF Lowered
<1>4. Len(t) \in Nat  OBVIOUS
<1>5. Lowered(t) \in [1 .. Len(t) -> Character]  BY <1>1, <1>2, <1>3
<1>6. Lowered(t) \in Seq(Character) /\ Len(Lowered(t)) = Len(t)  BY <1>4, <1>5, SeqOf
<1> QED  BY <1>1, <1>2, <1>3, <1>5, <1>6

(* A text without capitals is lower case already.                          *)
LEMMA LoweredLow ==
  ASSUME NEW t \in Seq(Character), \A i \in 1 .. Len(t) : t[i] \notin Upper
  PROVE  Lowered(t) = t
<1>1. Lowered(t) \in Seq(Character) /\ Len(Lowered(t)) = Len(t)
      /\ \A i \in 1 .. Len(t) : Lowered(t)[i] = t[i]
  BY LoweredIs
<1> QED  BY <1>1

LEMMA LoweredTwice ==
  ASSUME NEW t \in Seq(Character)
  PROVE  Lowered(Lowered(t)) = Lowered(t)
<1>1. Lowered(t) \in Seq(Character) /\ \A i \in 1 .. Len(Lowered(t)) : Lowered(t)[i] \notin Upper
  BY LoweredIs
<1> QED  BY <1>1, LoweredLow

-----------------------------------------------------------------------------
(***************************************************************************)
(* Trimming.                                                               *)
(***************************************************************************)

Ink(t, i) == t[i] # " "

(* From f to l, t begins and ends with ink, and there is none outside.     *)
Inked(t, f, l) ==
  /\ f \in 1 .. Len(t) /\ l \in 1 .. Len(t) /\ f <= l
  /\ Ink(t, f) /\ Ink(t, l)
  /\ \A i \in 1 .. Len(t) : Ink(t, i) => f <= i /\ i <= l

LEMMA TrimmedDef ==
  ASSUME NEW t \in Seq(Character)
  PROVE  LET ink == {i \in 1 .. Len(t) : Ink(t, i)}
         IN  Trimmed(t) = IF ink = {} THEN << >>
               ELSE SubSeq(t, CHOOSE i \in ink : \A j \in ink : i <= j, CHOOSE i \in ink : \A j \in ink : i >= j)
<1>1. DOMAIN t = 1 .. Len(t)  OBVIOUS
<1> QED  BY <1>1 DEF Trimmed, Ink

(* What is between the first and the last character that is not a space.   *)
LEMMA TrimmedIs ==
  ASSUME NEW t \in Seq(Character), NEW f, NEW l, Inked(t, f, l)
  PROVE  Trimmed(t) = SubSeq(t, f, l)
<1> DEFINE ink == {i \in 1 .. Len(t) : Ink(t, i)}
<1>1. Len(t) \in Nat  OBVIOUS
<1>2. f \in ink /\ l \in ink /\ \A i \in ink : i \in Nat /\ f <= i /\ i <= l
  BY <1>1 DEF Inked
<1>3. f \in Nat /\ l \in Nat  BY <1>1 DEF Inked
<1>4. Trimmed(t) = (IF ink = {} THEN << >>
         ELSE SubSeq(t, CHOOSE i \in ink : \A j \in ink : i <= j, CHOOSE i \in ink : \A j \in ink : i >= j))
  BY TrimmedDef
<1> HIDE DEF ink
<1>5. \A i \in ink : (\A j \in ink : i <= j) <=> i = f  BY <1>2, <1>3
<1>6. \A i \in ink : (\A j \in ink : i >= j) <=> i = l  BY <1>2, <1>3
<1>7. (CHOOSE i \in ink : \A j \in ink : i <= j) = f
  <2>1. f \in ink /\ \A j \in ink : f <= j  BY <1>2
  <2> QED  BY <2>1, <1>5
<1>8. (CHOOSE i \in ink : \A j \in ink : i >= j) = l
  <2>1. l \in ink /\ \A j \in ink : l >= j  BY <1>2, <1>3
  <2> QED  BY <2>1, <1>6
<1> QED  BY <1>2, <1>4, <1>7, <1>8

LEMMA InkThere ==
  ASSUME NEW t \in Seq(Character), NEW k \in 1 .. Len(t), Ink(t, k)
  PROVE  \E f, l \in 1 .. Len(t) : Inked(t, f, l)
<1> DEFINE ink == {i \in 1 .. Len(t) : Ink(t, i)}
<1>1. Len(t) \in Nat  OBVIOUS
<1>2. ink \in SUBSET (0 .. Len(t)) /\ ink # {}  BY <1>1
<1> HIDE DEF ink
<1>3. PICK f \in ink : \A j \in ink : f <= j  BY <1>1, <1>2, LeastUpTo
<1>4. PICK l \in ink : \A j \in ink : l >= j  BY <1>1, <1>2, GreatestUpTo
<1>5. f \in 1 .. Len(t) /\ l \in 1 .. Len(t) /\ Ink(t, f) /\ Ink(t, l)  BY DEF ink
<1>6. \A i \in 1 .. Len(t) : Ink(t, i) => f <= i /\ i <= l
  <2>1. \A i \in 1 .. Len(t) : Ink(t, i) => i \in ink  BY DEF ink
  <2> QED  BY <1>1, <1>3, <1>4, <1>5, <2>1
<1>7. Inked(t, f, l)  BY <1>1, <1>5, <1>6 DEF Inked
<1> QED  BY <1>5, <1>7

(* A text is blank, and then nothing is left of it, or has ink.            *)
LEMMA TrimmedCases ==
  ASSUME NEW t \in Seq(Character)
  PROVE  \/ Trimmed(t) = << >> /\ \A i \in 1 .. Len(t) : ~Ink(t, i)
         \/ \E f, l \in 1 .. Len(t) : Inked(t, f, l) /\ Trimmed(t) = SubSeq(t, f, l)
<1>1. CASE \A i \in 1 .. Len(t) : ~Ink(t, i)
  <2>1. {i \in 1 .. Len(t) : Ink(t, i)} = {}  BY <1>1
  <2> QED  BY <1>1, <2>1, TrimmedDef
<1>2. CASE ~ \A i \in 1 .. Len(t) : ~Ink(t, i)
  <2>1. PICK k \in 1 .. Len(t) : Ink(t, k)  BY <1>2
  <2>2. PICK f, l \in 1 .. Len(t) : Inked(t, f, l)  BY <2>1, InkThere
  <2> QED  BY <2>2, TrimmedIs
<1> QED  BY <1>1, <1>2

LEMMA TrimmedTyped ==
  ASSUME NEW t \in Seq(Character)
  PROVE  Trimmed(t) \in Seq(Character)
<1>1. CASE Trimmed(t) = << >>  BY <1>1
<1>2. CASE \E f, l \in 1 .. Len(t) : Inked(t, f, l) /\ Trimmed(t) = SubSeq(t, f, l)
  <2>1. PICK f, l \in 1 .. Len(t) : Inked(t, f, l) /\ Trimmed(t) = SubSeq(t, f, l)  BY <1>2
  <2>2. f <= l  BY <2>1 DEF Inked
  <2>3. SubSeq(t, f, l) \in Seq(Character)  BY <2>2, PartIs
  <2> QED  BY <2>1, <2>3
<1> QED  BY <1>1, <1>2, TrimmedCases

(* A text that begins and ends with ink is left as it is.                  *)
LEMMA TrimmedTight ==
  ASSUME NEW t \in Seq(Character), t # << >>, Ink(t, 1), Ink(t, Len(t))
  PROVE  Trimmed(t) = t
<1>1. Len(t) \in Nat /\ Len(t) # 0  OBVIOUS
<1>2. Inked(t, 1, Len(t))  BY <1>1 DEF Inked
<1>3. SubSeq(t, 1, Len(t)) = t  OBVIOUS
<1> QED  BY <1>2, <1>3, TrimmedIs

(* Lower case and trimming go together.                                    *)
LEMMA TrimmedLowered ==
  ASSUME NEW t \in Seq(Character)
  PROVE  Trimmed(Lowered(t)) = Lowered(Trimmed(t))
<1>1. PICK u \in Seq(Character) : u = Lowered(t)  BY LoweredIs
<1>2. Len(u) = Len(t) /\ \A i \in 1 .. Len(t) : u[i] = (IF t[i] \in Upper THEN LowerOf[t[i]] ELSE t[i])
  BY <1>1, LoweredIs
<1>3. \A i \in 1 .. Len(t) : Ink(u, i) <=> Ink(t, i)
  BY <1>1, LoweredIs DEF Ink
<1>4. CASE \A i \in 1 .. Len(t) : ~Ink(t, i)
  <2>1. {i \in 1 .. Len(t) : Ink(t, i)} = {} /\ {i \in 1 .. Len(u) : Ink(u, i)} = {}
    BY <1>2, <1>3, <1>4
  <2>2. Trimmed(t) = << >> /\ Trimmed(u) = << >>  BY <2>1, TrimmedDef
  <2>3. Lowered(<< >>) = << >>  BY DEF Lowered
  <2> QED  BY <1>1, <2>2, <2>3
<1>5. CASE \E f, l \in 1 .. Len(t) : Inked(t, f, l) /\ Trimmed(t) = SubSeq(t, f, l)
  <2>1. PICK f, l \in 1 .. Len(t) : Inked(t, f, l) /\ Trimmed(t) = SubSeq(t, f, l)  BY <1>5
  <2>2. Inked(u, f, l)  BY <1>2, <1>3, <2>1 DEF Inked
  <2>3. Trimmed(u) = SubSeq(u, f, l)  BY <2>2, TrimmedIs
  <2>4. f <= l  BY <2>1 DEF Inked
  <2>5. PICK w \in Seq(Character) : w = SubSeq(t, f, l)  BY <2>4, PartIs
  <2>6. PICK v \in Seq(Character) : v = SubSeq(u, f, l)  BY <1>2, <2>4, PartIs
  <2>7. Len(w) = l - f + 1 /\ \A i \in 1 .. l - f + 1 : f + i - 1 \in 1 .. Len(t) /\ w[i] = t[f + i - 1]
    BY <2>4, <2>5, PartIs
  <2>8. Len(v) = l - f + 1 /\ \A i \in 1 .. l - f + 1 : v[i] = u[f + i - 1]
    BY <1>2, <2>4, <2>6, PartIs
  <2>9. Lowered(w) \in Seq(Character) /\ Len(Lowered(w)) = Len(w)
        /\ \A i \in 1 .. Len(w) : Lowered(w)[i] = (IF w[i] \in Upper THEN LowerOf[w[i]] ELSE w[i])
    BY LoweredIs
  <2>10. \A i \in 1 .. Len(v) : Lowered(w)[i] = v[i]  BY <1>2, <2>7, <2>8, <2>9
  <2>11. Lowered(w) = v  BY <2>7, <2>8, <2>9, <2>10, SameText
  <2> QED  BY <1>1, <2>1, <2>3, <2>5, <2>6, <2>11
<1> QED  BY <1>4, <1>5, TrimmedCases

(* Spaces around an input do not matter (str::trim).                       *)
LEMMA TrimmedSpaced ==
  ASSUME NEW t \in Seq(Character), Trimmed(t) # << >>
  PROVE  Trimmed(<<" ">> \o t \o <<" ">>) = Trimmed(t)
<1>1. PICK f, l \in 1 .. Len(t) : Inked(t, f, l) /\ Trimmed(t) = SubSeq(t, f, l)
  BY TrimmedCases
<1>2. PICK c \in Character : c = " "  BY CharactersOf
<1>3. PICK u \in Seq(Character) : u = <<c>> \o t \o <<c>>  BY Around
<1>4. u[1] = c /\ u[Len(t) + 2] = c  BY <1>3, Around
<1>5. Len(t) \in Nat  OBVIOUS
<1>6. Len(u) = Len(t) + 2  BY <1>3, Around
<1>7. \A i \in 1 .. Len(t) : u[i + 1] = t[i]  BY <1>3, Around
<1>8. ~Ink(u, 1) /\ ~Ink(u, Len(t) + 2)  BY <1>2, <1>4 DEF Ink
<1>9. \A i \in 1 .. Len(t) : Ink(u, i + 1) <=> Ink(t, i)  BY <1>7 DEF Ink
<1>10. f <= l /\ Ink(t, f) /\ Ink(t, l) /\ \A i \in 1 .. Len(t) : Ink(t, i) => f <= i /\ i <= l
  BY <1>1 DEF Inked
<1>11. \A i \in 1 .. Len(u) : Ink(u, i) => f + 1 <= i /\ i <= l + 1
  <2> SUFFICES ASSUME NEW i \in 1 .. Len(u), Ink(u, i) PROVE f + 1 <= i /\ i <= l + 1  OBVIOUS
  <2>1. i # 1 /\ i # Len(t) + 2  BY <1>8
  <2>2. i - 1 \in 1 .. Len(t) /\ (i - 1) + 1 = i  BY <1>5, <1>6, <2>1
  <2>3. Ink(t, i - 1)  BY <1>9, <2>2
  <2>4. f <= i - 1 /\ i - 1 <= l  BY <1>10, <2>2, <2>3
  <2> QED  BY <1>5, <2>4
<1>12. Inked(u, f + 1, l + 1)
  <2>1. f + 1 \in 1 .. Len(u) /\ l + 1 \in 1 .. Len(u) /\ f + 1 <= l + 1  BY <1>5, <1>6, <1>10
  <2>2. Ink(u, f + 1) /\ Ink(u, l + 1)  BY <1>9, <1>10
  <2> QED  BY <1>11, <2>1, <2>2 DEF Inked
<1>13. Trimmed(u) = SubSeq(u, f + 1, l + 1)  BY <1>12, TrimmedIs
<1>14. PICK a \in Nat, b \in Nat : a = f + 1 /\ b = l + 1  BY <1>5
<1>15. a \in 1 .. Len(u) /\ b \in 1 .. Len(u) /\ a <= b  BY <1>5, <1>6, <1>10, <1>14
<1>16. SubSeq(t, f, l) \in Seq(Character) /\ Len(SubSeq(t, f, l)) = l - f + 1
       /\ \A i \in 1 .. l - f + 1 : f + i - 1 \in 1 .. Len(t) /\ SubSeq(t, f, l)[i] = t[f + i - 1]
  BY <1>10, PartIs
<1>17. SubSeq(u, a, b) \in Seq(Character) /\ Len(SubSeq(u, a, b)) = b - a + 1
       /\ \A i \in 1 .. b - a + 1 : SubSeq(u, a, b)[i] = u[a + i - 1]
  BY <1>15, PartIs
<1>18. b - a + 1 = l - f + 1 /\ \A i \in 1 .. l - f + 1 : a + i - 1 = (f + i - 1) + 1  BY <1>5, <1>14
<1>19. \A i \in 1 .. l - f + 1 : SubSeq(u, a, b)[i] = SubSeq(t, f, l)[i]
  BY <1>7, <1>16, <1>17, <1>18
<1>20. SubSeq(u, a, b) = SubSeq(t, f, l)
  BY <1>16, <1>17, <1>18, <1>19, SameText
<1> QED  BY <1>1, <1>2, <1>3, <1>13, <1>14, <1>20

-----------------------------------------------------------------------------
(***************************************************************************)
(* Labels.                                                                 *)
(***************************************************************************)

(* A label that may stand in a host.                                       *)
Good(label) == label # << >> /\ Over(Mark, label)

(* The characters of a part of an IPv4 literal are harmless.               *)
LEMMA NumbersAreGood ==
  ASSUME NEW label \in Seq(Character), Number(label) <= MaxOctet
  PROVE  Good(label)
<1> DEFINE digits == IF StartsWith(label, "+") THEN Tail(label) ELSE label
<1>1. MaxOctet \in Nat /\ ~(MaxOctet + 1 <= MaxOctet)  BY LimitsAssumption
<1>2. digits # << >> /\ Over(Digit, digits)
  BY <1>1 DEF Number
<1>3. \A c \in Digit : c \in Mark  BY Characters DEF Mark
<1>4. CASE StartsWith(label, "+")
  <2>1. label # << >> /\ label[1] = "+"  BY <1>4 DEF StartsWith
  <2>2. PICK n \in Nat : n = Len(label)  OBVIOUS
  <2>3. n # 0 /\ Len(Tail(label)) = n - 1 /\ \A i \in 1 .. n - 1 : Tail(label)[i] = label[i + 1]
    BY <2>1, <2>2
  <2>4. \A i \in 1 .. n - 1 : Tail(label)[i] \in Digit
    <3>1. DOMAIN Tail(label) = 1 .. n - 1  BY <2>1, <2>2, <2>3
    <3>2. digits = Tail(label)  BY <1>4
    <3> QED  BY <1>2, <3>1, <3>2 DEF Over
  <2>5. \A i \in 2 .. n : i - 1 \in 1 .. n - 1 /\ (i - 1) + 1 = i  BY <2>2
  <2>6. \A i \in 2 .. n : label[i] \in Digit  BY <2>3, <2>4, <2>5
  <2>7. "+" \in Mark  BY DEF Mark
  <2>8. label[1] \in Mark  BY <2>1, <2>7
  <2>9. \A i \in 1 .. n : i = 1 \/ i \in 2 .. n  BY <2>2
  <2>10. \A i \in 1 .. n : label[i] \in Mark  BY <1>3, <2>6, <2>8, <2>9
  <2> QED  BY <2>1, <2>2, <2>10 DEF Good, Over
<1>5. CASE ~StartsWith(label, "+")
  <2>1. digits = label  BY <1>5
  <2> QED  BY <1>2, <1>3, <2>1 DEF Good, Over
<1> QED  BY <1>4, <1>5

LEMMA ValidAreGood ==
  ASSUME NEW label, ValidLabel(label)
  PROVE  Good(label)
<1>1. \A c \in Upper \cup Letter \cup Digit \cup {"-"} : c \in Mark  BY Characters DEF Mark
<1> QED  BY <1>1 DEF ValidLabel, Good, Over

(* A label goes up to the next dot, or to the end.                         *)
LEMMA LabelIs ==
  ASSUME NEW t \in Seq(Character), NEW i \in 0 .. Len(t)
  PROVE  \E e \in i + 1 .. Len(t) + 1 :
           /\ LabelFrom(t, i) = SubSeq(t, i + 1, e - 1)
           /\ e \in Dots(t) \cup {Len(t) + 1}
           /\ \A k \in Dots(t) : k > i => e <= k
<1> DEFINE ends == {j \in Dots(t) \cup {Len(t) + 1} : j > i}
<1>1. PICK n \in Nat : n = Len(t) + 1  OBVIOUS
<1>2. Dots(t) \subseteq 1 .. Len(t)  BY DEF Dots
<1>3. n \in ends /\ ends \in SUBSET (0 .. n) /\ ends \in SUBSET (i + 1 .. n)  BY <1>1, <1>2
<1>4. LabelFrom(t, i) = SubSeq(t, i + 1, (CHOOSE j \in ends : \A k \in ends : j <= k) - 1)
  BY DEF LabelFrom
<1>5. \A j \in ends : j \in Dots(t) \cup {Len(t) + 1}  OBVIOUS
<1>6. \A k \in Dots(t) : k > i => k \in ends  OBVIOUS
<1> HIDE DEF ends
<1>7. PICK e \in ends : \A k \in ends : e <= k  BY <1>1, <1>3, LeastUpTo
<1>8. (CHOOSE j \in ends : \A k \in ends : j <= k) = e
  <2>1. \A j \in ends : j \in Nat  BY <1>1, <1>3
  <2>2. \A j \in ends : (\A k \in ends : j <= k) => j = e  BY <1>7, <2>1
  <2> QED  BY <1>7, <2>2
<1>9. e \in i + 1 .. Len(t) + 1  BY <1>1, <1>3
<1> QED  BY <1>4, <1>5, <1>6, <1>7, <1>8, <1>9

LEMMA LabelTyped ==
  ASSUME NEW t \in Seq(Character), NEW label \in Labels(t)
  PROVE  label \in Seq(Character)
<1>1. PICK i \in Dots(t) \cup {0} : label = LabelFrom(t, i)  BY DEF Labels
<1>2. PICK n \in Nat : n = Len(t)  OBVIOUS
<1>3. i \in 0 .. Len(t)  BY <1>2 DEF Dots
<1>4. PICK e \in i + 1 .. Len(t) + 1 : LabelFrom(t, i) = SubSeq(t, i + 1, e - 1)
  BY <1>3, LabelIs
<1>5. i + 1 \in Int /\ e - 1 \in Int  BY <1>2, <1>3
<1>6. \A k \in i + 1 .. e - 1 : k \in 1 .. Len(t)  BY <1>2, <1>3
<1>7. SubSeq(t, i + 1, e - 1) \in Seq(Character)  BY <1>3, <1>4, <1>2
<1> QED  BY <1>1, <1>4, <1>7

(* Then the text begins and ends with such a character.                    *)
LEMMA GoodEdges ==
  ASSUME NEW t \in Seq(Character), \A label \in Labels(t) : Good(label)
  PROVE  t # << >> /\ t[1] \in Mark /\ t[Len(t)] \in Mark
<1>1. PICK n \in Nat : n = Len(t)  OBVIOUS
<1>2. Dots(t) \subseteq 1 .. n  BY <1>1 DEF Dots
<1>3. \A i \in Dots(t) \cup {0} : Good(LabelFrom(t, i))  BY DEF Labels
<1>4. ASSUME NEW i \in 0 .. n, NEW e \in i + 1 .. n + 1, Good(SubSeq(t, i + 1, e - 1))
      PROVE  /\ i + 1 <= e - 1 /\ i + 1 \in 1 .. n /\ e - 1 \in 1 .. n
             /\ t[i + 1] \in Mark /\ t[e - 1] \in Mark
  <2>1. i + 1 <= e - 1
    <3>1. SubSeq(t, i + 1, e - 1) # << >>  BY <1>4 DEF Good
    <3>2. ASSUME e - 1 < i + 1 PROVE SubSeq(t, i + 1, e - 1) = << >>
      <4>1. i + 1 \in Nat /\ e - 1 \in Nat  BY <1>1
      <4> QED  BY <3>2, <4>1
    <3> QED  BY <3>1, <3>2
  <2>2. PICK a \in 1 .. n, b \in 1 .. n : a = i + 1 /\ b = e - 1 /\ a <= b  BY <1>1, <2>1
  <2>3. Len(SubSeq(t, a, b)) = b - a + 1 /\ SubSeq(t, a, b) \in Seq(Character)
        /\ \A k \in 1 .. b - a + 1 : SubSeq(t, a, b)[k] = t[a + k - 1]
    BY <1>1, <2>2, PartIs
  <2>4. \A k \in 1 .. b - a + 1 : SubSeq(t, a, b)[k] \in Mark
    <3>1. DOMAIN SubSeq(t, a, b) = 1 .. b - a + 1  BY <2>3
    <3> QED  BY <1>4, <2>2, <3>1 DEF Good, Over
  <2>5. 1 \in 1 .. b - a + 1 /\ b - a + 1 \in 1 .. b - a + 1 /\ a + 1 - 1 = a /\ a + (b - a + 1) - 1 = b
    BY <1>1, <2>2
  <2>6. t[a] \in Mark  BY <2>3, <2>4, <2>5
  <2>7. t[b] \in Mark  BY <2>3, <2>4, <2>5
  <2> QED  BY <2>1, <2>2, <2>6, <2>7
<1>5. n # 0 /\ t[1] \in Mark
  <2>1. PICK e \in 0 + 1 .. n + 1 : LabelFrom(t, 0) = SubSeq(t, 0 + 1, e - 1)
    BY <1>1, LabelIs
  <2>2. Good(SubSeq(t, 0 + 1, e - 1))  BY <1>3, <2>1
  <2>3. 0 + 1 \in 1 .. n /\ t[0 + 1] \in Mark  BY <1>4, <1>1, <2>2
  <2> QED  BY <1>1, <2>3
<1>6. t[n] \in Mark
  <2>1. Dots(t) \cup {0} \in SUBSET (0 .. n) /\ Dots(t) \cup {0} # {}  BY <1>1, <1>2
  <2>2. PICK i \in Dots(t) \cup {0} : \A k \in Dots(t) \cup {0} : i >= k
    BY <1>1, <2>1, GreatestUpTo
  <2>3. i \in 0 .. n  BY <2>1
  <2>4. PICK e \in i + 1 .. n + 1 :
          LabelFrom(t, i) = SubSeq(t, i + 1, e - 1) /\ e \in Dots(t) \cup {n + 1}
    BY <1>1, <2>3, LabelIs
  <2>5. e = n + 1  BY <1>1, <1>2, <2>2, <2>3, <2>4
  <2>6. Good(SubSeq(t, i + 1, e - 1))  BY <1>3, <2>2, <2>4
  <2>7. t[e - 1] \in Mark  BY <1>4, <2>3, <2>6
  <2> QED  BY <1>1, <2>5, <2>7
<1> QED  BY <1>1, <1>5, <1>6

-----------------------------------------------------------------------------
(***************************************************************************)
(* Hosts: the form of what normalisation leaves.                           *)
(***************************************************************************)

Colons(t) == \E i \in DOMAIN t : t[i] = ":"
Bare(t) == IF EndsWith(t, ".") THEN DropLast(t) ELSE t

(* Normalisation of a text that is trimmed.                                *)
Normal(t) ==
  IF t = << >> \/ ~Over(Ascii, t) THEN NoHost
  ELSE IF StartsWith(t, "[") THEN NormalizeIpv6Literal(Tail(t))
  ELSE IF Colons(t) \/ NormalizeDomain(t) = NoHost THEN NoHost
  ELSE IF IsIpv4Literal(NormalizeDomain(t)) \/ ValidLabels(NormalizeDomain(t)) THEN NormalizeDomain(t)
  ELSE NoHost

(* NormalizeHost is Normal after trimming.                                 *)
LEMMA NormalDef ==
  ASSUME NEW t
  PROVE  NormalizeHost(t) = Normal(Trimmed(t))
BY DEF NormalizeHost, Normal, Colons

LEMMA DomainDef ==
  ASSUME NEW t
  PROVE  NormalizeDomain(t) = IF Len(Bare(t)) > MaxHostLength THEN NoHost ELSE Lowered(Bare(t))
BY DEF NormalizeDomain, Bare

LEMMA DropLastIs ==
  ASSUME NEW S, NEW t \in Seq(S), t # << >>
  PROVE  /\ DropLast(t) \in Seq(S) /\ Len(DropLast(t)) = Len(t) - 1
         /\ \A i \in 1 .. Len(t) - 1 : DropLast(t)[i] = t[i]
<1>1. PICK n \in Nat : n = Len(t)  OBVIOUS
<1>2. n # 0  BY <1>1
<1>3. SubSeq(t, 1, n - 1) \in Seq(S) /\ Len(SubSeq(t, 1, n - 1)) = n - 1
      /\ \A i \in 1 .. n - 1 : SubSeq(t, 1, n - 1)[i] = t[i]
  BY <1>1, <1>2
<1> QED  BY <1>1, <1>3 DEF DropLast

LEMMA TailIs ==
  ASSUME NEW S, NEW t \in Seq(S), t # << >>
  PROVE  /\ Tail(t) \in Seq(S) /\ Len(Tail(t)) = Len(t) - 1
         /\ \A i \in 1 .. Len(t) - 1 : Tail(t)[i] = t[i + 1]
OBVIOUS

LEMMA BareIs ==
  ASSUME NEW t \in Seq(Character)
  PROVE  /\ Bare(t) \in Seq(Character)
         /\ \A i \in 1 .. Len(Bare(t)) : i \in 1 .. Len(t) /\ Bare(t)[i] = t[i]
<1>1. CASE EndsWith(t, ".")
  <2>1. t # << >> /\ Bare(t) = DropLast(t)  BY <1>1 DEF EndsWith, Bare
  <2>2. PICK n \in Nat : n = Len(t)  OBVIOUS
  <2>3. DropLast(t) \in Seq(Character) /\ Len(DropLast(t)) = n - 1
        /\ \A i \in 1 .. n - 1 : DropLast(t)[i] = t[i]
    BY <2>1, <2>2, DropLastIs
  <2> QED  BY <2>1, <2>2, <2>3
<1>2. CASE ~EndsWith(t, ".")
  <2>1. Bare(t) = t  BY <1>2 DEF Bare
  <2> QED  BY <2>1
<1> QED  BY <1>1, <1>2

(* A name or an IPv4 literal.                                              *)
Named(h) ==
  /\ h \in Seq(Character) /\ h # << >>
  /\ \A i \in 1 .. Len(h) : h[i] \in Ascii /\ h[i] \notin Upper
  /\ ~Colons(h)
  /\ h[1] \in Mark /\ h[Len(h)] \in Mark
  /\ ~(Len(h) > MaxHostLength)
  /\ IsIpv4Literal(h) \/ ValidLabels(h)

(* An IPv6 literal.                                                        *)
Bracketed(h) ==
  \E inner \in Seq(Character) :
    /\ h = <<"[">> \o inner \o <<"]">>
    /\ \A i \in 1 .. Len(inner) : inner[i] \in Ascii /\ inner[i] \notin Upper
    /\ Over(HexDigit \cup {":", "."}, inner)
    /\ Colons(inner)

LEMMA OverIs ==
  ASSUME NEW C, NEW t \in Seq(Character)
  PROVE  Over(C, t) <=> \A i \in 1 .. Len(t) : t[i] \in C
<1>1. DOMAIN t = 1 .. Len(t)  OBVIOUS
<1> QED  BY <1>1 DEF Over

LEMMA ColonsIs ==
  ASSUME NEW t \in Seq(Character)
  PROVE  Colons(t) <=> \E i \in 1 .. Len(t) : t[i] = ":"
<1>1. DOMAIN t = 1 .. Len(t)  OBVIOUS
<1> QED  BY <1>1 DEF Colons

(* What NormalizeHost gives for a domain or an IPv4 literal has the form   *)
(* Named.                                                                  *)
LEMMA NamesAreNamed ==
  ASSUME NEW t \in Seq(Character), Over(Ascii, t), ~Colons(t),
         NormalizeDomain(t) # NoHost,
         IsIpv4Literal(NormalizeDomain(t)) \/ ValidLabels(NormalizeDomain(t))
  PROVE  Named(NormalizeDomain(t))
<1>1. PICK b \in Seq(Character) : b = Bare(t)  BY BareIs
<1>2. ~(Len(b) > MaxHostLength) /\ NormalizeDomain(t) = Lowered(b)  BY <1>1, DomainDef
<1>3. PICK h \in Seq(Character) : h = Lowered(b)  BY LoweredIs
<1>4. Len(h) = Len(b) /\ \A i \in 1 .. Len(b) :
        h[i] \notin Upper /\ (b[i] \in Ascii => h[i] \in Ascii) /\ (h[i] = ":" <=> b[i] = ":")
  BY <1>3, LoweredIs
<1>5. \A i \in 1 .. Len(b) : i \in 1 .. Len(t) /\ b[i] = t[i]  BY <1>1, BareIs
<1>6. \A i \in 1 .. Len(h) : h[i] \in Ascii /\ h[i] \notin Upper  BY <1>4, <1>5, OverIs
<1>7. ~Colons(h)  BY <1>4, <1>5, ColonsIs
<1>8. \A label \in Labels(h) : Good(label)
  <2>1. \A label \in Labels(h) : label \in Seq(Character)  BY LabelTyped
  <2>2. CASE IsIpv4Literal(h)  BY <2>1, <2>2, NumbersAreGood DEF IsIpv4Literal
  <2>3. CASE ValidLabels(h)  BY <2>3, ValidAreGood DEF ValidLabels
  <2> QED  BY <1>2, <1>3, <2>2, <2>3
<1>9. h # << >> /\ h[1] \in Mark /\ h[Len(h)] \in Mark  BY <1>8, GoodEdges
<1> QED  BY <1>2, <1>3, <1>4, <1>6, <1>7, <1>9 DEF Named

(* What it gives for an IPv6 literal has the form Bracketed.               *)
LEMMA LiteralsAreBracketed ==
  ASSUME NEW t \in Seq(Character), t # << >>, Over(Ascii, t), NormalizeIpv6Literal(Tail(t)) # NoHost
  PROVE  Bracketed(NormalizeIpv6Literal(Tail(t)))
<1>1. PICK rest \in Seq(Character) : rest = Tail(t)  BY TailIs
<1>2. \A i \in 1 .. Len(rest) : rest[i] \in Ascii
  <2>1. PICK n \in Nat : n = Len(t)  OBVIOUS
  <2>2. Len(rest) = n - 1 /\ \A i \in 1 .. n - 1 : rest[i] = t[i + 1]  BY <1>1, <2>1, TailIs
  <2>3. \A i \in 1 .. n - 1 : i + 1 \in 1 .. n  BY <2>1
  <2> QED  BY <2>1, <2>2, <2>3, OverIs
<1>3. /\ EndsWith(rest, "]")
      /\ Colons(Lowered(DropLast(rest)))
      /\ Over(HexDigit \cup {":", "."}, Lowered(DropLast(rest)))
      /\ NormalizeIpv6Literal(rest) = <<"[">> \o Lowered(DropLast(rest)) \o <<"]">>
  BY <1>1 DEF NormalizeIpv6Literal, Colons
<1>4. rest # << >>  BY <1>3 DEF EndsWith
<1>5. PICK b \in Seq(Character) : b = DropLast(rest)  BY <1>4, DropLastIs
<1>6. \A i \in 1 .. Len(b) : b[i] \in Ascii
  <2>1. PICK n \in Nat : n = Len(rest)  OBVIOUS
  <2>2. Len(b) = n - 1 /\ \A i \in 1 .. n - 1 : b[i] = rest[i]  BY <1>4, <1>5, <2>1, DropLastIs
  <2>3. \A i \in 1 .. n - 1 : i \in 1 .. n  BY <2>1
  <2> QED  BY <1>2, <2>1, <2>2, <2>3
<1>7. PICK inner \in Seq(Character) : inner = Lowered(b)  BY LoweredIs
<1>8. \A i \in 1 .. Len(inner) : inner[i] \in Ascii /\ inner[i] \notin Upper
  <2>1. Len(inner) = Len(b) /\ \A i \in 1 .. Len(b) : inner[i] \notin Upper /\ (b[i] \in Ascii => inner[i] \in Ascii)
    BY <1>7, LoweredIs
  <2> QED  BY <1>6, <2>1
<1> QED  BY <1>1, <1>3, <1>5, <1>7, <1>8 DEF Bracketed

(* What a text is normalised to is a host of one of the two forms.         *)
LEMMA HostForms ==
  ASSUME NEW t \in Seq(Character), NormalizeHost(t) # NoHost
  PROVE  \/ Bracketed(NormalizeHost(t))
         \/ /\ ~StartsWith(Trimmed(t), "[")
            /\ Named(NormalizeHost(t))
<1>1. PICK u \in Seq(Character) : u = Trimmed(t)  BY TrimmedTyped
<1>2. NormalizeHost(t) = Normal(u)  BY <1>1, NormalDef
<1>3. u # << >> /\ Over(Ascii, u)  BY <1>2 DEF Normal
<1>4. CASE StartsWith(u, "[")
  <2>1. Normal(u) = NormalizeIpv6Literal(Tail(u))  BY <1>3, <1>4 DEF Normal
  <2> QED  BY <1>2, <1>3, <2>1, LiteralsAreBracketed
<1>5. CASE ~StartsWith(u, "[")
  <2>1. /\ Normal(u) = NormalizeDomain(u) /\ ~Colons(u) /\ NormalizeDomain(u) # NoHost
        /\ IsIpv4Literal(NormalizeDomain(u)) \/ ValidLabels(NormalizeDomain(u))
    BY <1>2, <1>3, <1>5 DEF Normal
  <2> QED  BY <1>1, <1>2, <1>3, <1>5, <2>1, NamesAreNamed
<1> QED  BY <1>4, <1>5

-----------------------------------------------------------------------------
(***************************************************************************)
(* Spellings: every form of a host is normalised to the same one.          *)
(***************************************************************************)

LEMMA MarksAre ==
  \A c \in Mark : c # " " /\ c # "[" /\ c # "." /\ c # ":"
BY DEF Mark

LEMMA NamedEdges ==
  ASSUME NEW h, Named(h)
  PROVE  /\ Ink(h, 1) /\ Ink(h, Len(h)) /\ ~StartsWith(h, "[") /\ ~EndsWith(h, ".")
         /\ h \in Seq(Character) /\ h # << >> /\ Lowered(h) = h /\ Over(Ascii, h)
<1>1. h[1] \in Mark /\ h[Len(h)] \in Mark  BY DEF Named
<1>2. h[1] # " " /\ h[Len(h)] # " " /\ h[1] # "[" /\ h[Len(h)] # "."  BY <1>1, MarksAre
<1>3. h \in Seq(Character) /\ h # << >> /\ \A i \in 1 .. Len(h) : h[i] \in Ascii /\ h[i] \notin Upper
  BY DEF Named
<1>4. Lowered(h) = h  BY <1>3, LoweredLow
<1>5. Over(Ascii, h)  BY <1>3, OverIs
<1> QED  BY <1>2, <1>3, <1>4, <1>5 DEF Ink, StartsWith, EndsWith

(* Both forms are their own normal form.                                   *)
LEMMA NamedStays ==
  ASSUME NEW h, Named(h)
  PROVE  NormalizeHost(h) = h
<1>1. h \in Seq(Character) /\ h # << >> /\ Lowered(h) = h /\ Over(Ascii, h)
      /\ Ink(h, 1) /\ Ink(h, Len(h)) /\ ~StartsWith(h, "[") /\ ~EndsWith(h, ".")
  BY NamedEdges
<1>2. Trimmed(h) = h  BY <1>1, TrimmedTight
<1>3. Bare(h) = h  BY <1>1 DEF Bare
<1>4. NormalizeDomain(h) = h  BY <1>1, <1>3, DomainDef DEF Named
<1>5. ~Colons(h) /\ (IsIpv4Literal(h) \/ ValidLabels(h))  BY DEF Named
<1>6. Normal(h) = h  BY <1>1, <1>4, <1>5 DEF Normal, NoHost
<1> QED  BY <1>2, <1>6, NormalDef

(* The final dot of a fully qualified name.                                *)
LEMMA NamedDotted ==
  ASSUME NEW h, Named(h)
  PROVE  NormalizeHost(h \o <<".">>) = h
<1>1. h \in Seq(Character) /\ h # << >> /\ Lowered(h) = h /\ Over(Ascii, h)
      /\ Ink(h, 1) /\ ~StartsWith(h, "[")
  BY NamedEdges
<1>2. ~Colons(h) /\ (IsIpv4Literal(h) \/ ValidLabels(h)) /\ ~(Len(h) > MaxHostLength)  BY DEF Named
<1>3. PICK dot \in Character : dot = "." /\ dot \in Ascii  BY CharactersOf
<1>4. PICK u \in Seq(Character) : u = h \o <<dot>>  BY <1>1, After
<1>5. PICK n \in Nat : n = Len(h)  BY <1>1
<1>6. n # 0  BY <1>1, <1>5
<1>7. Len(u) = n + 1 /\ u[n + 1] = dot /\ \A i \in 1 .. n : u[i] = h[i]
  BY <1>1, <1>4, <1>5, After
<1>8. u # << >>  BY <1>5, <1>7
<1>9. u[1] = h[1]  BY <1>5, <1>6, <1>7
<1>10. Ink(u, 1) /\ ~StartsWith(u, "[")  BY <1>1, <1>9 DEF Ink, StartsWith
<1>11. Ink(u, Len(u)) /\ EndsWith(u, ".")  BY <1>3, <1>7, <1>8 DEF Ink, EndsWith
<1>12. Trimmed(u) = u  BY <1>8, <1>10, <1>11, TrimmedTight
<1>13. \A i \in 1 .. Len(u) : i = n + 1 \/ i \in 1 .. n  BY <1>5, <1>7
<1>14. Over(Ascii, u)
  <2>1. \A i \in 1 .. n : h[i] \in Ascii  BY <1>1, <1>5, OverIs
  <2>2. \A i \in 1 .. Len(u) : u[i] \in Ascii  BY <1>3, <1>7, <1>13, <2>1
  <2> QED  BY <2>2, OverIs
<1>15. ~Colons(u)
  <2>1. \A i \in 1 .. n : h[i] # ":"  BY <1>1, <1>2, <1>5, ColonsIs
  <2>2. dot # ":"  BY <1>3
  <2>3. \A i \in 1 .. Len(u) : u[i] # ":"  BY <1>7, <1>13, <2>1, <2>2
  <2> QED  BY <2>3, ColonsIs
<1>16. DropLast(u) = h
  <2>1. PICK d \in Seq(Character) : d = DropLast(u)  BY <1>8, DropLastIs
  <2>2. n + 1 - 1 = n  BY <1>5
  <2>3. Len(d) = n /\ \A i \in 1 .. n : d[i] = u[i]  BY <1>7, <1>8, <2>1, <2>2, DropLastIs
  <2>4. d = h  BY <1>1, <1>5, <1>7, <2>3, SameText
  <2> QED  BY <2>1, <2>4
<1>17. NormalizeDomain(u) = h  BY <1>1, <1>2, <1>11, <1>16, DomainDef DEF Bare
<1>18. Normal(u) = h  BY <1>1, <1>2, <1>8, <1>10, <1>14, <1>15, <1>17 DEF Normal, NoHost
<1> QED  BY <1>3, <1>4, <1>12, <1>18, NormalDef

LEMMA BracketedStays ==
  ASSUME NEW h, Bracketed(h)
  PROVE  h \in Seq(Character) /\ StartsWith(h, "[") /\ NormalizeHost(h) = h
<1>1. PICK inner \in Seq(Character) :
        /\ h = <<"[">> \o inner \o <<"]">>
        /\ \A i \in 1 .. Len(inner) : inner[i] \in Ascii /\ inner[i] \notin Upper
        /\ Over(HexDigit \cup {":", "."}, inner)
        /\ Colons(inner)
  BY DEF Bracketed
<1>2. PICK open \in Character : open = "[" /\ open \in Ascii  BY CharactersOf
<1>3. PICK close \in Character : close = "]" /\ close \in Ascii  BY CharactersOf
<1>4. PICK n \in Nat : n = Len(inner)  OBVIOUS
<1>5. PICK u \in Seq(Character) : u = <<open>> \o inner \o <<close>>  BY Around
<1>6. Len(u) = n + 2 /\ u[1] = open /\ u[n + 2] = close /\ \A i \in 1 .. n : u[i + 1] = inner[i]
  BY <1>4, <1>5, Around
<1>7. u = h  BY <1>1, <1>2, <1>3, <1>5
<1>8. u # << >>  BY <1>4, <1>6
<1>9. Ink(u, 1) /\ Ink(u, Len(u)) /\ StartsWith(u, "[")
  BY <1>2, <1>3, <1>6, <1>8 DEF Ink, StartsWith
<1>10. Trimmed(u) = u  BY <1>8, <1>9, TrimmedTight
<1>11. \A i \in 1 .. n + 2 : i = 1 \/ i = n + 2 \/ (i - 1 \in 1 .. n /\ (i - 1) + 1 = i)  BY <1>4
<1>12. Over(Ascii, u)
  <2>1. \A i \in 1 .. Len(u) : u[i] \in Ascii  BY <1>1, <1>2, <1>3, <1>4, <1>6, <1>11
  <2> QED  BY <2>1, OverIs
<1>13. PICK rest \in Seq(Character) : rest = Tail(u)  BY <1>8, TailIs
<1>14. (n + 2) - 1 = n + 1 /\ n + 1 \in 1 .. n + 1 /\ (n + 1) + 1 = n + 2  BY <1>4
<1>15. Len(rest) = n + 1 /\ \A i \in 1 .. n + 1 : rest[i] = u[i + 1]
  BY <1>6, <1>8, <1>13, <1>14, TailIs
<1>16. rest[n + 1] = close  BY <1>6, <1>14, <1>15
<1>17. rest # << >>  BY <1>4, <1>15
<1>18. EndsWith(rest, "]")  BY <1>3, <1>15, <1>16, <1>17 DEF EndsWith
<1>19. DropLast(rest) = inner
  <2>1. PICK d \in Seq(Character) : d = DropLast(rest)  BY <1>17, DropLastIs
  <2>2. (n + 1) - 1 = n /\ \A i \in 1 .. n : i \in 1 .. n + 1  BY <1>4
  <2>3. Len(d) = n /\ \A i \in 1 .. n : d[i] = rest[i]  BY <1>15, <1>17, <2>1, <2>2, DropLastIs
  <2>4. \A i \in 1 .. n : d[i] = inner[i]  BY <1>6, <1>15, <2>2, <2>3
  <2>5. d = inner  BY <1>4, <2>3, <2>4, SameText
  <2> QED  BY <2>1, <2>5
<1>20. Lowered(inner) = inner  BY <1>1, LoweredLow
<1>21. NormalizeIpv6Literal(rest) = <<"[">> \o inner \o <<"]">>
  <2>1. \E i \in DOMAIN inner : inner[i] = ":"  BY <1>1 DEF Colons
  <2>2. Over(HexDigit \cup {":", "."}, inner)  BY <1>1
  <2>3. Lowered(DropLast(rest)) = inner  BY <1>19, <1>20
  <2> QED  BY <1>18, <2>1, <2>2, <2>3 DEF NormalizeIpv6Literal
<1>22. Normal(u) = NormalizeIpv6Literal(rest)  BY <1>8, <1>9, <1>12, <1>13 DEF Normal
<1>23. Normal(u) = h  BY <1>1, <1>21, <1>22
<1>24. NormalizeHost(h) = h  BY <1>7, <1>10, <1>23, NormalDef
<1> QED  BY <1>7, <1>9, <1>24

(* The form that is stored is read back as it was written.                 *)
LEMMA FinalForm ==
  ASSUME NEW t \in Seq(Character), NormalizeHost(t) # NoHost
  PROVE  /\ NormalizeHost(t) \in Seq(Character)
         /\ NormalizeHost(NormalizeHost(t)) = NormalizeHost(t)
<1>1. CASE Bracketed(NormalizeHost(t))  BY <1>1, BracketedStays
<1>2. CASE Named(NormalizeHost(t))  BY <1>2, NamedStays DEF Named
<1> QED  BY <1>1, <1>2, HostForms

(* Lowering commutes with taking off the first or the last character.      *)
LEMMA LoweredParts ==
  ASSUME NEW t \in Seq(Character), t # << >>
  PROVE  /\ Lowered(t) # << >>
         /\ Tail(Lowered(t)) = Lowered(Tail(t))
         /\ DropLast(Lowered(t)) = Lowered(DropLast(t))
         /\ \A c \in {" ", "[", "]", ":", "."} :
              /\ StartsWith(Lowered(t), c) <=> StartsWith(t, c)
              /\ EndsWith(Lowered(t), c) <=> EndsWith(t, c)
<1>1. PICK n \in Nat : n = Len(t)  OBVIOUS
<1>2. n # 0  BY <1>1
<1>3. PICK u \in Seq(Character) : u = Lowered(t)  BY LoweredIs
<1>4. Len(u) = n /\ \A i \in 1 .. n : u[i] = (IF t[i] \in Upper THEN LowerOf[t[i]] ELSE t[i])
  BY <1>1, <1>3, LoweredIs
<1>5. \A i \in 1 .. n : \A c \in {" ", "[", "]", ":", "."} : u[i] = c <=> t[i] = c
  <2>1. \A i \in 1 .. Len(t) : \A c \in {" ", "[", "]", ":", "."} : Lowered(t)[i] = c <=> t[i] = c
    BY LoweredIs
  <2> QED  BY <1>1, <1>3, <2>1
<1>6. u # << >>  BY <1>1, <1>2, <1>4
<1>7. Tail(u) = Lowered(Tail(t))
  <2>1. PICK r \in Seq(Character) : r = Tail(t)  BY TailIs
  <2>2. PICK v \in Seq(Character) : v = Tail(u)  BY <1>6, TailIs
  <2>3. Len(r) = n - 1 /\ \A i \in 1 .. n - 1 : r[i] = t[i + 1]  BY <1>1, <2>1, TailIs
  <2>4. Len(v) = n - 1 /\ \A i \in 1 .. n - 1 : v[i] = u[i + 1]  BY <1>4, <1>6, <2>2, TailIs
  <2>5. Lowered(r) \in Seq(Character) /\ Len(Lowered(r)) = Len(r)
        /\ \A i \in 1 .. Len(r) : Lowered(r)[i] = (IF r[i] \in Upper THEN LowerOf[r[i]] ELSE r[i])
    BY LoweredIs
  <2>6. \A i \in 1 .. n - 1 : i + 1 \in 1 .. n  BY <1>1
  <2>7. \A i \in 1 .. Len(v) : Lowered(r)[i] = v[i]  BY <1>4, <2>3, <2>4, <2>5, <2>6
  <2>8. Lowered(r) = v  BY <2>3, <2>4, <2>5, <2>7, SameText
  <2> QED  BY <2>1, <2>2, <2>8
<1>8. DropLast(u) = Lowered(DropLast(t))
  <2>1. PICK r \in Seq(Character) : r = DropLast(t)  BY DropLastIs
  <2>2. PICK v \in Seq(Character) : v = DropLast(u)  BY <1>6, DropLastIs
  <2>3. Len(r) = n - 1 /\ \A i \in 1 .. n - 1 : r[i] = t[i]  BY <1>1, <2>1, DropLastIs
  <2>4. Len(v) = n - 1 /\ \A i \in 1 .. n - 1 : v[i] = u[i]  BY <1>4, <1>6, <2>2, DropLastIs
  <2>5. Lowered(r) \in Seq(Character) /\ Len(Lowered(r)) = Len(r)
        /\ \A i \in 1 .. Len(r) : Lowered(r)[i] = (IF r[i] \in Upper THEN LowerOf[r[i]] ELSE r[i])
    BY LoweredIs
  <2>6. \A i \in 1 .. n - 1 : i \in 1 .. n  BY <1>1
  <2>7. \A i \in 1 .. Len(v) : Lowered(r)[i] = v[i]  BY <1>4, <2>3, <2>4, <2>5, <2>6
  <2>8. Lowered(r) = v  BY <2>3, <2>4, <2>5, <2>7, SameText
  <2> QED  BY <2>1, <2>2, <2>8
<1>9. 1 \in 1 .. n /\ n \in 1 .. n  BY <1>1, <1>2
<1>10. \A c \in {" ", "[", "]", ":", "."} :
         /\ StartsWith(u, c) <=> StartsWith(t, c)
         /\ EndsWith(u, c) <=> EndsWith(t, c)
  BY <1>1, <1>4, <1>5, <1>6, <1>9 DEF StartsWith, EndsWith
<1> QED  BY <1>3, <1>6, <1>7, <1>8, <1>10

(* Capitals.                                                               *)
LEMMA LoweredAlike ==
  ASSUME NEW t \in Seq(Character), Normal(t) # NoHost
  PROVE  Normal(Lowered(t)) = Normal(t)
<1>1. PICK u \in Seq(Character) : u = Lowered(t)  BY LoweredIs
<1>2. t # << >> /\ Over(Ascii, t)  BY DEF Normal
<1>3. Len(u) = Len(t) /\ \A i \in 1 .. Len(t) : (t[i] \in Ascii => u[i] \in Ascii) /\ (u[i] = ":" <=> t[i] = ":")
  BY <1>1, LoweredIs
<1>4. u # << >> /\ Over(Ascii, u)
  <2>1. u # << >>  BY <1>1, <1>2, LoweredParts
  <2> QED  BY <1>2, <1>3, <2>1, OverIs
<1>5. Colons(u) <=> Colons(t)  BY <1>3, ColonsIs
<1>6. StartsWith(u, "[") <=> StartsWith(t, "[")  BY <1>1, <1>2, LoweredParts
<1>7. CASE StartsWith(t, "[")
  <2>1. PICK r \in Seq(Character) : r = Tail(t)  BY <1>2, TailIs
  <2>2. Tail(u) = Lowered(r)  BY <1>1, <1>2, <2>1, LoweredParts
  <2>3. Normal(t) = NormalizeIpv6Literal(r) /\ Normal(u) = NormalizeIpv6Literal(Lowered(r))
    BY <1>2, <1>4, <1>6, <1>7, <2>1, <2>2 DEF Normal
  <2>4. EndsWith(r, "]")  BY <2>3 DEF NormalizeIpv6Literal
  <2>5. r # << >>  BY <2>4 DEF EndsWith
  <2>6. EndsWith(Lowered(r), "]") /\ DropLast(Lowered(r)) = Lowered(DropLast(r))
    BY <2>4, <2>5, LoweredParts
  <2>7. Lowered(Lowered(DropLast(r))) = Lowered(DropLast(r))
    <3>1. DropLast(r) \in Seq(Character)  BY <2>5, DropLastIs
    <3> QED  BY <3>1, LoweredTwice
  <2>8. NormalizeIpv6Literal(Lowered(r)) = NormalizeIpv6Literal(r)
    BY <2>4, <2>6, <2>7 DEF NormalizeIpv6Literal
  <2> QED  BY <1>1, <2>3, <2>8
<1>8. CASE ~StartsWith(t, "[")
  <2>1. PICK b \in Seq(Character) : b = Bare(t)  BY BareIs
  <2>2. Bare(u) = Lowered(b)
    <3>1. EndsWith(u, ".") <=> EndsWith(t, ".")  BY <1>1, <1>2, LoweredParts
    <3>2. DropLast(u) = Lowered(DropLast(t))  BY <1>1, <1>2, LoweredParts
    <3> QED  BY <1>1, <2>1, <3>1, <3>2 DEF Bare
  <2>3. Len(Lowered(b)) = Len(b) /\ Lowered(Lowered(b)) = Lowered(b)  BY LoweredIs, LoweredTwice
  <2>4. NormalizeDomain(u) = NormalizeDomain(t)  BY <2>1, <2>2, <2>3, DomainDef
  <2>5. Normal(u) = Normal(t)  BY <1>2, <1>4, <1>5, <1>6, <1>8, <2>4 DEF Normal
  <2> QED  BY <1>1, <2>5
<1> QED  BY <1>7, <1>8

(* In capitals, among spaces, with a final dot: the same host.             *)
LEMMA OneSpelling ==
  ASSUME NEW t \in Seq(Character), NormalizeHost(t) # NoHost
  PROVE  /\ NormalizeHost(Lowered(t)) = NormalizeHost(t)
         /\ NormalizeHost(<<" ">> \o t \o <<" ">>) = NormalizeHost(t)
         /\ ~StartsWith(NormalizeHost(t), "[") => NormalizeHost(NormalizeHost(t) \o <<".">>) = NormalizeHost(t)
<1>1. PICK u \in Seq(Character) : u = Trimmed(t)  BY TrimmedTyped
<1>2. NormalizeHost(t) = Normal(u) /\ Normal(u) # NoHost  BY <1>1, NormalDef
<1>3. NormalizeHost(Lowered(t)) = NormalizeHost(t)
  <2>1. Trimmed(Lowered(t)) = Lowered(u)  BY <1>1, TrimmedLowered
  <2>2. NormalizeHost(Lowered(t)) = Normal(Lowered(u))  BY <2>1, NormalDef
  <2> QED  BY <1>2, <2>2, LoweredAlike
<1>4. NormalizeHost(<<" ">> \o t \o <<" ">>) = NormalizeHost(t)
  <2>1. Trimmed(t) # << >>  BY <1>1, <1>2 DEF Normal
  <2>2. Trimmed(<<" ">> \o t \o <<" ">>) = u  BY <1>1, <2>1, TrimmedSpaced
  <2> QED  BY <1>2, <2>2, NormalDef
<1>5. ~StartsWith(NormalizeHost(t), "[") => NormalizeHost(NormalizeHost(t) \o <<".">>) = NormalizeHost(t)
  <2> SUFFICES ASSUME ~StartsWith(NormalizeHost(t), "[")
               PROVE  NormalizeHost(NormalizeHost(t) \o <<".">>) = NormalizeHost(t)  OBVIOUS
  <2>1. Named(NormalizeHost(t))  BY HostForms, BracketedStays
  <2> QED  BY <2>1, NamedDotted
<1> QED  BY <1>3, <1>4, <1>5

LEMMA HostsTyped ==
  ASSUME NEW host \in Hosts
  PROVE  host \in Seq(Character) /\ NormalizeHost(host) = host /\ host # NoHost
<1>1. PICK t \in Text : host = NormalizeHost(t) /\ host # NoHost  BY DEF Hosts
<1>2. t \in Seq(Character)  BY TextAssumption
<1> QED  BY <1>1, <1>2, FinalForm

-----------------------------------------------------------------------------
(***************************************************************************)
(* Decisions: the first rule that matches.                                 *)
(***************************************************************************)

(* Positions are numbers up to a bound, and no two rules share one.        *)
Placed(rules) ==
  /\ \A row \in rules : row.position \in 0 .. MaxPosition
  /\ \A row, x \in rules : row.position = x.position => row = x

(* Evaluate is decided by the matching rule with the lowest position.      *)
LEMMA FirstDecides ==
  ASSUME NEW rules, Placed(rules), NEW target, NEW profile, Matching(rules, target) # {}
  PROVE  \E row \in Matching(rules, target) :
           /\ \A x \in Matching(rules, target) : row.position <= x.position
           /\ Evaluate(profile, rules, target) = [action |-> row.action, by |-> row.rule]
<1> DEFINE M == Matching(rules, target)
           P == {row.position : row \in M}
<1>1. M \subseteq rules  BY DEF Matching
<1>2. MaxPosition \in Nat  BY LimitAssumption
<1>3. P \in SUBSET (0 .. MaxPosition) /\ P # {}  BY <1>1 DEF Placed
<1>4. Evaluate(profile, rules, target) =
        (LET first == CHOOSE row \in M : \A x \in M : row.position <= x.position
         IN  IF M = {} THEN [action |-> profile, by |-> "default"]
             ELSE [action |-> first.action, by |-> first.rule])
  BY DEF Evaluate
<1>5. M # {}  OBVIOUS
<1>6. \A x \in M : x.position \in P  OBVIOUS
<1>7. PICK p \in P : \A q \in P : p <= q
  <2> HIDE DEF P
  <2> QED  BY <1>2, <1>3, LeastUpTo
<1>8. PICK row \in M : row.position = p  OBVIOUS
<1> HIDE DEF M, P
<1>9. \A x \in M : row.position <= x.position  BY <1>6, <1>7, <1>8
<1> DEFINE first == CHOOSE y \in M : \A x \in M : y.position <= x.position
<1>10. first \in M /\ \A x \in M : first.position <= x.position  BY <1>8, <1>9
<1>11. Evaluate(profile, rules, target) = [action |-> first.action, by |-> first.rule]
  BY <1>4, <1>5
<1> HIDE DEF first
<1> QED  BY <1>10, <1>11 DEF M

(* The row that decides is the only one that comes first, so two sets of   *)
(* rules whose matches begin with the same row decide alike.               *)
LEMMA SameFirst ==
  ASSUME NEW rules, Placed(rules), NEW more, Placed(more), NEW target, NEW profile, NEW other,
         Matching(rules, target) # {}, Matching(rules, target) \subseteq Matching(more, target),
         \A row \in Matching(rules, target), x \in Matching(more, target) \ Matching(rules, target) :
           row.position < x.position
  PROVE  Evaluate(profile, more, target) = Evaluate(other, rules, target)
<1>1. PICK row \in Matching(rules, target) :
        /\ \A x \in Matching(rules, target) : row.position <= x.position
        /\ Evaluate(other, rules, target) = [action |-> row.action, by |-> row.rule]
  BY FirstDecides
<1>2. PICK y \in Matching(more, target) :
        /\ \A x \in Matching(more, target) : y.position <= x.position
        /\ Evaluate(profile, more, target) = [action |-> y.action, by |-> y.rule]
  BY FirstDecides
<1>3. row \in more /\ y \in more /\ row \in rules  BY DEF Matching
<1>4. row.position \in Nat /\ y.position \in Nat  BY <1>3, LimitAssumption DEF Placed
<1>5. y.position <= row.position  BY <1>2
<1>6. row.position <= y.position
  <2>1. CASE y \in Matching(rules, target)  BY <1>1, <2>1
  <2>2. CASE y \notin Matching(rules, target)
    <3>1. row.position < y.position  BY <2>2
    <3> QED  BY <1>4, <3>1
  <2> QED  BY <2>1, <2>2
<1>7. row = y  BY <1>3, <1>4, <1>5, <1>6 DEF Placed
<1> QED  BY <1>1, <1>2, <1>7

LEMMA NobodyMatches ==
  ASSUME NEW rules, NEW target, NEW profile, Matching(rules, target) = {}
  PROVE  Evaluate(profile, rules, target) = [action |-> profile, by |-> "default"]
BY DEF Evaluate

(* The default action plays no part where a rule matches.                  *)
LEMMA DefaultOnlyIfNobody ==
  ASSUME NEW rules, NEW target, NEW profile, NEW other, Matching(rules, target) # {}
  PROVE  Evaluate(profile, rules, target) = Evaluate(other, rules, target)
BY DEF Evaluate

-----------------------------------------------------------------------------
(***************************************************************************)
(* The inductive invariant: the rules are drafts that were accepted, each  *)
(* with a position of its own; and the check under way can still answer    *)
(* with something that was in force.                                       *)
(***************************************************************************)

HostMatcher == [kind : {"exact", "subdomains"}, value : Seq(Character)]
PortMatcher == [kind : {"any", "exactly", "range"}, start : Port, end : Port]

RowType == [rule : Rule, position : Position, action : Action, host : HostMatcher, port : PortMatcher]

RowOK(row) ==
  /\ row \in RowType
  /\ NormalizeHost(row.host.value) = row.host.value
  /\ row.host.kind = "subdomains" => ~IsIpLiteral(row.host.value)
  /\ \E p \in Port : MatchesPort(row.port, p)

RowsInv ==
  /\ \A row \in rows : RowOK(row)
  /\ \A row, x \in rows : row.rule = x.rule => row = x
  /\ Placed(rows)

CheckInv ==
  /\ check.default \in Action
  /\ edits \in {"none", "default", "default then rules", "deleted"}
  /\ default = Gone => rows = {}
  /\ check # Idle /\ default # Gone =>
       /\ edits # "deleted"
       /\ Now(check.target) \in given
       /\ edits # "default then rules" => Evaluate(check.default, rows, check.target) \in given
       /\ edits = "none" => check.default = default
  /\ check # Idle /\ default = Gone => edits = "deleted"

IInv ==
  /\ default \in Action \cup {Gone}
  /\ answer.by \in Rule \cup {"default", "none"}
  /\ RowsInv
  /\ CheckInv

(* A matcher that is accepted holds a normal form, and no address has      *)
(* subdomains.                                                             *)
LEMMA AcceptedMatcher ==
  ASSUME NEW kind \in {"exact", "subdomains"}, NEW text \in Seq(Character),
         Matcher(kind, text) # NoMatcher
  PROVE  LET m == Matcher(kind, text)
         IN  /\ m \in HostMatcher
             /\ NormalizeHost(m.value) = m.value
             /\ m.kind = "subdomains" => ~IsIpLiteral(m.value)
<1>1. NormalizeHost(text) # NoHost /\ ~(kind = "subdomains" /\ IsIpLiteral(NormalizeHost(text)))
      /\ Matcher(kind, text) = [kind |-> kind, value |-> NormalizeHost(text)]
  BY DEF Matcher
<1>2. NormalizeHost(text) \in Seq(Character) /\ NormalizeHost(NormalizeHost(text)) = NormalizeHost(text)
  BY <1>1, FinalForm
<1> QED  BY <1>1, <1>2 DEF HostMatcher

(* A port specification that is accepted is satisfied by some port.        *)
LEMMA AcceptedSpec ==
  ASSUME NEW kind \in {"any", "exactly", "range"}, NEW start \in Port, NEW end \in Port,
         PortSpec(kind, start, end) # NoSpec
  PROVE  LET spec == PortSpec(kind, start, end)
         IN  spec \in PortMatcher /\ \E p \in Port : MatchesPort(spec, p)
<1>1. MaxPort \in Nat /\ MaxPort # 0  BY LimitAssumption
<1>2. start \in Nat /\ end \in Nat /\ start <= MaxPort  BY <1>1 DEF Port
<1>3. CASE kind = "any"
  <2>1. PortSpec(kind, start, end) = [kind |-> "any", start |-> 0, end |-> 0]  BY <1>3 DEF PortSpec
  <2>2. 1 \in Port /\ 1 > 0  BY <1>1 DEF Port
  <2>3. MatchesPort([kind |-> "any", start |-> 0, end |-> 0], 1)  BY <2>2 DEF MatchesPort
  <2>4. 0 \in Port  BY <1>1 DEF Port
  <2> QED  BY <2>1, <2>2, <2>3, <2>4 DEF PortMatcher
<1>4. CASE kind = "exactly"
  <2>1. PortSpec(kind, start, end) = [kind |-> "exactly", start |-> start, end |-> 0]
    BY <1>4 DEF PortSpec
  <2>2. MatchesPort([kind |-> "exactly", start |-> start, end |-> 0], start)  BY DEF MatchesPort
  <2>3. 0 \in Port  BY <1>1 DEF Port
  <2> QED  BY <2>1, <2>2, <2>3 DEF PortMatcher
<1>5. CASE kind = "range"
  <2>1. start <= end /\ PortSpec(kind, start, end) = [kind |-> "range", start |-> start, end |-> end]
    BY <1>5 DEF PortSpec
  <2>2. start \in start .. end  BY <1>2, <2>1
  <2>3. MatchesPort([kind |-> "range", start |-> start, end |-> end], start)  BY <2>2 DEF MatchesPort
  <2> QED  BY <2>1, <2>3 DEF PortMatcher
<1> QED  BY <1>3, <1>4, <1>5

(* A draft that is accepted is a row as RowOK wants it.                    *)
LEMMA DraftIsOK ==
  ASSUME NEW rule \in Rule, NEW position \in Position, NEW action \in Action, NEW x \in RuleInput,
         Accepted(Draft(rule, position, action, x))
  PROVE  /\ RowOK(Draft(rule, position, action, x))
         /\ Draft(rule, position, action, x).rule = rule
         /\ Draft(rule, position, action, x).position = position
<1>1. Matcher(x.kind, x.text) # NoMatcher /\ PortSpec(x.ports, x.start, x.end) # NoSpec
  BY DEF Accepted, Draft
<1>2. x.kind \in {"exact", "subdomains"} /\ x.text \in Seq(Character)
      /\ x.ports \in {"any", "exactly", "range"} /\ x.start \in Port /\ x.end \in Port
  BY InputAssumption
<1> DEFINE m == Matcher(x.kind, x.text)
           spec == PortSpec(x.ports, x.start, x.end)
<1>3. m \in HostMatcher /\ NormalizeHost(m.value) = m.value
      /\ (m.kind = "subdomains" => ~IsIpLiteral(m.value))
  BY <1>1, <1>2, AcceptedMatcher
<1>4. spec \in PortMatcher /\ \E p \in Port : MatchesPort(spec, p)
  BY <1>1, <1>2, AcceptedSpec
<1>5. Draft(rule, position, action, x) =
        [rule |-> rule, position |-> position, action |-> action, host |-> m, port |-> spec]
  BY DEF Draft
<1> HIDE DEF m, spec
<1> QED  BY <1>3, <1>4, <1>5 DEF RowOK, RowType

(* The next position is after every other.                                 *)
LEMMA NextIsLast ==
  ASSUME RowsInv
  PROVE  \A row \in rows : row.position < NextPosition
<1> DEFINE P == {row.position : row \in rows}
           Fits(p) == (\A row \in rows : row.position < p)
                      /\ (p = 0 \/ \E row \in rows : row.position = p - 1)
<1>1. MaxPosition \in Nat  BY LimitAssumption
<1>2. \A row \in rows : row.position \in 0 .. MaxPosition  BY DEF RowsInv, Placed
<1>3. \E p \in 0 .. MaxPosition + 1 : Fits(p)
  <2>1. CASE rows = {}
    <3>1. Fits(0)  BY <2>1
    <3>2. 0 \in 0 .. MaxPosition + 1  BY <1>1
    <3> QED  BY <3>1, <3>2
  <2>2. CASE rows # {}
    <3>1. P \in SUBSET (0 .. MaxPosition) /\ P # {}  BY <1>2, <2>2
    <3>2. \A row \in rows : row.position \in P  OBVIOUS
    <3>3. PICK m \in P : \A k \in P : m >= k
      <4> HIDE DEF P
      <4> QED  BY <1>1, <3>1, GreatestUpTo
    <3>4. PICK row \in rows : row.position = m  OBVIOUS
    <3> HIDE DEF P
    <3>5. m \in 0 .. MaxPosition  BY <3>1
    <3>6. m + 1 \in 0 .. MaxPosition + 1 /\ (m + 1) - 1 = m  BY <1>1, <3>5
    <3>7. \A x \in rows : x.position < m + 1  BY <1>1, <1>2, <3>2, <3>3, <3>5
    <3>8. Fits(m + 1)  BY <3>4, <3>6, <3>7
    <3> QED  BY <3>6, <3>8
  <2> QED  BY <2>1, <2>2
<1>4. NextPosition = CHOOSE p \in 0 .. MaxPosition + 1 : Fits(p)  BY DEF NextPosition
<1> HIDE DEF Fits
<1>5. Fits(NextPosition)  BY <1>3, <1>4
<1> QED  BY <1>5 DEF Fits

-----------------------------------------------------------------------------
(***************************************************************************)
(* Writes to the rules keep them accepted and placed.                      *)
(***************************************************************************)

LEMMA AddKeeps ==
  ASSUME RowsInv, NEW rule \in Rule, NEW action \in Action, NEW x \in RuleInput,
         AddRule(rule, action, x)
  PROVE  RowsInv'
<1> DEFINE row == Draft(rule, NextPosition, action, x)
<1>1. /\ \A y \in rows : y.rule # rule
      /\ NextPosition \in Position
      /\ Accepted(row)
      /\ rows' = rows \cup {row}
  BY DEF AddRule
<1>2. RowOK(row) /\ row.rule = rule /\ row.position = NextPosition  BY <1>1, DraftIsOK
<1>3. \A y \in rows : y.position < NextPosition  BY NextIsLast
<1>4. NextPosition \in 0 .. MaxPosition /\ MaxPosition \in Nat  BY <1>1, LimitAssumption DEF Position
<1> HIDE DEF row
<1>5. \A y \in rows' : RowOK(y)  BY <1>1, <1>2 DEF RowsInv
<1>6. \A y, z \in rows' : y.rule = z.rule => y = z  BY <1>1, <1>2 DEF RowsInv
<1>7. Placed(rows')
  <2>1. \A y \in rows : y.position \in 0 .. MaxPosition /\ y.position # NextPosition
    <3>1. \A y \in rows : y.position \in 0 .. MaxPosition  BY DEF RowsInv, Placed
    <3> QED  BY <1>3, <1>4, <3>1
  <2>2. \A y, z \in rows : y.position = z.position => y = z  BY DEF RowsInv, Placed
  <2> QED  BY <1>1, <1>2, <1>4, <2>1, <2>2 DEF Placed
<1> QED  BY <1>5, <1>6, <1>7 DEF RowsInv

LEMMA UpdateKeeps ==
  ASSUME RowsInv, NEW old \in rows, NEW action \in Action, NEW x \in RuleInput,
         UpdateRule(old, action, x)
  PROVE  RowsInv'
<1> DEFINE row == Draft(old.rule, old.position, action, x)
<1>1. Accepted(row) /\ rows' = (rows \ {old}) \cup {row}  BY DEF UpdateRule
<1>2. old.rule \in Rule /\ old.position \in Position  BY DEF RowsInv, RowOK, RowType
<1>3. RowOK(row) /\ row.rule = old.rule /\ row.position = old.position  BY <1>1, <1>2, DraftIsOK
<1> HIDE DEF row
<1>4. \A y \in rows' : RowOK(y)  BY <1>1, <1>3 DEF RowsInv
<1>5. \A y, z \in rows' : y.rule = z.rule => y = z  BY <1>1, <1>3 DEF RowsInv
<1>6. Placed(rows')  BY <1>1, <1>3 DEF RowsInv, Placed
<1> QED  BY <1>4, <1>5, <1>6 DEF RowsInv

LEMMA DeleteKeeps ==
  ASSUME RowsInv, NEW old \in rows, DeleteRule(old)
  PROVE  RowsInv'
<1>1. rows' = rows \ {old}  BY DEF DeleteRule
<1>2. \A y \in rows' : RowOK(y)  BY <1>1 DEF RowsInv
<1>3. \A y, z \in rows' : y.rule = z.rule => y = z  BY <1>1 DEF RowsInv
<1>4. Placed(rows')  BY <1>1 DEF RowsInv, Placed
<1> QED  BY <1>2, <1>3, <1>4 DEF RowsInv

(* There are no more rules than positions.                                 *)
LEMMA RoomForRules ==
  ASSUME RowsInv
  PROVE  LET ids == {row.rule : row \in rows}
         IN  Cardinality(ids) \in Nat /\ Cardinality(ids) - 1 <= MaxPosition
<1> DEFINE ids == {row.rule : row \in rows}
           RowOf(i) == CHOOSE row \in rows : row.rule = i
           f == [i \in ids |-> RowOf(i).position]
<1>1. MaxPosition \in Nat  BY LimitAssumption
<1>2. \A i \in ids : RowOf(i) \in rows /\ RowOf(i).rule = i  OBVIOUS
<1> HIDE DEF RowOf
<1>3. f \in [ids -> 0 .. MaxPosition]  BY <1>2 DEF RowsInv, Placed
<1>4. \A i, j \in ids : f[i] = f[j] => i = j
  <2> SUFFICES ASSUME NEW i \in ids, NEW j \in ids, f[i] = f[j] PROVE i = j  OBVIOUS
  <2>1. RowOf(i).position = RowOf(j).position  OBVIOUS
  <2>2. RowOf(i) = RowOf(j)  BY <1>2, <2>1 DEF RowsInv, Placed
  <2> QED  BY <1>2, <2>2
<1> HIDE DEF f, ids
<1>5. f \in Injection(ids, 0 .. MaxPosition)  BY <1>3, <1>4 DEF Injection, IsInjective
<1>6. IsFiniteSet(0 .. MaxPosition) /\ Cardinality(0 .. MaxPosition) = MaxPosition + 1
  BY <1>1, FS_Interval
<1>7. IsFiniteSet(ids) /\ Cardinality(ids) <= MaxPosition + 1  BY <1>5, <1>6, FS_Injection
<1>8. Cardinality(ids) \in Nat  BY <1>7, FS_CardinalityType
<1>9. Cardinality(ids) - 1 <= MaxPosition  BY <1>1, <1>7, <1>8
<1> QED  BY <1>8, <1>9 DEF ids

LEMMA MovedRow ==
  ASSUME NEW row, RowOK(row), NEW p \in Position
  PROVE  LET moved == [row EXCEPT !.position = p]
         IN  RowOK(moved) /\ moved.rule = row.rule /\ moved.position = p
<1> DEFINE moved == [row EXCEPT !.position = p]
<1>1. row \in RowType  BY DEF RowOK
<1>2. moved \in RowType /\ moved.rule = row.rule /\ moved.position = p
      /\ moved.host = row.host /\ moved.port = row.port
  BY <1>1 DEF RowType
<1> HIDE DEF moved
<1>3. RowOK(moved)  BY <1>2 DEF RowOK
<1> QED  BY <1>2, <1>3 DEF moved

LEMMA ReorderKeeps ==
  ASSUME RowsInv, NEW place \in Orders, ReorderRules(place)
  PROVE  RowsInv'
<1> DEFINE ids == {row.rule : row \in rows}
           Moved(row) == [row EXCEPT !.position = place[row.rule]]
<1>1. place \in [ids -> 0 .. Cardinality(ids) - 1] /\ \A i, j \in ids : place[i] = place[j] => i = j
  BY DEF Orders
<1>2. rows' = {Moved(row) : row \in rows}  BY DEF ReorderRules
<1>3. \A row \in rows : row.rule \in ids  OBVIOUS
<1>4. Cardinality(ids) \in Nat /\ Cardinality(ids) - 1 <= MaxPosition /\ MaxPosition \in Nat
  BY RoomForRules, LimitAssumption
<1> HIDE DEF ids
<1>5. \A row \in rows : place[row.rule] \in Position  BY <1>1, <1>3, <1>4 DEF Position
<1>6. \A row \in rows : RowOK(Moved(row)) /\ Moved(row).rule = row.rule
                          /\ Moved(row).position = place[row.rule]
  BY <1>5, MovedRow DEF RowsInv
<1> HIDE DEF Moved
<1>7. \A y \in rows' : RowOK(y)  BY <1>2, <1>6
<1>8. \A y, z \in rows' : y.rule = z.rule => y = z
  <2> SUFFICES ASSUME NEW a \in rows, NEW b \in rows, Moved(a).rule = Moved(b).rule
               PROVE  Moved(a) = Moved(b)
    BY <1>2
  <2>1. a = b  BY <1>6 DEF RowsInv
  <2> QED  BY <2>1
<1>9. \A y, z \in rows' : y.position = z.position => y = z
  <2> SUFFICES ASSUME NEW a \in rows, NEW b \in rows, Moved(a).position = Moved(b).position
               PROVE  Moved(a) = Moved(b)
    BY <1>2
  <2>1. a.rule = b.rule  BY <1>1, <1>3, <1>6
  <2>2. a = b  BY <2>1 DEF RowsInv
  <2> QED  BY <2>2
<1>10. \A y \in rows' : y.position \in 0 .. MaxPosition  BY <1>2, <1>5, <1>6 DEF Position
<1>11. Placed(rows')  BY <1>9, <1>10 DEF Placed
<1> QED  BY <1>7, <1>8, <1>11 DEF RowsInv

-----------------------------------------------------------------------------
(***************************************************************************)
(* What a write does to a check under way.                                 *)
(***************************************************************************)

LEMMA AfterDefault ==
  ASSUME IInv, NEW action \in Action, SetDefault(action)
  PROVE  CheckInv'
<1>1. default' = action /\ rows' = rows /\ check' = check /\ default # Gone /\ default' # Gone
  BY DEF SetDefault, Action, Gone
<1>2. Written("default", action, rows)  BY DEF SetDefault
<1>3. CheckInv  BY DEF IInv
<1>4. CASE check = Idle
  <2>1. edits' = edits /\ check' = Idle  BY <1>1, <1>2, <1>4 DEF Written
  <2>2. Idle' = Idle  BY DEF Idle, NoTarget, NoHost
  <2> QED  BY <1>1, <1>3, <2>1, <2>2 DEF CheckInv
<1>5. CASE check # Idle
  <2>1. given' = given \cup {Evaluate(action, rows, check.target)}
        /\ edits' = (IF edits = "none" THEN "default" ELSE edits)
    BY <1>2, <1>5 DEF Written
  <2>2. edits' \in {"none", "default", "default then rules"} /\ edits' # "none"
        /\ (edits' # "default then rules" => edits # "default then rules")
    BY <1>1, <1>3, <1>5, <2>1 DEF CheckInv
  <2>3. Evaluate(default', rows', check'.target) \in given'  BY <1>1, <2>1
  <2>4. edits' # "default then rules" => Evaluate(check'.default, rows', check'.target) \in given'
    BY <1>1, <1>3, <1>5, <2>1, <2>2 DEF CheckInv
  <2>5. check'.default \in Action  BY <1>1, <1>3 DEF CheckInv
  <2> QED  BY <1>1, <2>2, <2>3, <2>4, <2>5 DEF CheckInv, Now
<1> QED  BY <1>4, <1>5

(* A write to the rules, whichever.                                        *)
LEMMA AfterRules ==
  ASSUME IInv, Written("rules", default, rows'), UNCHANGED <<default, check>>, default # Gone
  PROVE  CheckInv'
<1>1. CheckInv  BY DEF IInv
<1>2. CASE check = Idle
  <2>1. edits' = edits /\ check' = Idle  BY <1>2 DEF Written
  <2>2. Idle' = Idle  BY DEF Idle, NoTarget, NoHost
  <2> QED  BY <1>1, <2>1, <2>2 DEF CheckInv
<1>3. CASE check # Idle
  <2>1. given' = given \cup {Evaluate(default, rows', check.target)}
        /\ edits' = (IF edits = "default" THEN "default then rules" ELSE edits)
    BY <1>3 DEF Written
  <2>2. edits' \in {"none", "default", "default then rules"}
        /\ (edits' # "default then rules" => edits' = "none")
        /\ (edits' = "none" => edits = "none")
    BY <1>1, <1>3, <2>1 DEF CheckInv
  <2>3. edits' = "none" => check.default = default  BY <1>1, <1>3, <2>2 DEF CheckInv
  <2>4. Evaluate(default', rows', check'.target) \in given'  BY <2>1
  <2>5. edits' # "default then rules" => Evaluate(check'.default, rows', check'.target) \in given'
    BY <2>1, <2>2, <2>3
  <2>6. check'.default \in Action  BY <1>1 DEF CheckInv
  <2> QED  BY <2>2, <2>3, <2>4, <2>5, <2>6 DEF CheckInv, Now
<1> QED  BY <1>2, <1>3

(* A deletion of the profile, and of its rules. *)
LEMMA AfterDeletion ==
  ASSUME IInv, DeleteProfile
  PROVE  CheckInv'
<1>1. /\ default' = Gone /\ rows' = {} /\ check' = check
      /\ edits' = IF check = Idle THEN edits ELSE "deleted"
  BY DEF DeleteProfile
<1>2. CheckInv /\ Idle' = Idle  BY DEF IInv, Idle, NoTarget, NoHost
<1> QED  BY <1>1, <1>2 DEF CheckInv

LEMMA AfterAsk ==
  ASSUME IInv, NEW text, NEW port, Ask(text, port)
  PROVE  CheckInv'
<1>1. check' = [target |-> Target(text, port), default |-> default]
      /\ given' = {Now(Target(text, port))} /\ edits' = "none" /\ default' = default /\ rows' = rows
  BY DEF Ask
<1>2. check'.target = Target(text, port) /\ check'.default = default  BY <1>1
<1>3. Evaluate(default', rows', check'.target) \in given'  BY <1>1, <1>2 DEF Now
<1>4. Evaluate(check'.default, rows', check'.target) \in given'  BY <1>1, <1>2 DEF Now
<1>5. check'.default \in Action /\ default # Gone  BY <1>2 DEF IInv, Ask
<1> QED  BY <1>1, <1>2, <1>3, <1>4, <1>5 DEF CheckInv, Now

LEMMA AfterAnswer ==
  ASSUME IInv, Answer
  PROVE  CheckInv' /\ answer'.by \in Rule \cup {"default", "none"}
<1>1. answer' = Evaluate(check.default, rows, check.target) /\ check' = Idle /\ edits' = "none"
      /\ default' = default /\ rows' = rows
  BY DEF Answer
<1>2. Idle' = Idle /\ Idle.default \in Action  BY DEF Idle, NoTarget, NoHost, Action
<1>3. CheckInv'  BY <1>1, <1>2 DEF CheckInv, IInv
<1>4. answer'.by \in Rule \cup {"default", "none"}
  <2>1. CASE Matching(rows, check.target) = {}  BY <1>1, <2>1, NobodyMatches
  <2>2. CASE Matching(rows, check.target) # {}
    <3>1. PICK row \in Matching(rows, check.target) :
            Evaluate(check.default, rows, check.target) = [action |-> row.action, by |-> row.rule]
      BY <2>2, FirstDecides DEF IInv, RowsInv
    <3>2. row.rule \in Rule  BY DEF Matching, IInv, RowsInv, RowOK, RowType
    <3> QED  BY <1>1, <3>1, <3>2
  <2> QED  BY <2>1, <2>2
<1> QED  BY <1>3, <1>4

LEMMA InitInv == Init => IInv
<1> SUFFICES ASSUME Init PROVE IInv  OBVIOUS
<1>1. default = "deny" /\ rows = {} /\ check = Idle /\ answer.by = "none" /\ edits = "none"
  BY DEF Init, NoAnswer
<1>2. RowsInv  BY <1>1 DEF RowsInv, Placed
<1>3. CheckInv  BY <1>1 DEF CheckInv, Idle, Action, Gone
<1> QED  BY <1>1, <1>2, <1>3 DEF IInv, Action

LEMMA StepInv == IInv /\ [Next]_vars => IInv'
<1> SUFFICES ASSUME IInv, [Next]_vars PROVE IInv'  OBVIOUS
<1>1. /\ default \in Action \cup {Gone} /\ answer.by \in Rule \cup {"default", "none"}
      /\ RowsInv /\ CheckInv /\ (default = Gone => rows = {})
  BY DEF IInv, CheckInv
<1>2. ASSUME NEW action \in Action, SetDefault(action) PROVE IInv'
  <2>1. default' = action /\ rows' = rows /\ answer' = answer  BY <1>2 DEF SetDefault
  <2>2. CheckInv'  BY <1>2, AfterDefault
  <2>3. RowsInv'  BY <1>1, <2>1 DEF RowsInv
  <2> QED  BY <1>1, <2>1, <2>2, <2>3 DEF IInv
<1>3. ASSUME NEW rule \in Rule, NEW action \in Action, NEW x \in RuleInput, AddRule(rule, action, x)
      PROVE  IInv'
  <2>1. Written("rules", default, rows') /\ UNCHANGED <<default, check, answer>> /\ default # Gone
    BY <1>3 DEF AddRule
  <2>2. CheckInv'  BY <2>1, AfterRules
  <2>3. RowsInv'  BY <1>1, <1>3, AddKeeps
  <2> QED  BY <1>1, <2>1, <2>2, <2>3 DEF IInv
<1>4. ASSUME NEW old \in rows, NEW action \in Action, NEW x \in RuleInput, UpdateRule(old, action, x)
      PROVE  IInv'
  <2>1. Written("rules", default, rows') /\ UNCHANGED <<default, check, answer>> /\ default # Gone
    BY <1>1, <1>4 DEF UpdateRule
  <2>2. CheckInv'  BY <2>1, AfterRules
  <2>3. RowsInv'  BY <1>1, <1>4, UpdateKeeps
  <2> QED  BY <1>1, <2>1, <2>2, <2>3 DEF IInv
<1>5. ASSUME NEW old \in rows, DeleteRule(old) PROVE IInv'
  <2>1. Written("rules", default, rows') /\ UNCHANGED <<default, check, answer>> /\ default # Gone
    BY <1>1, <1>5 DEF DeleteRule
  <2>2. CheckInv'  BY <2>1, AfterRules
  <2>3. RowsInv'  BY <1>1, <1>5, DeleteKeeps
  <2> QED  BY <1>1, <2>1, <2>2, <2>3 DEF IInv
<1>6. ASSUME NEW place \in Orders, ReorderRules(place) PROVE IInv'
  <2>1. Written("rules", default, rows') /\ UNCHANGED <<default, check, answer>> /\ default # Gone
    BY <1>6 DEF ReorderRules
  <2>2. CheckInv'  BY <2>1, AfterRules
  <2>3. RowsInv'  BY <1>1, <1>6, ReorderKeeps
  <2> QED  BY <1>1, <2>1, <2>2, <2>3 DEF IInv
<1>7. ASSUME NEW x \in CheckInput, Ask(x.text, x.port) PROVE IInv'
  <2>1. CheckInv'  BY <1>7, AfterAsk
  <2>2. answer' = NoAnswer /\ default' = default /\ rows' = rows  BY <1>7 DEF Ask
  <2>3. answer'.by \in Rule \cup {"default", "none"}  BY <2>2 DEF NoAnswer
  <2>4. RowsInv'  BY <1>1, <2>2 DEF RowsInv
  <2> QED  BY <1>1, <2>1, <2>2, <2>3, <2>4 DEF IInv
<1>8. ASSUME Answer PROVE IInv'
  <2>1. CheckInv' /\ answer'.by \in Rule \cup {"default", "none"}  BY <1>8, AfterAnswer
  <2>2. default' = default /\ rows' = rows  BY <1>8 DEF Answer
  <2>3. RowsInv'  BY <1>1, <2>2 DEF RowsInv
  <2> QED  BY <1>1, <2>1, <2>2, <2>3 DEF IInv
<1>10. ASSUME DeleteProfile PROVE IInv'
  <2>1. CheckInv'  BY <1>10, AfterDeletion
  <2>2. default' = Gone /\ rows' = {} /\ answer' = answer  BY <1>10 DEF DeleteProfile
  <2>3. RowsInv'  BY <2>2 DEF RowsInv, Placed
  <2> QED  BY <1>1, <2>1, <2>2, <2>3 DEF IInv
<1>11. ASSUME AskInVain PROVE IInv'
  <2>1. answer' = NoAnswer /\ UNCHANGED <<default, rows, check, edits, given>>  BY <1>11 DEF AskInVain
  <2>2. RowsInv'  BY <1>1, <2>1 DEF RowsInv
  <2>3. CheckInv'  BY <1>1, <2>1 DEF CheckInv, Now, Idle, NoTarget, NoHost
  <2> QED  BY <1>1, <2>1, <2>2, <2>3 DEF IInv, NoAnswer
<1>9. ASSUME UNCHANGED vars PROVE IInv'
  <2>1. default' = default /\ rows' = rows /\ check' = check /\ answer' = answer
        /\ given' = given /\ edits' = edits
    BY <1>9 DEF vars
  <2>2. RowsInv'  BY <1>1, <2>1 DEF RowsInv
  <2>3. CheckInv'  BY <1>1, <2>1 DEF CheckInv, Now, Idle, NoTarget, NoHost
  <2> QED  BY <1>1, <2>1, <2>2, <2>3 DEF IInv
<1> QED  BY <1>2, <1>3, <1>4, <1>5, <1>6, <1>7, <1>8, <1>9, <1>10, <1>11 DEF Next

(* The invariant holds in every reachable state.                           *)
THEOREM Inductive == Spec => []IInv
<1> QED  BY InitInv, StepInv, PTL DEF Spec

(* Every stored rule is well formed, has a position of its own, and some   *)
(* port satisfies it; what a check reports was decided by a rule or by the *)
(* default action.                                                         *)
THEOREM DecisionTyped == Spec => []TypeOK
<1>1. IInv => TypeOK
  <2> SUFFICES ASSUME IInv PROVE TypeOK  OBVIOUS
  <2>1. \A row \in rows : /\ row.rule \in Rule /\ row.position \in Position
                          /\ row.action \in Action
                          /\ row.host.kind \in {"exact", "subdomains"}
                          /\ row.port.kind \in {"any", "exactly", "range"}
                          /\ \E p \in Port : MatchesPort(row.port, p)
    BY DEF IInv, RowsInv, RowOK, RowType, HostMatcher, PortMatcher
  <2> QED  BY <2>1 DEF TypeOK, IInv, CheckInv
<1> QED  BY <1>1, Inductive, PTL

(* Capitals, a final dot and spaces around it make no difference to which  *)
(* host a text is, and a stored host is read back as it was written, for   *)
(* texts of any length.                                                    *)
THEOREM SpellingIsOne == Spec => []WrittenFormsAgree
<1>1. FinalForms  BY HostsTyped DEF FinalForms
<1>2. Spellings
  <2> SUFFICES ASSUME NEW t \in Text, NormalizeHost(t) # NoHost
               PROVE  /\ NormalizeHost(Lowered(t)) = NormalizeHost(t)
                      /\ NormalizeHost(<<" ">> \o t \o <<" ">>) = NormalizeHost(t)
                      /\ ~StartsWith(NormalizeHost(t), "[") => NormalizeHost(NormalizeHost(t) \o <<".">>) = NormalizeHost(t)
    BY DEF Spellings
  <2>1. t \in Seq(Character)  BY TextAssumption
  <2> QED  BY <2>1, OneSpelling
<1>3. IInv => WrittenFormsAgree  BY <1>1, <1>2 DEF WrittenFormsAgree, IInv, RowsInv, RowOK
<1> QED  BY <1>3, Inductive, PTL

(* A check that is answered between edits gives an answer that was in      *)
(* force, except for the default action after the two orders of edits the  *)
(* property names.                                                         *)
THEOREM ChecksAreAnswered == Spec => AnswerWasInForce
<1>1. IInv /\ [Next]_vars =>
        [(check # Idle /\ check' = Idle) =>
           \/ answer' \in given
           \/ /\ edits \in {"default then rules", "deleted"}
              /\ answer' = [action |-> check.default, by |-> "default"]]_vars
  <2> SUFFICES ASSUME IInv, Next, check # Idle, check' = Idle
               PROVE  \/ answer' \in given
                      \/ /\ edits \in {"default then rules", "deleted"}
                         /\ answer' = [action |-> check.default, by |-> "default"]
    OBVIOUS
  <2>1. Answer
    BY DEF Next, SetDefault, AddRule, UpdateRule, DeleteRule, ReorderRules, DeleteProfile, Ask, AskInVain
  <2>2. answer' = Evaluate(check.default, rows, check.target)  BY <2>1 DEF Answer
  <2>3. default # Gone =>
          /\ Evaluate(default, rows, check.target) \in given
          /\ edits # "default then rules" => Evaluate(check.default, rows, check.target) \in given
    BY DEF IInv, CheckInv, Now
  <2>4. CASE default # Gone /\ edits # "default then rules"  BY <2>2, <2>3, <2>4
  <2>5. CASE default # Gone /\ edits = "default then rules"
    <3>1. CASE Matching(rows, check.target) = {}
      BY <2>2, <2>5, <3>1, NobodyMatches
    <3>2. CASE Matching(rows, check.target) # {}
      BY <2>2, <2>3, <2>5, <3>2, DefaultOnlyIfNobody
    <3> QED  BY <3>1, <3>2
  <2>6. CASE default = Gone
    <3>1. rows = {} /\ edits = "deleted"  BY <2>6 DEF IInv, CheckInv
    <3>2. Matching(rows, check.target) = {}  BY <3>1 DEF Matching
    <3> QED  BY <2>2, <3>1, <3>2, NobodyMatches
  <2> QED  BY <2>4, <2>5, <2>6
<1> QED  BY <1>1, Inductive, PTL DEF Spec, AnswerWasInForce

-----------------------------------------------------------------------------
(***************************************************************************)
(* A rule that is added comes last.                                        *)
(***************************************************************************)

LEMMA SomebodyMatches ==
  ASSUME NEW rules, NEW target, NEW profile, Evaluate(profile, rules, target).by # "default"
  PROVE  Matching(rules, target) # {}
<1> SUFFICES ASSUME Matching(rules, target) = {} PROVE FALSE  OBVIOUS
<1>1. Evaluate(profile, rules, target) = [action |-> profile, by |-> "default"]  BY NobodyMatches
<1> QED  BY <1>1

(* A rule that was added is not the first match of what matched before.    *)
LEMMA AddedIsLast ==
  ASSUME IInv, NEW rule \in Rule, NEW action \in Action, NEW x \in RuleInput,
         AddRule(rule, action, x), NEW target, Matching(rows, target) # {}
  PROVE  Evaluate(default, rows', target) = Evaluate(default, rows, target)
<1> DEFINE row == Draft(rule, NextPosition, action, x)
<1>1. NextPosition \in Position /\ Accepted(row) /\ rows' = rows \cup {row}  BY DEF AddRule
<1>2. row.position = NextPosition  BY <1>1, DraftIsOK
<1>3. \A y \in rows : y.position < NextPosition  BY NextIsLast DEF IInv
<1>4. Placed(rows) /\ Placed(rows')  BY AddKeeps DEF IInv, RowsInv
<1> HIDE DEF row
<1>5. Matching(rows, target) \subseteq Matching(rows', target)  BY <1>1 DEF Matching
<1>6. \A y \in Matching(rows, target), z \in Matching(rows', target) \ Matching(rows, target) :
        y.position < z.position
  <2> SUFFICES ASSUME NEW y \in Matching(rows, target), NEW z \in Matching(rows', target) \ Matching(rows, target)
               PROVE  y.position < z.position
    OBVIOUS
  <2>1. y \in rows /\ z = row  BY <1>1 DEF Matching
  <2> QED  BY <1>2, <1>3, <2>1
<1> QED  BY <1>4, <1>5, <1>6, SameFirst

(* Writes that keep every rule as it is keep the rules.                    *)
LEMMA KeptAreTheSame ==
  ASSUME IInv, rows \subseteq rows',
         \/ \E old \in rows, action \in Action, x \in RuleInput : UpdateRule(old, action, x)
         \/ \E old \in rows : DeleteRule(old)
         \/ \E place \in Orders : ReorderRules(place)
  PROVE  rows' = rows
<1>1. ASSUME NEW old \in rows, NEW action \in Action, NEW x \in RuleInput, UpdateRule(old, action, x)
      PROVE  rows' = rows
  <2>1. PICK row : rows' = (rows \ {old}) \cup {row}  BY <1>1 DEF UpdateRule
  <2>2. old = row  BY <2>1
  <2> QED  BY <2>1, <2>2
<1>2. ASSUME NEW old \in rows, DeleteRule(old) PROVE rows' = rows
  BY <1>2 DEF DeleteRule
<1>3. ASSUME NEW place \in Orders, ReorderRules(place) PROVE rows' = rows
  <2> DEFINE Moved(row) == [row EXCEPT !.position = place[row.rule]]
  <2>1. rows' = {Moved(row) : row \in rows}  BY <1>3 DEF ReorderRules
  <2>2. \A row \in rows : Moved(row).rule = row.rule
    BY DEF IInv, RowsInv, RowOK, RowType
  <2> HIDE DEF Moved
  <2>3. \A row, y \in rows : row.rule = y.rule => row = y  BY DEF IInv, RowsInv
  <2>4. \A row \in rows : Moved(row) = row
    <3> SUFFICES ASSUME NEW row \in rows PROVE Moved(row) = row  OBVIOUS
    <3>1. PICK y \in rows : row = Moved(y)  BY <2>1
    <3>2. y = row  BY <2>2, <2>3, <3>1
    <3> QED  BY <3>1, <3>2
  <2> QED  BY <2>1, <2>4
<1> QED  BY <1>1, <1>2, <1>3

(* A rule that is added decides only what was left to the default action.  *)
THEOREM AddedIsLastToDecide == Spec => AddedRuleComesLast
<1>1. ASSUME IInv, [Next]_vars, NEW target \in Targets, rows \subseteq rows', Now(target).by # "default"
      PROVE  Evaluate(default', rows', target) = Evaluate(default, rows, target)
  <2>1. Matching(rows, target) # {}  BY <1>1, SomebodyMatches DEF Now
  <2>2. ASSUME rows' = rows
        PROVE  Evaluate(default', rows', target) = Evaluate(default, rows, target)
    BY <2>1, <2>2, DefaultOnlyIfNobody
  <2>3. ASSUME NEW rule \in Rule, NEW action \in Action, NEW x \in RuleInput, AddRule(rule, action, x)
        PROVE  Evaluate(default', rows', target) = Evaluate(default, rows, target)
    <3>1. default' = default  BY <2>3 DEF AddRule
    <3> QED  BY <1>1, <2>1, <2>3, <3>1, AddedIsLast
  <2>4. ASSUME \/ \E old \in rows, action \in Action, x \in RuleInput : UpdateRule(old, action, x)
               \/ \E old \in rows : DeleteRule(old)
               \/ \E place \in Orders : ReorderRules(place)
        PROVE  rows' = rows
    BY <1>1, <2>4, KeptAreTheSame
  <2>5. ASSUME \/ \E action \in Action : SetDefault(action)
               \/ \E x \in CheckInput : Ask(x.text, x.port)
               \/ AskInVain \/ Answer \/ UNCHANGED vars
        PROVE  rows' = rows
    BY <2>5 DEF SetDefault, Ask, AskInVain, Answer, vars
  <2>6. ASSUME DeleteProfile PROVE rows' = rows
    BY <1>1, <2>6 DEF DeleteProfile
  <2> QED  BY <1>1, <2>2, <2>3, <2>4, <2>5, <2>6 DEF Next
<1>2. IInv /\ [Next]_vars =>
        [\A target \in Targets :
           (/\ {row.rule : row \in rows} \subseteq {row.rule : row \in rows'}
            /\ rows \subseteq rows'
            /\ Now(target).by # "default")
           => Now(target)' = Now(target)]_vars
  BY <1>1 DEF Now
<1> QED  BY <1>2, Inductive, PTL DEF Spec, AddedRuleComesLast

-----------------------------------------------------------------------------
(***************************************************************************)
(* The tree of names: labels are counted from the top level down.          *)
(***************************************************************************)

Cuts(t) == Dots(t) \cup {0}
Rank(t, i) == Cardinality({j \in Cuts(t) : j > i})
Nth(t, n) == CHOOSE i \in Cuts(t) : Rank(t, i) = n - 1

(* The path of labels, by the numbers of the cuts between them.            *)
LEMMA PathIs ==
  ASSUME NEW t
  PROVE  LabelPath(t) = [n \in 1 .. Cardinality(Cuts(t)) |-> LabelFrom(t, Nth(t, n))]
BY DEF LabelPath, Nth, Rank, Cuts

(* There are finitely many cuts, and the start of the text is one.         *)
LEMMA CutsAre ==
  ASSUME NEW t \in Seq(Character)
  PROVE  /\ Cuts(t) \subseteq 0 .. Len(t) /\ 0 \in Cuts(t)
         /\ \A i \in Cuts(t) : i # 0 => i \in Dots(t)
         /\ Dots(t) \subseteq Cuts(t) /\ Dots(t) \subseteq 1 .. Len(t)
         /\ IsFiniteSet(Cuts(t)) /\ Cardinality(Cuts(t)) \in Nat /\ Cardinality(Cuts(t)) # 0
<1>1. PICK n \in Nat : n = Len(t)  OBVIOUS
<1>2. Dots(t) \subseteq 1 .. n  BY <1>1 DEF Dots
<1>3. Cuts(t) \in SUBSET (0 .. n)  BY <1>1, <1>2 DEF Cuts
<1>4. IsFiniteSet(0 .. n)  BY <1>1, FS_Interval
<1>5. IsFiniteSet(Cuts(t))  BY <1>3, <1>4, FS_Subset
<1>6. Cardinality(Cuts(t)) \in Nat  BY <1>5, FS_CardinalityType
<1>7. 0 \in Cuts(t)  BY DEF Cuts
<1>8. Cardinality(Cuts(t)) # 0  BY <1>5, <1>7, FS_EmptySet
<1>9. \A i \in Cuts(t) : i # 0 => i \in Dots(t)  BY DEF Cuts
<1>10. Dots(t) \subseteq Cuts(t)  BY DEF Cuts
<1> QED  BY <1>1, <1>2, <1>3, <1>5, <1>6, <1>7, <1>8, <1>9, <1>10

(* Further down is a greater rank.                                         *)
LEMMA RankFalls ==
  ASSUME NEW t \in Seq(Character)
  PROVE  /\ \A i \in Cuts(t) : Rank(t, i) \in 0 .. Cardinality(Cuts(t)) - 1
         /\ \A i, j \in Cuts(t) : i < j => Rank(t, j) < Rank(t, i)
<1>1. \A i \in Cuts(t) : i \in Nat  BY CutsAre
<1>2. ASSUME NEW S \in SUBSET Cuts(t), NEW T \in SUBSET S, NEW x \in S, x \notin T
      PROVE  Cardinality(T) \in Nat /\ Cardinality(S) \in Nat /\ Cardinality(T) < Cardinality(S)
  <2>1. IsFiniteSet(S) /\ IsFiniteSet(T)  BY CutsAre, FS_Subset
  <2>2. Cardinality(S) \in Nat /\ Cardinality(T) \in Nat  BY <2>1, FS_CardinalityType
  <2>3. Cardinality(T) <= Cardinality(S) /\ (Cardinality(S) = Cardinality(T) => S = T)
    BY <2>1, FS_Subset
  <2>4. Cardinality(S) # Cardinality(T)  BY <1>2, <2>3
  <2> QED  BY <2>2, <2>3, <2>4
<1>3. ASSUME NEW i \in Cuts(t) PROVE Rank(t, i) \in 0 .. Cardinality(Cuts(t)) - 1
  <2> DEFINE T == {j \in Cuts(t) : j > i}
  <2>1. T \in SUBSET Cuts(t) /\ i \notin T  BY <1>1
  <2>2. Rank(t, i) = Cardinality(T)  BY DEF Rank
  <2> HIDE DEF T
  <2>3. Cardinality(T) \in Nat /\ Cardinality(Cuts(t)) \in Nat /\ Cardinality(T) < Cardinality(Cuts(t))
    BY <1>2, <2>1
  <2> QED  BY <2>2, <2>3
<1>4. ASSUME NEW i \in Cuts(t), NEW j \in Cuts(t), i < j PROVE Rank(t, j) < Rank(t, i)
  <2> DEFINE S == {k \in Cuts(t) : k > i}
             T == {k \in Cuts(t) : k > j}
  <2>1. S \in SUBSET Cuts(t) /\ T \in SUBSET S /\ j \in S /\ j \notin T  BY <1>1, <1>4
  <2>2. Rank(t, i) = Cardinality(S) /\ Rank(t, j) = Cardinality(T)  BY DEF Rank
  <2> HIDE DEF S, T
  <2> QED  BY <1>2, <2>1, <2>2
<1> QED  BY <1>3, <1>4

(* The cuts are numbered: each has the number of its rank, no number is    *)
(* left out.                                                               *)
LEMMA NthIs ==
  ASSUME NEW t \in Seq(Character)
  PROVE  /\ \A n \in 1 .. Cardinality(Cuts(t)) : Nth(t, n) \in Cuts(t) /\ Rank(t, Nth(t, n)) = n - 1
         /\ \A i \in Cuts(t) : Rank(t, i) + 1 \in 1 .. Cardinality(Cuts(t)) /\ Nth(t, Rank(t, i) + 1) = i
<1> DEFINE c == Cardinality(Cuts(t))
           f == [i \in Cuts(t) |-> Rank(t, i)]
<1>1. c \in Nat /\ IsFiniteSet(Cuts(t)) /\ \A i \in Cuts(t) : i \in Nat  BY CutsAre
<1>2. f \in [Cuts(t) -> 0 .. c - 1]  BY RankFalls
<1>3. \A i, j \in Cuts(t) : Rank(t, i) = Rank(t, j) => i = j
  <2> SUFFICES ASSUME NEW i \in Cuts(t), NEW j \in Cuts(t), Rank(t, i) = Rank(t, j) PROVE i = j
    OBVIOUS
  <2>1. Rank(t, i) \in Nat  BY <1>1, RankFalls
  <2>2. ~(i < j) /\ ~(j < i)  BY <2>1, RankFalls
  <2> QED  BY <1>1, <2>2
<1>4. f \in Injection(Cuts(t), 0 .. c - 1)  BY <1>2, <1>3 DEF Injection, IsInjective
<1>5. IsFiniteSet(0 .. c - 1) /\ Cardinality(0 .. c - 1) = c
  <2>1. 0 \in Int /\ c - 1 \in Int /\ (IF 0 > c - 1 THEN 0 ELSE (c - 1) - 0 + 1) = c  BY <1>1
  <2> HIDE DEF c
  <2> QED  BY <2>1, FS_Interval
<1>6. f \in Surjection(Cuts(t), 0 .. c - 1)  BY <1>4, <1>5, FS_Injection
<1>7. \A n \in 1 .. c : \E i \in Cuts(t) : Rank(t, i) = n - 1
  <2> SUFFICES ASSUME NEW n \in 1 .. c PROVE \E i \in Cuts(t) : Rank(t, i) = n - 1  OBVIOUS
  <2>1. n - 1 \in 0 .. c - 1  BY <1>1
  <2>2. PICK i \in Cuts(t) : f[i] = n - 1
    <3> HIDE DEF f, c
    <3> QED  BY <1>6, <2>1 DEF Surjection
  <2> QED  BY <2>2
<1>8. \A n \in 1 .. c : Nth(t, n) \in Cuts(t) /\ Rank(t, Nth(t, n)) = n - 1
  <2> HIDE DEF c, f
  <2> SUFFICES ASSUME NEW n \in 1 .. c PROVE Nth(t, n) \in Cuts(t) /\ Rank(t, Nth(t, n)) = n - 1  OBVIOUS
  <2> QED  BY <1>7 DEF Nth
<1>9. \A i \in Cuts(t) : Rank(t, i) + 1 \in 1 .. c /\ Nth(t, Rank(t, i) + 1) = i
  <2> SUFFICES ASSUME NEW i \in Cuts(t) PROVE Rank(t, i) + 1 \in 1 .. c /\ Nth(t, Rank(t, i) + 1) = i
    OBVIOUS
  <2>1. PICK r \in 0 .. c - 1 : r = Rank(t, i)  BY RankFalls
  <2>2. r + 1 \in 1 .. c /\ (r + 1) - 1 = r  BY <1>1, <2>1
  <2> HIDE DEF c, f
  <2>3. Nth(t, r + 1) \in Cuts(t) /\ Rank(t, Nth(t, r + 1)) = r  BY <1>8, <2>2
  <2> QED  BY <1>3, <2>1, <2>2, <2>3
<1> QED  BY <1>8, <1>9

LEMMA AnyPart ==
  ASSUME NEW S, NEW t \in Seq(S), NEW f \in 1 .. Len(t) + 1, NEW l \in 0 .. Len(t), f <= l + 1
  PROVE  /\ SubSeq(t, f, l) \in Seq(S) /\ Len(SubSeq(t, f, l)) = l - f + 1
         /\ \A i \in 1 .. l - f + 1 : f + i - 1 \in 1 .. Len(t) /\ SubSeq(t, f, l)[i] = t[f + i - 1]
OBVIOUS

(* The last label ends the text, every other at the cut above it.          *)
LEMMA LabelsMeet ==
  ASSUME NEW t \in Seq(Character), NEW n \in 1 .. Cardinality(Cuts(t))
  PROVE  LabelFrom(t, Nth(t, n)) =
           SubSeq(t, Nth(t, n) + 1, IF n = 1 THEN Len(t) ELSE Nth(t, n - 1) - 1)
<1>1. PICK c \in Nat : c = Cardinality(Cuts(t))  BY CutsAre
<1>2. PICK len \in Nat : len = Len(t)  OBVIOUS
<1>3. PICK a \in Cuts(t) : a = Nth(t, n) /\ Rank(t, a) = n - 1  BY NthIs
<1>4. a \in 0 .. len /\ Dots(t) \subseteq Cuts(t) /\ Dots(t) \subseteq 1 .. len  BY <1>2, CutsAre
<1>5. PICK e \in a + 1 .. len + 1 :
        /\ LabelFrom(t, a) = SubSeq(t, a + 1, e - 1)
        /\ e \in Dots(t) \cup {len + 1}
        /\ \A k \in Dots(t) : k > a => e <= k
  BY <1>2, <1>4, LabelIs
<1>6. e \in Nat /\ a \in Nat /\ a < e  BY <1>2, <1>4
<1>7. e \in Dots(t) => e \in Cuts(t) /\ Rank(t, e) \in Nat /\ Rank(t, e) < n - 1
  <2> SUFFICES ASSUME e \in Dots(t) PROVE e \in Cuts(t) /\ Rank(t, e) \in Nat /\ Rank(t, e) < n - 1
    OBVIOUS
  <2>1. e \in Cuts(t)  BY <1>4
  <2>2. Rank(t, e) \in 0 .. c - 1  BY <1>1, <2>1, RankFalls
  <2>3. Rank(t, e) < Rank(t, a)  BY <1>6, <2>1, RankFalls
  <2> QED  BY <1>3, <2>1, <2>2, <2>3
<1>8. CASE n = 1
  <2>1. e = len + 1  BY <1>5, <1>7, <1>8
  <2>2. e - 1 = len  BY <1>2, <2>1
  <2> QED  BY <1>2, <1>3, <1>5, <1>8, <2>2
<1>9. CASE n # 1
  <2>1. n - 1 \in 1 .. c /\ n \in Nat  BY <1>1, <1>9
  <2>2. PICK b \in Cuts(t) : b = Nth(t, n - 1) /\ Rank(t, b) = (n - 1) - 1  BY <1>1, <2>1, NthIs
  <2>3. b \in Nat /\ b <= len  BY <1>2, CutsAre
  <2>4. a < b
    <3>1. a # b  BY <1>3, <2>1, <2>2
    <3>2. ~(b < a)
      <4> SUFFICES ASSUME b < a PROVE FALSE  OBVIOUS
      <4>1. Rank(t, a) < Rank(t, b)  BY RankFalls
      <4> QED  BY <1>3, <2>1, <2>2, <4>1
    <3> QED  BY <1>6, <2>3, <3>1, <3>2
  <2>5. b \in Dots(t)  BY <1>6, <2>3, <2>4, CutsAre
  <2>6. e <= b  BY <1>5, <2>4, <2>5
  <2>7. e \in Dots(t)  BY <1>2, <1>5, <2>3, <2>6
  <2>8. ~(e < b)
    <3> SUFFICES ASSUME e < b PROVE FALSE  OBVIOUS
    <3>1. Rank(t, b) < Rank(t, e)  BY <1>7, <2>7, RankFalls
    <3> QED  BY <1>7, <2>1, <2>2, <2>7, <3>1
  <2>9. e = b  BY <1>6, <2>3, <2>6, <2>8
  <2> QED  BY <1>3, <1>5, <1>9, <2>2, <2>9
<1> QED  BY <1>8, <1>9

(* Shifted sets are as large.                                              *)
LEMMA ShiftedIsAsLarge ==
  ASSUME NEW S \in SUBSET Nat, IsFiniteSet(S), NEW o \in Nat
  PROVE  Cardinality({o + j : j \in S}) = Cardinality(S)
<1> DEFINE T == {o + j : j \in S}
           f == [j \in S |-> o + j]
<1>1. f \in [S -> T]  OBVIOUS
<1>2. \A i, j \in S : f[i] = f[j] => i = j
  <2>1. \A i, j \in Nat : o + i = o + j => i = j  OBVIOUS
  <2> QED  BY <2>1
<1>3. \A x \in T : \E j \in S : f[j] = x  OBVIOUS
<1> HIDE DEF f, T
<1>4. f \in Injection(S, T) /\ f \in Surjection(S, T)
  BY <1>1, <1>2, <1>3 DEF Injection, IsInjective, Surjection
<1>5. ExistsBijection(S, T)  BY <1>4 DEF ExistsBijection, Bijection
<1>6. Cardinality(T) = Cardinality(S)  BY <1>5, FS_Bijection
<1> QED  BY <1>6 DEF T

(* host ends with domain, after o characters of which the last is a dot.   *)
Under(host, domain, o) ==
  /\ Len(host) = o + Len(domain) /\ o # 0
  /\ host[o] = "."
  /\ \A i \in 1 .. Len(domain) : host[o + i] = domain[i]

(* The comparison of bytes: the domain is a suffix of the host after a     *)
(* dot.                                                                    *)
LEMMA SubdomainIs ==
  ASSUME NEW host \in Seq(Character), NEW domain \in Seq(Character)
  PROVE  IsSubdomainOf(host, domain) <=> \E o \in Nat : Under(host, domain, o)
<1>1. PICK h \in Nat, d \in Nat : h = Len(host) /\ d = Len(domain)  OBVIOUS
<1>2. ASSUME IsSubdomainOf(host, domain) PROVE \E o \in Nat : Under(host, domain, o)
  <2>1. h > d /\ SubSeq(host, h - d + 1, h) = domain /\ host[h - d] = "."
    BY <1>1, <1>2 DEF IsSubdomainOf, EndsWithText
  <2>2. PICK o \in Nat : o = h - d
    <3>1. h > d  BY <2>1
    <3>2. h - d \in Nat  BY <3>1
    <3> QED  BY <3>2
  <2>3. o # 0 /\ h = o + d /\ o + 1 \in 1 .. h + 1 /\ h \in 0 .. h /\ o + 1 <= h + 1 /\ h - (o + 1) + 1 = d
        /\ \A i \in 1 .. d : (o + 1) + i - 1 = o + i
    <3>1. h > d  BY <2>1
    <3> QED  BY <2>2, <3>1
  <2>4. \A i \in 1 .. d : SubSeq(host, o + 1, h)[i] = host[o + i]
    BY <1>1, <2>3, AnyPart
  <2>5. SubSeq(host, o + 1, h) = domain  BY <2>1, <2>2
  <2>6. \A i \in 1 .. d : host[o + i] = domain[i]  BY <2>4, <2>5
  <2>7. host[o] = "."  BY <2>1, <2>2
  <2>8. Under(host, domain, o)  BY <1>1, <2>3, <2>6, <2>7 DEF Under
  <2> QED  BY <2>8
<1>3. ASSUME NEW o \in Nat, Under(host, domain, o) PROVE IsSubdomainOf(host, domain)
  <2>1. h = o + d /\ o # 0 /\ \A i \in 1 .. d : host[o + i] = domain[i]  BY <1>1, <1>3 DEF Under
  <2>2. host[o] = "."  BY <1>3 DEF Under
  <2>3. h > d /\ d <= h /\ h - d = o /\ h - d + 1 = o + 1 /\ o + 1 \in 1 .. h + 1 /\ h \in 0 .. h
        /\ o + 1 <= h + 1 /\ h - (o + 1) + 1 = d /\ \A i \in 1 .. d : (o + 1) + i - 1 = o + i
    BY <1>1, <2>1
  <2>4. PICK s \in Seq(Character) : s = SubSeq(host, o + 1, h)  BY <1>1, <2>3, AnyPart
  <2>5. Len(s) = d /\ \A i \in 1 .. d : s[i] = host[o + i]
    <3>1. PICK a \in Nat : a = o + 1  OBVIOUS
    <3>2. a \in 1 .. h + 1 /\ h \in 0 .. h /\ a <= h + 1 /\ h - a + 1 = d  BY <2>3, <3>1
    <3>3. Len(s) = h - a + 1 /\ \A i \in 1 .. h - a + 1 : a + i - 1 \in 1 .. h /\ s[i] = host[a + i - 1]
      BY <1>1, <2>4, <3>1, <3>2, AnyPart
    <3>4. \A i \in 1 .. d : a + i - 1 = o + i  BY <3>1
    <3> QED  BY <3>2, <3>3, <3>4
  <2>6. s = domain  BY <1>1, <2>1, <2>5, SameText
  <2>7. EndsWithText(host, domain)  BY <1>1, <2>3, <2>4, <2>6 DEF EndsWithText
  <2>8. Len(host) > Len(domain) /\ host[Len(host) - Len(domain)] = "."  BY <1>1, <2>2, <2>3
  <2> QED  BY <2>7, <2>8 DEF IsSubdomainOf
<1> QED  BY <1>2, <1>3

(* The cuts of host at o and after are those of domain.                    *)
LEMMA CutsUnder ==
  ASSUME NEW host \in Seq(Character), NEW domain \in Seq(Character), NEW o \in Nat,
         Under(host, domain, o)
  PROVE  /\ o \in Cuts(host)
         /\ \A i \in Nat : i # 0 => (o + i \in Dots(host) <=> i \in Dots(domain))
         /\ \A i \in Cuts(domain) : o + i \in Cuts(host)
         /\ \A j \in Cuts(host) : j >= o => j - o \in Cuts(domain)
<1>1. PICK h \in Nat, d \in Nat : h = Len(host) /\ d = Len(domain)  OBVIOUS
<1>2. h = o + d /\ o # 0 /\ \A i \in 1 .. d : host[o + i] = domain[i]  BY <1>1 DEF Under
<1>3. host[o] = "."  BY DEF Under
<1>4. DOMAIN host = 1 .. h /\ DOMAIN domain = 1 .. d  BY <1>1
<1>5. o \in Dots(host)
  <2>1. o \in 1 .. h  BY <1>1, <1>2
  <2> QED  BY <1>3, <1>4, <2>1 DEF Dots
<1>6. ASSUME NEW i \in Nat, i # 0 PROVE o + i \in Dots(host) <=> i \in Dots(domain)
  <2>1. o + i \in 1 .. h <=> i \in 1 .. d  BY <1>1, <1>2, <1>6
  <2>2. i \in 1 .. d => host[o + i] = domain[i]  BY <1>2
  <2> QED  BY <1>4, <2>1, <2>2 DEF Dots
<1>7. ASSUME NEW i \in Cuts(domain) PROVE o + i \in Cuts(host)
  <2>1. CASE i = 0
    <3>1. o + i = o  BY <2>1
    <3> QED  BY <1>5, <3>1, CutsAre
  <2>2. CASE i # 0
    <3>1. i \in Nat /\ i \in Dots(domain)  BY <2>2, CutsAre
    <3>2. o + i \in Dots(host)  BY <1>6, <2>2, <3>1
    <3> QED  BY <3>2, CutsAre
  <2> QED  BY <2>1, <2>2
<1>8. ASSUME NEW j \in Cuts(host), j >= o PROVE j - o \in Cuts(domain)
  <2>1. j \in Nat  BY CutsAre
  <2>2. PICK i \in Nat : j = o + i /\ j - o = i
    <3>1. j - o \in Nat /\ j = o + (j - o)  BY <1>8, <2>1
    <3> QED  BY <3>1
  <2>3. CASE i = 0  BY <2>2, <2>3, CutsAre
  <2>4. CASE i # 0
    <3>1. j # 0  BY <1>2, <2>2, <2>4
    <3>2. j \in Dots(host)  BY <3>1, CutsAre
    <3>3. i \in Dots(domain)  BY <1>6, <2>2, <2>4, <3>2
    <3> QED  BY <2>2, <3>3, CutsAre
  <2> QED  BY <2>3, <2>4
<1>9. o \in Cuts(host)  BY <1>5, CutsAre
<1> QED  BY <1>6, <1>7, <1>8, <1>9

(* Under a domain the cuts of the host are those of the domain, shifted,   *)
(* with the same numbers and labels.                                       *)
LEMMA RanksUnder ==
  ASSUME NEW host \in Seq(Character), NEW domain \in Seq(Character), NEW o \in Nat,
         Under(host, domain, o), NEW i \in Cuts(domain)
  PROVE  Rank(host, o + i) = Rank(domain, i)
<1> DEFINE S == {j \in Cuts(domain) : j > i}
           T == {j \in Cuts(host) : j > o + i}
<1>1. \A j \in Cuts(domain) : j \in Nat  BY CutsAre
<1>2. \A j \in Cuts(host) : j \in Nat  BY CutsAre
<1>3. \A j \in Cuts(domain) : o + j \in Cuts(host)  BY CutsUnder
<1>4. \A j \in Cuts(host) : j >= o => j - o \in Cuts(domain)  BY CutsUnder
<1>5. T = {o + j : j \in S}
  <2>1. ASSUME NEW j \in S PROVE o + j \in T
    <3>1. j \in Nat /\ i \in Nat /\ j > i  BY <1>1
    <3>2. o + j > o + i  BY <3>1
    <3> QED  BY <1>3, <3>2
  <2>2. ASSUME NEW j \in T PROVE \E k \in S : j = o + k
    <3>1. j \in Nat /\ i \in Nat /\ j > o + i  BY <1>1, <1>2
    <3>2. j >= o /\ j - o > i /\ j = o + (j - o)  BY <3>1
    <3>3. j - o \in S  BY <1>4, <3>2
    <3> QED  BY <3>2, <3>3
  <2> QED  BY <2>1, <2>2
<1>6. S \in SUBSET Nat /\ IsFiniteSet(S)
  <2>1. S \in SUBSET Cuts(domain)  OBVIOUS
  <2>2. IsFiniteSet(Cuts(domain))  BY CutsAre
  <2> HIDE DEF S
  <2> QED  BY <1>1, <2>1, <2>2, FS_Subset
<1>7. Rank(host, o + i) = Cardinality(T) /\ Rank(domain, i) = Cardinality(S)  BY DEF Rank
<1> HIDE DEF S, T
<1> QED  BY <1>5, <1>6, <1>7, ShiftedIsAsLarge

LEMMA LabelsUnder ==
  ASSUME NEW host \in Seq(Character), NEW domain \in Seq(Character), NEW o \in Nat,
         Under(host, domain, o), NEW i \in Cuts(domain)
  PROVE  LabelFrom(host, o + i) = LabelFrom(domain, i)
<1>1. PICK h \in Nat, d \in Nat : h = Len(host) /\ d = Len(domain)  OBVIOUS
<1>2. h = o + d /\ \A k \in 1 .. d : host[o + k] = domain[k]  BY <1>1 DEF Under
<1>3. i \in 0 .. d /\ o + i \in 0 .. h  BY <1>1, <1>2, CutsAre
<1>4. PICK e \in i + 1 .. d + 1 :
        /\ LabelFrom(domain, i) = SubSeq(domain, i + 1, e - 1)
        /\ e \in Dots(domain) \cup {d + 1}
        /\ \A k \in Dots(domain) : k > i => e <= k
  BY <1>1, <1>3, LabelIs
<1>5. PICK g \in o + i + 1 .. h + 1 :
        /\ LabelFrom(host, o + i) = SubSeq(host, o + i + 1, g - 1)
        /\ g \in Dots(host) \cup {h + 1}
        /\ \A k \in Dots(host) : k > o + i => g <= k
  BY <1>1, <1>3, LabelIs
<1>6. e \in Nat /\ i \in Nat /\ i < e /\ e <= d + 1 /\ e # 0  BY <1>1, <1>3
<1>7. g \in Nat /\ o + i < g /\ g <= h + 1  BY <1>1, <1>3
<1>8. \A k \in Nat : k # 0 => (o + k \in Dots(host) <=> k \in Dots(domain))  BY CutsUnder
<1>9. g <= o + e
  <2>1. CASE e \in Dots(domain)
    <3>1. o + e \in Dots(host) /\ o + e > o + i  BY <1>6, <1>8, <2>1
    <3> QED  BY <1>5, <3>1
  <2>2. CASE e = d + 1
    <3>1. o + e = h + 1  BY <1>1, <1>2, <2>2
    <3> QED  BY <1>7, <3>1
  <2> QED  BY <1>4, <2>1, <2>2
<1>10. o + e <= g
  <2>1. CASE g \in Dots(host)
    <3>1. PICK k \in Nat : g = o + k
      <4>1. g - o \in Nat /\ g = o + (g - o)  BY <1>6, <1>7
      <4> QED  BY <4>1
    <3>2. k # 0 /\ k > i  BY <1>6, <1>7, <3>1
    <3>3. k \in Dots(domain)  BY <1>8, <2>1, <3>1, <3>2
    <3>4. e <= k  BY <1>4, <3>2, <3>3
    <3> QED  BY <1>6, <3>1, <3>4
  <2>2. CASE g = h + 1  BY <1>1, <1>2, <1>6, <2>2
  <2> QED  BY <1>5, <2>1, <2>2
<1>11. g = o + e  BY <1>6, <1>7, <1>9, <1>10
<1>12. PICK a \in Nat, b \in Nat, p \in Nat, q \in Nat :
         a = i + 1 /\ b = e - 1 /\ p = o + i + 1 /\ q = g - 1
  <2>1. i + 1 \in Nat /\ e - 1 \in Nat /\ o + i + 1 \in Nat /\ g - 1 \in Nat  BY <1>6, <1>7
  <2> QED  BY <2>1
<1>13. a \in 1 .. d + 1 /\ b \in 0 .. d /\ a <= b + 1 /\ p \in 1 .. h + 1 /\ q \in 0 .. h /\ p <= q + 1
       /\ p = o + a /\ q = o + b /\ q - p + 1 = b - a + 1
  BY <1>1, <1>2, <1>6, <1>7, <1>11, <1>12
<1>14. PICK s \in Seq(Character) : s = SubSeq(domain, a, b)  BY <1>1, <1>13, AnyPart
<1>15. PICK t \in Seq(Character) : t = SubSeq(host, p, q)  BY <1>1, <1>13, AnyPart
<1>16. Len(s) = b - a + 1 /\ \A k \in 1 .. b - a + 1 : a + k - 1 \in 1 .. d /\ s[k] = domain[a + k - 1]
  BY <1>1, <1>13, <1>14, AnyPart
<1>17. Len(t) = q - p + 1 /\ \A k \in 1 .. q - p + 1 : p + k - 1 \in 1 .. h /\ t[k] = host[p + k - 1]
  BY <1>1, <1>13, <1>15, AnyPart
<1>18. \A k \in 1 .. b - a + 1 : p + k - 1 = o + (a + k - 1)  BY <1>13
<1>19. \A k \in 1 .. b - a + 1 : t[k] = s[k]  BY <1>2, <1>13, <1>16, <1>17, <1>18
<1>20. t = s  BY <1>13, <1>16, <1>17, <1>19, SameText
<1> QED  BY <1>4, <1>5, <1>12, <1>14, <1>15, <1>20

LEMMA PathTyped ==
  ASSUME NEW t \in Seq(Character)
  PROVE  /\ LabelPath(t) \in Seq(Seq(Character)) /\ Len(LabelPath(t)) = Cardinality(Cuts(t))
         /\ \A n \in 1 .. Cardinality(Cuts(t)) : LabelPath(t)[n] = LabelFrom(t, Nth(t, n))
<1>1. PICK c \in Nat : c = Cardinality(Cuts(t))  BY CutsAre
<1>2. \A n \in 1 .. c : LabelFrom(t, Nth(t, n)) \in Seq(Character)
  <2> SUFFICES ASSUME NEW n \in 1 .. c PROVE LabelFrom(t, Nth(t, n)) \in Seq(Character)  OBVIOUS
  <2>1. Nth(t, n) \in Cuts(t)  BY <1>1, NthIs
  <2>2. LabelFrom(t, Nth(t, n)) \in Labels(t)  BY <2>1 DEF Labels, Cuts
  <2> QED  BY <2>2, LabelTyped
<1>3. LabelPath(t) = [n \in 1 .. c |-> LabelFrom(t, Nth(t, n))]  BY <1>1, PathIs
<1>4. LabelPath(t) \in [1 .. c -> Seq(Character)]  BY <1>2, <1>3
<1>5. LabelPath(t) \in Seq(Seq(Character)) /\ Len(LabelPath(t)) = c  BY <1>4, SeqOf
<1>6. \A n \in 1 .. c : LabelPath(t)[n] = LabelFrom(t, Nth(t, n))  BY <1>3
<1> QED  BY <1>1, <1>5, <1>6

(* The first labels of host are those of domain, and there are more.       *)
Extends(host, domain) ==
  /\ Cardinality(Cuts(host)) > Cardinality(Cuts(domain))
  /\ \A n \in 1 .. Cardinality(Cuts(domain)) :
       LabelFrom(host, Nth(host, n)) = LabelFrom(domain, Nth(domain, n))

LEMMA ExtendsIs ==
  ASSUME NEW host \in Seq(Character), NEW domain \in Seq(Character)
  PROVE  Extends(host, domain) <=>
           /\ Len(LabelPath(host)) > Len(LabelPath(domain))
           /\ SubSeq(LabelPath(host), 1, Len(LabelPath(domain))) = LabelPath(domain)
<1>1. PICK p \in Seq(Seq(Character)), q \in Seq(Seq(Character)) : p = LabelPath(host) /\ q = LabelPath(domain)
  BY PathTyped
<1>2. PICK c \in Nat, e \in Nat : c = Cardinality(Cuts(host)) /\ e = Cardinality(Cuts(domain))
  BY CutsAre
<1>3. Len(p) = c /\ \A n \in 1 .. c : p[n] = LabelFrom(host, Nth(host, n))  BY <1>1, <1>2, PathTyped
<1>4. Len(q) = e /\ \A n \in 1 .. e : q[n] = LabelFrom(domain, Nth(domain, n))
  BY <1>1, <1>2, PathTyped
<1>5. ASSUME c > e
      PROVE  SubSeq(p, 1, e) = q <=> \A n \in 1 .. e : p[n] = q[n]
  <2>1. 1 \in 1 .. c + 1 /\ e \in 0 .. c /\ 1 <= e + 1 /\ e - 1 + 1 = e /\ \A n \in 1 .. e : 1 + n - 1 = n
    BY <1>2, <1>5
  <2>2. PICK s \in Seq(Seq(Character)) : s = SubSeq(p, 1, e)  BY <1>3, <2>1, AnyPart
  <2>3. Len(s) = e - 1 + 1 /\ \A n \in 1 .. e - 1 + 1 : 1 + n - 1 \in 1 .. c /\ s[n] = p[1 + n - 1]
    BY <1>3, <2>1, <2>2, AnyPart
  <2>4. Len(s) = e /\ \A n \in 1 .. e : s[n] = p[n]  BY <2>1, <2>3
  <2>5. s = q <=> \A n \in 1 .. e : s[n] = q[n]  BY <1>4, <2>4, SameText
  <2> QED  BY <2>2, <2>4, <2>5
<1>6. \A n \in 1 .. e : c > e => n \in 1 .. c  BY <1>2
<1> QED  BY <1>1, <1>2, <1>3, <1>4, <1>5, <1>6 DEF Extends

(* A suffix after a dot extends the path.                                  *)
LEMMA UnderExtends ==
  ASSUME NEW host \in Seq(Character), NEW domain \in Seq(Character), NEW o \in Nat,
         Under(host, domain, o)
  PROVE  Extends(host, domain)
<1>1. PICK c \in Nat, e \in Nat : c = Cardinality(Cuts(host)) /\ e = Cardinality(Cuts(domain)) /\ e # 0
  BY CutsAre
<1>2. ASSUME NEW n \in 1 .. e
      PROVE  /\ o + Nth(domain, n) \in Cuts(host) /\ Rank(host, o + Nth(domain, n)) = n - 1
             /\ Nth(host, n) = o + Nth(domain, n)
             /\ LabelFrom(host, Nth(host, n)) = LabelFrom(domain, Nth(domain, n))
  <2>1. PICK a \in Cuts(domain) : a = Nth(domain, n) /\ Rank(domain, a) = n - 1  BY <1>1, NthIs
  <2>2. o + a \in Cuts(host)  BY CutsUnder
  <2>3. Rank(host, o + a) = n - 1  BY <2>1, RanksUnder
  <2>4. Nth(host, Rank(host, o + a) + 1) = o + a  BY <2>2, NthIs
  <2>5. (n - 1) + 1 = n  BY <1>1
  <2>6. Nth(host, n) = o + a  BY <2>3, <2>4, <2>5
  <2>7. LabelFrom(host, o + a) = LabelFrom(domain, a)  BY LabelsUnder
  <2> QED  BY <2>1, <2>2, <2>3, <2>6, <2>7
<1>3. c > e
  <2>1. e \in 1 .. e  BY <1>1
  <2>2. PICK b \in Cuts(host) : b = o + Nth(domain, e) /\ Rank(host, b) = e - 1  BY <1>2, <2>1
  <2>3. Nth(domain, e) \in Nat  BY <1>1, <2>1, NthIs, CutsAre
  <2>4. o # 0  BY DEF Under
  <2>5. 0 < b /\ b \in Nat  BY <2>2, <2>3, <2>4
  <2>6. 0 \in Cuts(host)  BY CutsAre
  <2>7. Rank(host, b) < Rank(host, 0)  BY <2>5, <2>6, RankFalls
  <2>8. Rank(host, 0) \in 0 .. c - 1  BY <1>1, <2>6, RankFalls
  <2> QED  BY <1>1, <2>2, <2>7, <2>8
<1> QED  BY <1>1, <1>2, <1>3 DEF Extends

(* Where label n ends.                                                     *)
LEMMA LabelSpans ==
  ASSUME NEW t \in Seq(Character), NEW n \in 1 .. Cardinality(Cuts(t)),
         NEW p, p = (IF n = 1 THEN Len(t) ELSE Nth(t, n - 1) - 1)
  PROVE  p \in Int /\ Nth(t, n) <= p /\ p <= Len(t)
<1>1. PICK len \in Nat : len = Len(t)  OBVIOUS
<1>2. PICK c \in Nat : c = Cardinality(Cuts(t))  BY CutsAre
<1>3. PICK a \in Cuts(t) : a = Nth(t, n) /\ Rank(t, a) = n - 1  BY NthIs
<1>4. a \in Nat /\ a <= len /\ n \in Nat  BY <1>1, <1>2, CutsAre
<1>5. CASE n = 1  BY <1>1, <1>3, <1>4, <1>5
<1>6. CASE n # 1
  <2>1. n - 1 \in 1 .. c  BY <1>2, <1>4, <1>6
  <2>2. PICK x \in Cuts(t) : x = Nth(t, n - 1) /\ Rank(t, x) = (n - 1) - 1  BY <1>2, <2>1, NthIs
  <2>3. x \in Nat /\ x <= len  BY <1>1, CutsAre
  <2>4. x # a  BY <1>3, <1>4, <2>2
  <2>5. ~(x < a)
    <3> SUFFICES ASSUME x < a PROVE FALSE  OBVIOUS
    <3>1. Rank(t, a) < Rank(t, x)  BY RankFalls
    <3> QED  BY <1>3, <1>4, <2>2, <3>1
  <2>6. p = x - 1  BY <1>6, <2>2
  <2> QED  BY <1>1, <1>3, <1>4, <2>3, <2>4, <2>5, <2>6
<1> QED  BY <1>5, <1>6

(* Equal labels from the top level down put the cuts at equal distances    *)
(* from the end: there is no first label where they do not.                *)
LEMMA CutsAlign ==
  ASSUME NEW host \in Seq(Character), NEW domain \in Seq(Character), Extends(host, domain),
         NEW n \in 1 .. Cardinality(Cuts(domain))
  PROVE  Len(host) - Nth(host, n) = Len(domain) - Nth(domain, n)
<1>1. PICK h \in Nat, d \in Nat : h = Len(host) /\ d = Len(domain)  OBVIOUS
<1>2. PICK c \in Nat, e \in Nat : c = Cardinality(Cuts(host)) /\ e = Cardinality(Cuts(domain))
  BY CutsAre
<1>3. c > e  BY <1>2 DEF Extends
<1>4. \A k \in 1 .. e : k \in 1 .. c /\ Nth(host, k) \in 0 .. h /\ Nth(domain, k) \in 0 .. d
  <2> SUFFICES ASSUME NEW k \in 1 .. e
               PROVE  k \in 1 .. c /\ Nth(host, k) \in 0 .. h /\ Nth(domain, k) \in 0 .. d
    OBVIOUS
  <2>1. k \in 1 .. c  BY <1>2, <1>3
  <2>2. Nth(host, k) \in Cuts(host) /\ Nth(domain, k) \in Cuts(domain)  BY <1>2, <2>1, NthIs
  <2> QED  BY <1>1, <2>1, <2>2, CutsAre
<1>5. \A k \in 1 .. e : LabelFrom(host, Nth(host, k)) = LabelFrom(domain, Nth(domain, k))
  BY <1>2 DEF Extends
<1> DEFINE Bad == {k \in 1 .. e : h - Nth(host, k) # d - Nth(domain, k)}
<1>6. Bad = {}
  <2> SUFFICES ASSUME Bad # {} PROVE FALSE  OBVIOUS
  <2>1. Bad \in SUBSET (0 .. e)  OBVIOUS
  <2>2. PICK k \in Bad : \A j \in Bad : k <= j
    <3> HIDE DEF Bad
    <3> QED  BY <1>2, <2>1, LeastUpTo
  <2>3. k \in 1 .. e /\ h - Nth(host, k) # d - Nth(domain, k)  OBVIOUS
  <2>4. ASSUME k # 1 PROVE k - 1 \in 1 .. e /\ h - Nth(host, k - 1) = d - Nth(domain, k - 1)
    <3>1. k - 1 \in 1 .. e /\ ~(k <= k - 1)  BY <2>3, <2>4
    <3>2. k - 1 \notin Bad  BY <2>2, <3>1
    <3> QED  BY <3>1, <3>2
  <2> HIDE DEF Bad
  <2>5. PICK a \in Nat, b \in Nat : a = Nth(host, k) /\ b = Nth(domain, k) /\ a <= h /\ b <= d
    BY <1>1, <1>4, <2>3
  <2>6. PICK p \in Int, q \in Int :
          /\ p = (IF k = 1 THEN h ELSE Nth(host, k - 1) - 1)
          /\ q = (IF k = 1 THEN d ELSE Nth(domain, k - 1) - 1)
    <3>1. k # 1 => Nth(host, k - 1) \in Nat /\ Nth(domain, k - 1) \in Nat  BY <1>1, <1>4, <2>4
    <3> QED  BY <3>1
  <2>7. h - p = d - q
    <3>1. CASE k = 1  BY <2>6, <3>1
    <3>2. CASE k # 1
      <4>1. PICK x \in Nat, y \in Nat : x = Nth(host, k - 1) /\ y = Nth(domain, k - 1)
        BY <1>1, <1>4, <2>4, <3>2
      <4>2. h - x = d - y /\ p = x - 1 /\ q = y - 1  BY <2>4, <2>6, <3>2, <4>1
      <4> QED  BY <4>2
    <3> QED  BY <3>1, <3>2
  <2>8. a <= p /\ p <= h  BY <1>1, <1>2, <1>4, <2>3, <2>5, <2>6, LabelSpans
  <2>9. b <= q /\ q <= d  BY <1>1, <1>2, <2>3, <2>5, <2>6, LabelSpans
  <2>10. LabelFrom(host, a) = SubSeq(host, a + 1, p)
    <3>1. k \in 1 .. Cardinality(Cuts(host))  BY <1>2, <1>4, <2>3
    <3> QED  BY <1>1, <2>5, <2>6, <3>1, LabelsMeet
  <2>11. LabelFrom(domain, b) = SubSeq(domain, b + 1, q)
    <3>1. k \in 1 .. Cardinality(Cuts(domain))  BY <1>2, <2>3
    <3> QED  BY <1>1, <2>5, <2>6, <3>1, LabelsMeet
  <2>12. Len(SubSeq(host, a + 1, p)) = p - a
    <3>1. a + 1 \in 1 .. h + 1 /\ p \in 0 .. h /\ a + 1 <= p + 1 /\ p - (a + 1) + 1 = p - a  BY <2>8
    <3>2. Len(SubSeq(host, a + 1, p)) = p - (a + 1) + 1  BY <1>1, <3>1, AnyPart
    <3> QED  BY <3>1, <3>2
  <2>13. Len(SubSeq(domain, b + 1, q)) = q - b
    <3>1. b + 1 \in 1 .. d + 1 /\ q \in 0 .. d /\ b + 1 <= q + 1 /\ q - (b + 1) + 1 = q - b  BY <2>9
    <3>2. Len(SubSeq(domain, b + 1, q)) = q - (b + 1) + 1  BY <1>1, <3>1, AnyPart
    <3> QED  BY <3>1, <3>2
  <2>14. LabelFrom(host, a) = LabelFrom(domain, b)  BY <1>5, <2>3, <2>5
  <2>15. p - a = q - b  BY <2>10, <2>11, <2>12, <2>13, <2>14
  <2>16. h - a # d - b  BY <2>3, <2>5
  <2> QED  BY <2>7, <2>15, <2>16
<1>7. n \in 1 .. e  BY <1>2
<1> HIDE DEF Bad
<1>8. n \notin Bad  BY <1>6
<1> QED  BY <1>1, <1>7, <1>8 DEF Bad

(* A path that extends another one ends in the text of the other, after a  *)
(* dot.                                                                    *)
LEMMA ExtendsUnder ==
  ASSUME NEW host \in Seq(Character), NEW domain \in Seq(Character), Extends(host, domain)
  PROVE  \E o \in Nat : Under(host, domain, o)
<1>1. PICK h \in Nat, d \in Nat : h = Len(host) /\ d = Len(domain)  OBVIOUS
<1>2. PICK c \in Nat, e \in Nat : c = Cardinality(Cuts(host)) /\ e = Cardinality(Cuts(domain)) /\ e # 0
  BY CutsAre
<1>3. c > e  BY <1>2 DEF Extends
<1>4. ASSUME NEW k \in 1 .. e
      PROVE  /\ h - Nth(host, k) = d - Nth(domain, k)
             /\ Nth(host, k) \in Cuts(host) /\ Nth(host, k) \in Nat
             /\ Nth(domain, k) \in Nat
  <2>1. k \in 1 .. Cardinality(Cuts(domain)) /\ k \in 1 .. c  BY <1>2, <1>3
  <2>2. Nth(host, k) \in Cuts(host) /\ Nth(domain, k) \in Cuts(domain)  BY <1>2, <2>1, NthIs
  <2> QED  BY <1>1, <2>1, <2>2, CutsAlign, CutsAre
<1>5. ASSUME NEW i \in Cuts(domain)
      PROVE  \E k \in 1 .. e : i = Nth(domain, k) /\ Rank(domain, i) = k - 1
  <2>1. Rank(domain, i) \in 0 .. e - 1  BY <1>2, RankFalls
  <2>2. PICK k \in Int : k = Rank(domain, i) + 1  BY <2>1
  <2>3. Nth(domain, k) = i /\ k \in 1 .. e  BY <1>2, <2>2, NthIs
  <2>4. Rank(domain, i) = k - 1  BY <2>1, <2>2
  <2> QED  BY <2>3, <2>4
<1>6. PICK o \in Nat : o \in Cuts(host) /\ h = o + d /\ o # 0
  <2>1. 0 \in Cuts(domain) /\ 0 \in Cuts(host)  BY CutsAre
  <2>2. PICK k \in 1 .. e : 0 = Nth(domain, k) /\ Rank(domain, 0) = k - 1  BY <1>5, <2>1
  <2>3. PICK o \in Nat : o = Nth(host, k)  BY <1>4
  <2>4. o \in Cuts(host) /\ h - o = d - 0  BY <1>4, <2>2, <2>3
  <2>5. h = o + d  BY <1>1, <2>4
  <2>6. o # 0
    <3> SUFFICES ASSUME o = 0 PROVE FALSE  OBVIOUS
    <3>1. c \in 1 .. c /\ k \in 1 .. c  BY <1>2, <1>3
    <3>2. Rank(host, o) = k - 1  BY <1>2, <2>3, <3>1, NthIs
    <3>3. PICK x \in Cuts(host) : x = Nth(host, c) /\ Rank(host, x) = c - 1  BY <1>2, <3>1, NthIs
    <3>4. x \in Nat  BY CutsAre
    <3>5. CASE x = 0  BY <1>2, <1>3, <3>2, <3>3, <3>5
    <3>6. CASE x # 0
      <4>1. Rank(host, x) < Rank(host, o)  BY <2>1, <3>4, <3>6, RankFalls
      <4> QED  BY <1>2, <1>3, <3>2, <3>3, <4>1
    <3> QED  BY <3>5, <3>6
  <2> QED  BY <2>4, <2>5, <2>6
<1>7. ASSUME NEW i \in Cuts(domain)
      PROVE  o + i \in Cuts(host) /\ LabelFrom(host, o + i) = LabelFrom(domain, i)
  <2>1. PICK k \in 1 .. e : i = Nth(domain, k)  BY <1>5
  <2>2. i \in Nat  BY CutsAre
  <2>3. Nth(host, k) = o + i
    <3>1. PICK x \in Nat : x = Nth(host, k)  BY <1>4
    <3>2. h - x = d - i  BY <1>4, <2>1, <3>1
    <3> QED  BY <1>1, <1>6, <2>2, <3>1, <3>2
  <2>4. Nth(host, k) \in Cuts(host)  BY <1>4
  <2>5. LabelFrom(host, Nth(host, k)) = LabelFrom(domain, Nth(domain, k))  BY <1>2 DEF Extends
  <2> QED  BY <2>1, <2>3, <2>4, <2>5
<1>8. host[o] = "."
  <2>1. o \in Dots(host)  BY <1>6, CutsAre
  <2> QED  BY <2>1 DEF Dots
<1>9. ASSUME NEW i \in 1 .. d PROVE host[o + i] = domain[i]
  <2>1. CASE i \in Dots(domain)
    <3>1. i \in Cuts(domain)  BY <2>1, CutsAre
    <3>2. o + i \in Cuts(host) /\ o + i # 0  BY <1>6, <1>7, <3>1
    <3>3. o + i \in Dots(host)  BY <3>2, CutsAre
    <3> QED  BY <2>1, <3>3 DEF Dots
  <2>2. CASE i \notin Dots(domain)
    <3> DEFINE Above == {j \in Cuts(domain) : j < i}
    <3>1. Above \in SUBSET (0 .. d) /\ 0 \in Above  BY <1>1, CutsAre
    <3>2. \A j \in Cuts(domain) : j < i => j \in Above  OBVIOUS
    <3>3. PICK a \in Above : \A j \in Above : a >= j
      <4> HIDE DEF Above
      <4> QED  BY <1>1, <3>1, GreatestUpTo
    <3>4. a \in Cuts(domain) /\ a < i  OBVIOUS
    <3> HIDE DEF Above
    <3>5. a \in 0 .. d /\ o + a \in 0 .. h  BY <1>1, <1>6, <3>4, CutsAre
    <3>6. PICK f \in a + 1 .. d + 1 :
            /\ LabelFrom(domain, a) = SubSeq(domain, a + 1, f - 1)
            /\ f \in Dots(domain) \cup {d + 1}
      BY <1>1, <3>5, LabelIs
    <3>7. PICK g \in o + a + 1 .. h + 1 : LabelFrom(host, o + a) = SubSeq(host, o + a + 1, g - 1)
      BY <1>1, <3>5, LabelIs
    <3>8. f \in Nat /\ g \in Nat /\ a \in Nat /\ a < f /\ f <= d + 1 /\ o + a < g /\ g <= h + 1
      BY <1>1, <1>6, <3>5, <3>6, <3>7
    <3>9. i < f
      <4>1. i # f  BY <1>1, <2>2, <3>6
      <4>2. ~(f < i)
        <5> SUFFICES ASSUME f < i PROVE FALSE  OBVIOUS
        <5>1. f \in Dots(domain)  BY <1>1, <3>6
        <5>2. f \in Cuts(domain)  BY <5>1, CutsAre
        <5>3. a >= f  BY <3>2, <3>3, <5>2
        <5> QED  BY <3>8, <5>3
      <4> QED  BY <3>8, <4>1, <4>2
    <3>10. PICK p \in Nat, q \in Nat, u \in Nat, v \in Nat :
             p = a + 1 /\ q = f - 1 /\ u = o + a + 1 /\ v = g - 1
      <4>1. a + 1 \in Nat /\ f - 1 \in Nat /\ o + a + 1 \in Nat /\ g - 1 \in Nat  BY <1>6, <3>8
      <4> QED  BY <4>1
    <3>11. p \in 1 .. d + 1 /\ q \in 0 .. d /\ p <= q + 1 /\ u \in 1 .. h + 1 /\ v \in 0 .. h /\ u <= v + 1
      BY <1>1, <1>6, <3>8, <3>10
    <3>12. PICK s \in Seq(Character) : s = SubSeq(domain, p, q) /\ s = SubSeq(host, u, v)
      <4>1. SubSeq(domain, p, q) \in Seq(Character)  BY <1>1, <3>11, AnyPart
      <4>2. LabelFrom(host, o + a) = LabelFrom(domain, a)  BY <1>7, <3>4
      <4> QED  BY <3>6, <3>7, <3>10, <4>1, <4>2
    <3>13. Len(s) = q - p + 1 /\ \A k \in 1 .. q - p + 1 : p + k - 1 \in 1 .. d /\ s[k] = domain[p + k - 1]
      <4>1. s = SubSeq(domain, p, q)  BY <3>12
      <4>2. p \in 1 .. d + 1 /\ q \in 0 .. d /\ p <= q + 1  BY <3>11
      <4>3. /\ Len(SubSeq(domain, p, q)) = q - p + 1
            /\ \A k \in 1 .. q - p + 1 : p + k - 1 \in 1 .. d /\ SubSeq(domain, p, q)[k] = domain[p + k - 1]
        BY <1>1, <4>2, AnyPart
      <4> QED  BY <4>1, <4>3
    <3>14. Len(s) = v - u + 1 /\ \A k \in 1 .. v - u + 1 : u + k - 1 \in 1 .. h /\ s[k] = host[u + k - 1]
      BY <1>1, <3>11, <3>12, AnyPart
    <3>15. PICK k \in Nat : k = i - a
      <4>1. i - a \in Nat  BY <3>4, <3>8
      <4> QED  BY <4>1
    <3>16. k \in 1 .. q - p + 1 /\ p + k - 1 = i /\ u + k - 1 = o + i
      BY <1>1, <1>6, <3>4, <3>8, <3>9, <3>10, <3>15
    <3>17. q - p + 1 = v - u + 1  BY <3>13, <3>14
    <3> QED  BY <3>13, <3>14, <3>16, <3>17
  <2> QED  BY <2>1, <2>2
<1>10. Under(host, domain, o)  BY <1>1, <1>6, <1>8, <1>9 DEF Under
<1> QED  BY <1>10

(* Comparing the end of the host byte by byte, as the code does, is        *)
(* comparing labels from the top level down.                               *)
LEMMA BytesAreLabels ==
  ASSUME NEW host \in Hosts, NEW domain \in Hosts
  PROVE  IsSubdomainOf(host, domain) <=> Below(host, domain)
<1>1. host \in Seq(Character) /\ domain \in Seq(Character)  BY HostsTyped
<1>2. Paths[host] = LabelPath(host) /\ Paths[domain] = LabelPath(domain)  BY DEF Paths
<1>3. Below(host, domain) <=> Extends(host, domain)  BY <1>1, <1>2, ExtendsIs DEF Below
<1>4. IsSubdomainOf(host, domain) <=> \E o \in Nat : Under(host, domain, o)  BY <1>1, SubdomainIs
<1>5. (\E o \in Nat : Under(host, domain, o)) => Extends(host, domain)  BY <1>1, UnderExtends
<1>6. Extends(host, domain) => \E o \in Nat : Under(host, domain, o)  BY <1>1, ExtendsUnder
<1> QED  BY <1>3, <1>4, <1>5, <1>6

(* A subdomain rule covers exactly the hosts below its domain in the tree  *)
(* of names, and no rule is about what is below an address.                *)
THEOREM RulesCoverTheTree == Spec => []SubdomainsAreBelow
<1>1. Subdomains
  <2> SUFFICES ASSUME NEW domain \in Hosts, ~IsIpLiteral(domain), NEW host \in Hosts
               PROVE  MatchesHost(Matcher("subdomains", domain), host) <=> Below(host, domain)
    BY DEF Subdomains
  <2>1. NormalizeHost(domain) = domain /\ domain # NoHost  BY HostsTyped
  <2>2. Matcher("subdomains", domain) = [kind |-> "subdomains", value |-> domain]
    BY <2>1 DEF Matcher
  <2>3. MatchesHost(Matcher("subdomains", domain), host) <=> IsSubdomainOf(host, domain)
    BY <2>2 DEF MatchesHost
  <2> QED  BY <2>3, BytesAreLabels
<1>2. IInv => SubdomainsAreBelow
  BY <1>1 DEF SubdomainsAreBelow, IInv, RowsInv, RowOK
<1> QED  BY <1>2, Inductive, PTL
=============================================================================
