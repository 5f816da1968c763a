-------------------------- MODULE PreprocessProofs --------------------------
(***************************************************************************)
(* Preprocess keeps to its arrays and limits, and a macro is marked        *)
(* exactly while it is being replaced, for every source, set of macros and *)
(* limit.  The inductive invariant says what each activation was called    *)
(* for: only the outermost one works on a line of the file.                *)
(***************************************************************************)
EXTENDS Preprocess, Lists, TLAPS, SequenceTheorems, WellFoundedInduction

-----------------------------------------------------------------------------
(* Sequences whose elements may be anything *)

(* A set of naturals with a member has a least one. *)
LEMMA LeastIn ==
  ASSUME NEW T, T \subseteq Nat, T # {}
  PROVE  Min(T) \in T /\ \A y \in T : Min(T) <= y
<1>1. IsWellFoundedOn(OpToRel(<, Nat), Nat)
  BY NatLessThanWellFounded
<1>2. PICK x \in T : \A y \in T : ~ (<<y, x>> \in OpToRel(<, Nat))
  BY <1>1, WFMin
<1>3. \A y \in T : x <= y
  <2>1. \A y \in T : ~ (y < x)
    BY <1>2 DEF OpToRel
  <2> QED
    BY <2>1
<1> QED
  BY <1>3 DEF Min

(* The elements of a sequence may be anything. *)
LEMMA TypedSeq ==
  ASSUME NEW S, NEW s \in Seq(S)
  PROVE  IsSeq(s)
BY SeqOfRange DEF IsSeq

(* A sequence, as the modules that prove things use it. *)
LEMMA SeqFacts ==
  ASSUME NEW s, IsSeq(s)
  PROVE  /\ Len(s) \in Nat
         /\ DOMAIN s = 1 .. Len(s)
         /\ s # <<>> => Len(s) >= 1
         /\ s # <<>> => Last(s) = s[Len(s)]
BY LenProperties, EmptySeq DEF IsSeq, Last

(* The last element replaced. *)
LEMMA ReplaceLast ==
  ASSUME NEW s, IsSeq(s), s # <<>>, NEW x
  PROVE  LET t == Append(Front(s), x)
         IN /\ IsSeq(t) /\ t # <<>>
            /\ Len(t) = Len(s) /\ Last(t) = x /\ t[Len(s)] = x
            /\ \A k \in DOMAIN s : k # Len(s) => t[k] = s[k]
<1> DEFINE S == Range(s) \cup {x}
           t == Append(Front(s), x)
<1>1. Len(s) \in Nat /\ DOMAIN s = 1 .. Len(s) /\ Len(s) >= 1
  BY SeqFacts
<1>2. s \in Seq(S)
  BY SeqMonotonic DEF IsSeq
<1>3. /\ Front(s) \in Seq(S) /\ Len(Front(s)) = Len(s) - 1
      /\ \A k \in 1 .. Len(s) - 1 : Front(s)[k] = s[k]
  BY <1>1, <1>2, SubSeqProperties DEF Front
<1>4. /\ t \in Seq(S) /\ t # <<>> /\ Len(t) = Len(s) /\ t[Len(s)] = x
      /\ \A k \in 1 .. Len(s) - 1 : t[k] = s[k]
  <2> DEFINE f == Front(s)
  <2>1. x \in S /\ f \in Seq(S) /\ Len(f) = Len(s) - 1
    BY <1>3
  <2>2. \A k \in 1 .. Len(s) - 1 : f[k] = s[k]
    BY <1>3
  <2>3. t = Append(f, x)
    OBVIOUS
  <2>. HIDE DEF S, f, t
  <2>4. /\ t \in Seq(S) /\ t # <<>> /\ Len(t) = Len(f) + 1
        /\ \A k \in 1 .. Len(f) : t[k] = f[k]
        /\ t[Len(f) + 1] = x
    BY <2>1, <2>3, AppendProperties
  <2> QED
    BY <1>1, <2>1, <2>2, <2>4
<1>5. IsSeq(t) /\ Last(t) = x
  BY <1>4, TypedSeq DEF Last
<1> QED
  BY <1>1, <1>4, <1>5

(* One more on top. *)
LEMMA PushOne ==
  ASSUME NEW s, IsSeq(s), NEW x, NEW t, t = s \o <<x>>
  PROVE  /\ IsSeq(t) /\ t # <<>>
         /\ Len(t) = Len(s) + 1 /\ Last(t) = x /\ t[Len(s) + 1] = x
         /\ \A k \in DOMAIN s : t[k] = s[k]
<1> DEFINE S == Range(s) \cup {x}
<1>1. Len(s) \in Nat /\ DOMAIN s = 1 .. Len(s)
  BY SeqFacts
<1>2. s \in Seq(S) /\ x \in S
  BY SeqMonotonic DEF IsSeq
<1>. HIDE DEF S
<1>3. <<x>> \in Seq(S)
  BY <1>2
<1>4. /\ t \in Seq(S) /\ Len(t) = Len(s) + 1
      /\ \A k \in 1 .. Len(s) + 1 : t[k] = IF k <= Len(s) THEN s[k] ELSE x
  BY <1>2, <1>3
<1>5. t # <<>>
  BY <1>1, <1>4
<1>6. IsSeq(t)
  BY <1>4, TypedSeq
<1>7. Last(t) = x
  BY <1>1, <1>4 DEF Last
<1> QED
  BY <1>1, <1>4, <1>5, <1>6, <1>7

(* The one below the top, after the top returned to it. *)
LEMMA PopOnto ==
  ASSUME NEW s, IsSeq(s), Len(s) >= 2, NEW x
  PROVE  LET t == Append(Front(Front(s)), x)
         IN /\ IsSeq(t) /\ t # <<>>
            /\ Len(t) = Len(s) - 1 /\ Last(t) = x /\ t[Len(s) - 1] = x
            /\ \A k \in DOMAIN s : k < Len(s) - 1 => t[k] = s[k]
<1>1. Len(s) \in Nat /\ DOMAIN s = 1 .. Len(s)
  BY SeqFacts
<1>2. /\ Front(s) \in Seq(Range(s)) /\ Len(Front(s)) = Len(s) - 1
      /\ \A k \in 1 .. Len(s) - 1 : Front(s)[k] = s[k]
  BY <1>1, SubSeqProperties DEF Front, IsSeq
<1>3. IsSeq(Front(s)) /\ Front(s) # <<>> /\ DOMAIN Front(s) = 1 .. Len(s) - 1
  BY <1>1, <1>2, TypedSeq, SeqFacts
<1> DEFINE f == Front(s)
           t == Append(Front(f), x)
<1>4. /\ IsSeq(t) /\ t # <<>>
      /\ Len(t) = Len(f) /\ Last(t) = x /\ t[Len(f)] = x
      /\ \A k \in DOMAIN f : k # Len(f) => t[k] = f[k]
  <2>1. IsSeq(f) /\ f # <<>>
    BY <1>3
  <2>. HIDE DEF f
  <2> QED
    BY <2>1, ReplaceLast
<1>5. Len(f) = Len(s) - 1 /\ DOMAIN f = 1 .. Len(s) - 1 /\ \A k \in 1 .. Len(s) - 1 : f[k] = s[k]
  BY <1>2, <1>3
<1>. HIDE DEF f
<1>6. \A k \in DOMAIN s : k < Len(s) - 1 => t[k] = s[k]
  BY <1>1, <1>4, <1>5
<1> QED
  BY <1>4, <1>5, <1>6 DEF f

-----------------------------------------------------------------------------

CallFields == {"do", "for", "macro", "args", "tokens", "at", "out"}
FileFields == {"path", "at", "groups", "active"}

(* The outermost call expands a line; the others expand an argument of the *)
(* call below or what a macro is replaced by.                              *)
OfLine == {"line", "if", "elif"}
Inner  == {"argument", "rescan"}

GoodCall(c) ==
  /\ DOMAIN c = CallFields
  /\ c.for \in OfLine \cup Inner
  /\ c.do = "substitute" => c.for = "rescan"
  /\ (c.macro # NoMacro) <=> (c.for = "rescan")

CallsInv ==
  /\ NoMacro \notin DOMAIN macros
  /\ IsSeq(calls)
  /\ \A k \in DOMAIN calls :
       /\ GoodCall(calls[k])
       /\ calls[k].for \in OfLine <=> k = 1
       /\ calls[k].macro # NoMacro => calls[k].macro \in DOMAIN macros
  /\ MarksFollowCalls

GoodFile(f) ==
  /\ DOMAIN f = FileFields
  /\ f.path \in DOMAIN source.files
  /\ f.at \in 1 .. Len(source.files[f.path]) + 1
  /\ IsSeq(f.groups)
  /\ Len(f.groups) <= MaxGroups

FilesInv ==
  /\ source \in Sources
  /\ once \subseteq DOMAIN source.files
  /\ IsSeq(reading)
  /\ Len(reading) <= MaxIncludes + 1
  /\ \A k \in DOMAIN reading : GoodFile(reading[k])

(* An #if whose line is being expanded still has room for its group, and   *)
(* an #elif a group to decide.                                             *)
GroupPending ==
  calls # <<>> =>
    /\ reading # <<>>
    /\ calls[1].for = "if" => Len(Here.groups) < MaxGroups
    /\ calls[1].for = "elif" => Here.groups # <<>>

PInv == CallsInv /\ FilesInv /\ GroupPending

-----------------------------------------------------------------------------
(* What the moves of the call stack keep *)

LEMMA TopFacts ==
  ASSUME CallsInv, calls # <<>>
  PROVE  /\ Len(calls) \in Nat /\ Len(calls) >= 1 /\ DOMAIN calls = 1 .. Len(calls)
         /\ Top = calls[Len(calls)]
         /\ GoodCall(Top)
         /\ Top.for \in OfLine <=> Len(calls) = 1
         /\ Top.macro # NoMacro => Top.macro \in DOMAIN macros
<1>1. IsSeq(calls)
  BY DEF CallsInv
<1>2. /\ Len(calls) \in Nat /\ Len(calls) >= 1 /\ DOMAIN calls = 1 .. Len(calls)
      /\ Top = calls[Len(calls)]
  BY <1>1, SeqFacts DEF Top
<1>3. Len(calls) \in DOMAIN calls
  BY <1>2
<1> QED
  BY <1>2, <1>3 DEF CallsInv

(* The innermost call goes on. *)
LEMMA InnermostKeeps ==
  ASSUME CallsInv, calls # <<>>, NEW c, GoodCall(c),
         c.for = Top.for, c.macro = Top.macro,
         calls' = Append(Front(calls), c), UNCHANGED <<macros, expanding>>
  PROVE  CallsInv' /\ calls' # <<>> /\ calls'[1].for = calls[1].for
<1>1. /\ Len(calls) \in Nat /\ Len(calls) >= 1 /\ DOMAIN calls = 1 .. Len(calls)
      /\ Top = calls[Len(calls)]
  BY TopFacts
<1>2. /\ IsSeq(calls') /\ calls' # <<>> /\ Len(calls') = Len(calls)
      /\ calls'[Len(calls)] = c
      /\ \A k \in DOMAIN calls : k # Len(calls) => calls'[k] = calls[k]
  <2>1. IsSeq(calls)
    BY DEF CallsInv
  <2> QED
    BY <2>1, ReplaceLast
<1>3. DOMAIN calls' = DOMAIN calls
  BY <1>1, <1>2, SeqFacts
<1>4. \A k \in DOMAIN calls :
        calls'[k].for = calls[k].for /\ calls'[k].macro = calls[k].macro /\ GoodCall(calls'[k])
  BY <1>1, <1>2 DEF CallsInv
<1>5. MarksFollowCalls'
  BY <1>3, <1>4 DEF CallsInv, MarksFollowCalls
<1>6. 1 \in DOMAIN calls
  BY <1>1
<1> QED
  BY <1>2, <1>3, <1>4, <1>5, <1>6 DEF CallsInv

(* The innermost call makes another; a macro it is for was not marked. *)
LEMMA PushKeeps ==
  ASSUME CallsInv, calls # <<>>, NEW c, GoodCall(c),
         c.for = Top.for, c.macro = Top.macro,
         NEW n, GoodCall(n), n.for \in Inner,
         n.macro = NoMacro \/ n.macro \in DOMAIN macros \ expanding,
         calls' = Append(Front(calls), c) \o <<n>>,
         expanding' = expanding \cup ({n.macro} \ {NoMacro}), macros' = macros
  PROVE  CallsInv' /\ calls' # <<>> /\ calls'[1].for = calls[1].for
<1> DEFINE s == Append(Front(calls), c)
<1>1. /\ Len(calls) \in Nat /\ Len(calls) >= 1 /\ DOMAIN calls = 1 .. Len(calls)
      /\ Top = calls[Len(calls)]
  BY TopFacts
<1>2. /\ IsSeq(s) /\ s # <<>> /\ Len(s) = Len(calls)
      /\ s[Len(calls)] = c
      /\ \A k \in DOMAIN calls : k # Len(calls) => s[k] = calls[k]
  <2>1. IsSeq(calls)
    BY DEF CallsInv
  <2> QED
    BY <2>1, ReplaceLast
<1>3. calls' = s \o <<n>>
  OBVIOUS
<1>. HIDE DEF s
<1>4. /\ IsSeq(calls') /\ calls' # <<>> /\ Len(calls') = Len(calls) + 1
      /\ calls'[Len(calls) + 1] = n
      /\ \A k \in DOMAIN calls : calls'[k] = s[k]
  <2>1. DOMAIN s = DOMAIN calls
    BY <1>1, <1>2, SeqFacts
  <2>2. IsSeq(calls')
    BY <1>2, <1>3, <2>1, PushOne
  <2>3. Len(calls') = Len(s) + 1
    BY <1>2, <1>3, <2>1, PushOne
  <2>4. calls'[Len(s) + 1] = n
    BY <1>2, <1>3, <2>1, PushOne
  <2>5. calls' # <<>>
    BY <1>2, <1>3, <2>1, PushOne
  <2>6. \A k \in DOMAIN calls : calls'[k] = s[k]
    BY <1>2, <1>3, <2>1, PushOne
  <2> QED
    BY <1>2, <2>2, <2>3, <2>4, <2>5, <2>6
<1>5. DOMAIN calls' = DOMAIN calls \cup {Len(calls) + 1} /\ Len(calls) + 1 \notin DOMAIN calls
  <2>1. DOMAIN calls' = 1 .. Len(calls')
    BY <1>4, SeqFacts
  <2> QED
    BY <1>1, <1>4, <2>1
<1>6. \A k \in DOMAIN calls :
        calls'[k].for = calls[k].for /\ calls'[k].macro = calls[k].macro /\ GoodCall(calls'[k])
  BY <1>1, <1>2, <1>4 DEF CallsInv
<1>7. MarksFollowCalls'
  <2>1. \A k \in DOMAIN calls : calls[k].macro # NoMacro => calls[k].macro # n.macro
    BY DEF CallsInv, MarksFollowCalls
  <2>2. \A j, k \in DOMAIN calls' : calls'[j].macro = calls'[k].macro /\ calls'[j].macro # NoMacro => j = k
    <3>1. \A j, k \in DOMAIN calls : calls[j].macro = calls[k].macro /\ calls[j].macro # NoMacro => j = k
      BY DEF CallsInv, MarksFollowCalls
    <3>2. ASSUME NEW j \in DOMAIN calls', NEW k \in DOMAIN calls',
                 calls'[j].macro = calls'[k].macro, calls'[j].macro # NoMacro
          PROVE  j = k
      <4>1. CASE j \in DOMAIN calls /\ k \in DOMAIN calls
        BY <1>6, <3>1, <3>2, <4>1
      <4>2. CASE j = Len(calls) + 1 /\ k \in DOMAIN calls
        BY <1>4, <1>6, <2>1, <3>2, <4>2
      <4>3. CASE k = Len(calls) + 1 /\ j \in DOMAIN calls
        BY <1>4, <1>6, <2>1, <3>2, <4>3
      <4> QED
        BY <1>5, <3>2, <4>1, <4>2, <4>3
    <3> QED
      BY <3>2
  <2>3. expanding = {calls[k].macro : k \in DOMAIN calls} \ {NoMacro}
    BY DEF CallsInv, MarksFollowCalls
  <2>4. {calls'[k].macro : k \in DOMAIN calls'} = {calls[k].macro : k \in DOMAIN calls} \cup {n.macro}
    <3> DEFINE D == DOMAIN calls
               l == Len(calls) + 1
    <3>1. \A k \in D : calls'[k].macro = calls[k].macro
      BY <1>6
    <3>2. calls'[l].macro = n.macro /\ DOMAIN calls' = D \cup {l}
      BY <1>4, <1>5
    <3>. HIDE DEF D, l
    <3>3. {calls'[k].macro : k \in DOMAIN calls'} = {calls[k].macro : k \in D} \cup {n.macro}
      <4>1. \A x : (\E k \in D \cup {l} : calls'[k].macro = x)
                   <=> (\E k \in D : calls[k].macro = x) \/ x = n.macro
        BY <3>1, <3>2
      <4>2. {calls'[k].macro : k \in D \cup {l}} = {calls[k].macro : k \in D} \cup {n.macro}
        BY <4>1, Zenon
      <4> QED
        BY <3>2, <4>2, Zenon
    <3> QED
      BY <3>3 DEF D
  <2>5. expanding' = {calls'[k].macro : k \in DOMAIN calls'} \ {NoMacro}
    <3> DEFINE A == {calls[k].macro : k \in DOMAIN calls}
               B == {calls'[k].macro : k \in DOMAIN calls'}
    <3>1. B = A \cup {n.macro} /\ expanding = A \ {NoMacro}
      BY <2>3, <2>4
    <3>. HIDE DEF A, B
    <3>2. expanding' = B \ {NoMacro}
      BY <3>1
    <3> QED
      BY <3>2 DEF B
  <2> QED
    BY <2>2, <2>5 DEF MarksFollowCalls
<1>8. \A k \in DOMAIN calls' :
        /\ GoodCall(calls'[k])
        /\ calls'[k].for \in OfLine <=> k = 1
        /\ calls'[k].macro # NoMacro => calls'[k].macro \in DOMAIN macros
  <2>1. n.for \notin OfLine /\ Len(calls) + 1 # 1
    BY <1>1 DEF Inner, OfLine
  <2> QED
    BY <1>4, <1>5, <1>6, <2>1 DEF CallsInv
<1>9. 1 \in DOMAIN calls
  BY <1>1
<1> QED
  BY <1>4, <1>6, <1>7, <1>8, <1>9 DEF CallsInv

(* The innermost call returns to the one below it, and unmarks its macro. *)
LEMMA PopKeeps ==
  ASSUME CallsInv, calls # <<>>, Top.for \in Inner, NEW c, GoodCall(c),
         c.for = calls[Len(calls) - 1].for, c.macro = calls[Len(calls) - 1].macro,
         calls' = Append(Front(Front(calls)), c),
         expanding' = expanding \ {Top.macro}, macros' = macros
  PROVE  CallsInv' /\ calls' # <<>> /\ calls'[1].for = calls[1].for
<1>1. /\ Len(calls) \in Nat /\ Len(calls) >= 2 /\ DOMAIN calls = 1 .. Len(calls)
      /\ Top = calls[Len(calls)]
  BY TopFacts DEF Inner, OfLine
<1>2. /\ IsSeq(calls') /\ calls' # <<>> /\ Len(calls') = Len(calls) - 1
      /\ calls'[Len(calls) - 1] = c
      /\ \A k \in DOMAIN calls : k < Len(calls) - 1 => calls'[k] = calls[k]
  <2>1. IsSeq(calls)
    BY DEF CallsInv
  <2> QED
    BY <1>1, <2>1, PopOnto
<1>3. DOMAIN calls' = DOMAIN calls \ {Len(calls)}
  <2>1. DOMAIN calls' = 1 .. Len(calls')
    BY <1>2, SeqFacts
  <2>2. \A n \in Nat : n >= 2 => 1 .. n - 1 = (1 .. n) \ {n}
    OBVIOUS
  <2> QED
    BY <1>1, <1>2, <2>1, <2>2
<1>4. \A k \in DOMAIN calls' :
        calls'[k].for = calls[k].for /\ calls'[k].macro = calls[k].macro /\ GoodCall(calls'[k])
  BY <1>1, <1>2, <1>3 DEF CallsInv
<1>5. MarksFollowCalls'
  <2>1. \A j, k \in DOMAIN calls : calls[j].macro = calls[k].macro /\ calls[j].macro # NoMacro => j = k
    BY DEF CallsInv, MarksFollowCalls
  <2>2. \A k \in DOMAIN calls' : calls[k].macro = Top.macro => Top.macro = NoMacro
    BY <1>1, <1>3, <2>1
  <2>3. {calls[k].macro : k \in DOMAIN calls} = {calls[k].macro : k \in DOMAIN calls'} \cup {Top.macro}
    BY <1>1, <1>3
  <2>4. expanding = {calls[k].macro : k \in DOMAIN calls} \ {NoMacro}
    BY DEF CallsInv, MarksFollowCalls
  <2>5. {calls'[k].macro : k \in DOMAIN calls'} = {calls[k].macro : k \in DOMAIN calls'}
    BY <1>4
  <2>6. expanding' = {calls'[k].macro : k \in DOMAIN calls'} \ {NoMacro}
    BY <2>2, <2>3, <2>4, <2>5
  <2>7. \A j, k \in DOMAIN calls' : calls'[j].macro = calls'[k].macro /\ calls'[j].macro # NoMacro => j = k
    BY <1>3, <1>4, <2>1
  <2> QED
    BY <2>6, <2>7 DEF MarksFollowCalls
<1>6. 1 \in DOMAIN calls' /\ DOMAIN calls' \subseteq DOMAIN calls
  BY <1>1, <1>3
<1> QED
  BY <1>2, <1>4, <1>5, <1>6 DEF CallsInv

(* Between two lines of a file nothing is being replaced. *)
LEMMA NoCallKeeps ==
  ASSUME CallsInv, calls = <<>>, calls' = <<>>, expanding' = expanding,
         NoMacro \notin DOMAIN macros'
  PROVE  CallsInv'
<1>1. DOMAIN calls = {} /\ DOMAIN calls' = {}
  OBVIOUS
<1>2. IsSeq(calls')
  BY DEF CallsInv
<1>3. expanding = {}
  BY <1>1 DEF CallsInv, MarksFollowCalls
<1> QED
  BY <1>1, <1>2, <1>3 DEF CallsInv, MarksFollowCalls

(* A line begins to be expanded. *)
LEMMA FirstCallKeeps ==
  ASSUME CallsInv, calls = <<>>, NEW ts, NEW f \in OfLine,
         calls' = <<Expansion(ts, f, NoMacro)>>, UNCHANGED <<macros, expanding>>
  PROVE  CallsInv' /\ calls'[1].for = f
<1> DEFINE c == Expansion(ts, f, NoMacro)
<1>1. GoodCall(c) /\ c.for = f /\ c.macro = NoMacro
  BY DEF Expansion, GoodCall, CallFields, OfLine, Inner
<1>2. expanding = {}
  BY DEF CallsInv, MarksFollowCalls
<1>. HIDE DEF c
<1>3. calls' = <<c>>
  BY DEF c
<1>4. calls' \in Seq({c}) /\ DOMAIN calls' = {1} /\ calls'[1] = c
  BY <1>3
<1>5. IsSeq(calls')
  BY <1>4, TypedSeq
<1> QED
  BY <1>1, <1>2, <1>4, <1>5 DEF CallsInv, MarksFollowCalls

(* The line is expanded, and no macro is marked any more. *)
LEMMA LineReturns ==
  ASSUME CallsInv, calls # <<>>, Top.for \in OfLine, calls' = <<>>, UNCHANGED <<macros, expanding>>
  PROVE  CallsInv' /\ calls[1] = Top
<1>1. Len(calls) = 1 /\ DOMAIN calls = {1} /\ calls[1] = Top
  BY TopFacts
<1>2. calls[1].macro = NoMacro
  BY <1>1 DEF CallsInv, GoodCall, OfLine, Inner
<1>3. expanding = {}
  BY <1>1, <1>2 DEF CallsInv, MarksFollowCalls
<1>4. DOMAIN calls' = {} /\ IsSeq(calls')
  BY DEF IsSeq
<1> QED
  BY <1>1, <1>3, <1>4 DEF CallsInv, MarksFollowCalls

-----------------------------------------------------------------------------
(* What the moves in the files keep *)

LEMMA HereFacts ==
  ASSUME FilesInv, reading # <<>>
  PROVE  /\ Len(reading) \in Nat /\ Len(reading) >= 1 /\ DOMAIN reading = 1 .. Len(reading)
         /\ GoodFile(Here)
         /\ Tokens \in Seq(SourceTokens) /\ Len(Tokens) \in Nat
         /\ Here.at \in 1 .. Len(Tokens) + 1
<1>1. /\ Len(reading) \in Nat /\ Len(reading) >= 1 /\ DOMAIN reading = 1 .. Len(reading)
      /\ Here = reading[Len(reading)]
  BY SeqFacts DEF FilesInv, Here
<1>2. GoodFile(Here)
  BY <1>1 DEF FilesInv
<1>3. Tokens \in Seq(SourceTokens)
  BY <1>2, SourcesLexed DEF FilesInv, GoodFile, Tokens
<1>4. Len(Tokens) \in Nat
  BY <1>3
<1> QED
  BY <1>1, <1>2, <1>3, <1>4 DEF GoodFile, Tokens

LEMMA ReadOnKeeps ==
  ASSUME FilesInv, reading # <<>>, NEW f, GoodFile(f), ReadOn(f),
         source' = source, once' \subseteq DOMAIN source.files
  PROVE  FilesInv' /\ reading' # <<>> /\ Here' = f
<1>1. Len(reading) \in Nat /\ Len(reading) >= 1 /\ DOMAIN reading = 1 .. Len(reading)
  BY HereFacts
<1>2. /\ IsSeq(reading') /\ reading' # <<>> /\ Len(reading') = Len(reading)
      /\ Last(reading') = f /\ reading'[Len(reading)] = f
      /\ \A k \in DOMAIN reading : k # Len(reading) => reading'[k] = reading[k]
  BY ReplaceLast DEF FilesInv, ReadOn
<1>3. DOMAIN reading' = DOMAIN reading
  BY <1>1, <1>2, SeqFacts
<1>4. \A k \in DOMAIN reading' : GoodFile(reading'[k])
  BY <1>1, <1>2, <1>3 DEF FilesInv
<1>5. \A g : GoodFile(g) => g.path \in DOMAIN source'.files
                            /\ g.at \in 1 .. Len(source'.files[g.path]) + 1
  BY DEF GoodFile
<1> QED
  BY <1>2, <1>4, <1>5 DEF FilesInv, GoodFile, Here

(* LineEnd is a position of the line after it, or past the last token. *)
LEMMA LineEndFits ==
  ASSUME NEW S, NEW ts \in Seq(S), NEW k \in Nat \ {0}
  PROVE  LineEnd(ts, k) \in 1 .. Len(ts) + 1
<1> DEFINE T == {j \in k .. Len(ts) : StartsLine(ts[j])} \cup {Len(ts) + 1}
<1>1. T \subseteq Nat /\ T # {} /\ T \subseteq 1 .. Len(ts) + 1
  OBVIOUS
<1>2. Min(T) \in T
  <2>. HIDE DEF T
  <2> QED
    BY <1>1, LeastIn
<1> QED
  BY <1>1, <1>2 DEF LineEnd

(* The directive being read is over. *)
LEMMA PastFacts ==
  ASSUME FilesInv, OnDirective
  PROVE  /\ reading # <<>> /\ calls = <<>>
         /\ GoodFile(Past) /\ Past.groups = Here.groups
         /\ Words \in Seq(SourceTokens)
<1>1. reading # <<>> /\ calls = <<>> /\ Here.at <= Len(Tokens)
  BY DEF OnDirective, Scanning
<1>2. /\ GoodFile(Here)
      /\ Tokens \in Seq(SourceTokens) /\ Len(Tokens) \in Nat
      /\ Here.at \in 1 .. Len(Tokens) + 1
  BY <1>1, HereFacts
<1>3. DirectiveEnd \in 1 .. Len(Tokens) + 1
  BY <1>2, LineEndFits DEF DirectiveEnd
<1>4. GoodFile(Past) /\ Past.groups = Here.groups
  BY <1>2, <1>3 DEF Past, GoodFile, FileFields, Tokens
<1>5. Words \in Seq(SourceTokens)
  <2>1. \A i \in Here.at + 1 .. DirectiveEnd - 1 : Tokens[i] \in SourceTokens
    BY <1>2, <1>3
  <2> QED
    BY <1>2, <1>3, <2>1, SubSeqProperties DEF Words
<1> QED
  BY <1>1, <1>4, <1>5

-----------------------------------------------------------------------------
(* Directives *)

(* A directive that makes no call leaves a file to go on with. *)
LEMMA DirectiveKeeps ==
  ASSUME PInv, OnDirective, NEW f, GoodFile(f), ReadOn(f),
         UNCHANGED <<source, expanding, calls>>,
         once' \subseteq DOMAIN source.files, NoMacro \notin DOMAIN macros'
  PROVE  PInv'
<1>1. reading # <<>> /\ calls = <<>>
  BY DEF OnDirective, Scanning
<1>2. CallsInv'
  BY <1>1, NoCallKeeps DEF PInv
<1>3. FilesInv'
  BY <1>1, ReadOnKeeps DEF PInv
<1> QED
  BY <1>1, <1>2, <1>3 DEF PInv, GroupPending

(* The tables are left alone. *)
LEMMA PlainDirectiveKeeps ==
  ASSUME PInv, OnDirective, NEW f, GoodFile(f), ReadOn(f), UNCHANGED <<tableVars, calls>>
  PROVE  PInv'
BY DirectiveKeeps DEF PInv, CallsInv, FilesInv, tableVars

LEMMA IgnoredKeeps ==
  ASSUME PInv, OnDirective, NEW isError, Ignored(isError)
  PROVE  PInv'
<1>1. GoodFile(Past)
  BY PastFacts DEF PInv
<1> QED
  BY <1>1, PlainDirectiveKeeps DEF Ignored

(* A group more, where there is room for it. *)
LEMMA EnterGood ==
  ASSUME NEW f, GoodFile(f), Len(f.groups) < MaxGroups, NEW a, NEW c
  PROVE  GoodFile(Enter(f, a, c))
<1> DEFINE gs == Append(f.groups, Group(a, c))
<1>1. IsSeq(gs) /\ Len(gs) <= MaxGroups
  <2> DEFINE S == Range(f.groups) \cup {Group(a, c)}
  <2>1. f.groups \in Seq(S) /\ Group(a, c) \in S
    BY SeqMonotonic DEF GoodFile, IsSeq
  <2>2. gs \in Seq(S) /\ Len(gs) = Len(f.groups) + 1
    <3>. HIDE DEF S
    <3> QED
      BY <2>1, AppendProperties
  <2>3. Len(f.groups) \in Nat
    BY SeqFacts DEF GoodFile
  <2>4. IsSeq(gs)
    <3>. HIDE DEF gs, S
    <3> QED
      BY <2>2, TypedSeq
  <2> QED
    BY <2>2, <2>3, <2>4, LimitsNat
<1>2. Enter(f, a, c) = [f EXCEPT !.groups = gs, !.active = a /\ c]
  BY DEF Enter, GoodFile, FileFields
<1>. HIDE DEF gs
<1> QED
  BY <1>1, <1>2 DEF GoodFile, FileFields

(* The innermost group changed, or the last one closed. *)
LEMMA RegroupGood ==
  ASSUME NEW f, GoodFile(f), f.groups # <<>>, NEW g, NEW a
  PROVE  /\ GoodFile([f EXCEPT !.groups = Append(Front(@), g), !.active = a])
         /\ GoodFile([f EXCEPT !.groups = Front(@), !.active = a])
<1>1. IsSeq(f.groups) /\ Len(f.groups) \in Nat /\ Len(f.groups) >= 1
  BY SeqFacts DEF GoodFile
<1>2. IsSeq(Append(Front(f.groups), g)) /\ Len(Append(Front(f.groups), g)) = Len(f.groups)
  BY <1>1, ReplaceLast
<1>3. Front(f.groups) \in Seq(Range(f.groups)) /\ Len(Front(f.groups)) = Len(f.groups) - 1
  BY <1>1, SubSeqProperties DEF Front, IsSeq
<1>4. IsSeq(Front(f.groups)) /\ Len(Front(f.groups)) <= MaxGroups
  BY <1>1, <1>3, TypedSeq, LimitsNat DEF GoodFile
<1> DEFINE gs == Append(Front(f.groups), g)
           hs == Front(f.groups)
<1>5. IsSeq(gs) /\ Len(gs) <= MaxGroups /\ IsSeq(hs) /\ Len(hs) <= MaxGroups
  BY <1>2, <1>4 DEF GoodFile
<1>. HIDE DEF gs, hs
<1>6. /\ GoodFile([f EXCEPT !.groups = gs, !.active = a])
      /\ GoodFile([f EXCEPT !.groups = hs, !.active = a])
  BY <1>5 DEF GoodFile, FileFields
<1>7. /\ [f EXCEPT !.groups = gs, !.active = a] = [f EXCEPT !.groups = Append(Front(@), g), !.active = a]
      /\ [f EXCEPT !.groups = hs, !.active = a] = [f EXCEPT !.groups = Front(@), !.active = a]
  BY DEF gs, hs, GoodFile, FileFields
<1> QED
  BY <1>6, <1>7

(* The line of an #if or #elif begins to be expanded. *)
LEMMA EvaluatingKeeps ==
  ASSUME PInv, OnDirective, NEW for \in {"if", "elif"}, Evaluating(for),
         for = "if" => Len(Here.groups) < MaxGroups,
         for = "elif" => Here.groups # <<>>
  PROVE  PInv'
<1> DEFINE line == ResolveDefined(Args)
<1>1. /\ calls' = <<Expansion(line.tokens, for, NoMacro)>>
      /\ ReadOn(Past) /\ UNCHANGED tableVars
  BY DEF Evaluating
<1>2. reading # <<>> /\ calls = <<>> /\ GoodFile(Past) /\ Past.groups = Here.groups
  BY PastFacts DEF PInv
<1>. HIDE DEF line
<1>3. CallsInv' /\ calls'[1].for = for
  BY <1>1, <1>2, FirstCallKeeps DEF PInv, tableVars, OfLine
<1>4. FilesInv' /\ reading' # <<>> /\ Here' = Past
  BY <1>1, <1>2, ReadOnKeeps DEF PInv, FilesInv, tableVars
<1> QED
  BY <1>2, <1>3, <1>4 DEF PInv, GroupPending

LEMMA ConditionalKeeps ==
  ASSUME PInv, \/ BareHash \/ OpenTooDeep \/ OpenSkipped \/ OpenIfdef \/ OpenIf
               \/ MisplacedElse \/ Else \/ ElifSkipped \/ Elif \/ Endif \/ StrayEndif
  PROVE  PInv'
<1>1. OnDirective
  BY DEF BareHash, OpenTooDeep, OpenSkipped, OpenIfdef, OpenIf, MisplacedElse, Else,
         ElifSkipped, Elif, Endif, StrayEndif, Directive
<1>2. GoodFile(Past) /\ Past.groups = Here.groups
  BY <1>1, PastFacts DEF PInv
<1>3. CASE BareHash \/ OpenTooDeep \/ MisplacedElse \/ StrayEndif
  BY <1>1, <1>3, IgnoredKeeps DEF BareHash, OpenTooDeep, MisplacedElse, StrayEndif
<1>4. CASE OpenSkipped
  <2>1. GoodFile(Enter(Past, FALSE, FALSE))
    BY <1>2, <1>4, EnterGood DEF OpenSkipped
  <2> QED
    BY <1>1, <1>4, <2>1, PlainDirectiveKeeps DEF OpenSkipped
<1>5. CASE OpenIfdef
  <2> DEFINE defined == Args # <<>> /\ IsId(Args[1]) /\ Args[1].text \in DOMAIN macros
             f == Enter(Past, TRUE, defined <=> Words[1].text = <<"ifdef">>)
  <2>1. GoodFile(f)
    BY <1>2, <1>5, EnterGood DEF OpenIfdef
  <2>2. ReadOn(f) /\ UNCHANGED <<tableVars, calls>>
    BY <1>5 DEF OpenIfdef
  <2>. HIDE DEF f
  <2> QED
    BY <1>1, <2>1, <2>2, PlainDirectiveKeeps
<1>6. CASE OpenIf
  BY <1>1, <1>6, EvaluatingKeeps DEF OpenIf
<1>7. CASE Else
  <2> DEFINE g == Last(Here.groups)
             h == [g EXCEPT !.seenElse = TRUE, !.taken = TRUE]
             a == g.active /\ ~ g.taken
             f == [Past EXCEPT !.groups = Append(Front(@), h), !.active = a]
  <2>1. ReadOn(f) /\ UNCHANGED <<tableVars, calls>> /\ Here.groups # <<>>
    BY <1>7 DEF Else, InGroup
  <2>2. GoodFile(f)
    <3>. HIDE DEF h, a
    <3> QED
      BY <1>2, <2>1, RegroupGood
  <2>. HIDE DEF f
  <2> QED
    BY <1>1, <2>1, <2>2, PlainDirectiveKeeps
<1>8. CASE ElifSkipped
  <2>1. GoodFile([Past EXCEPT !.active = FALSE])
    BY <1>2 DEF GoodFile, FileFields
  <2> QED
    BY <1>1, <1>8, <2>1, PlainDirectiveKeeps DEF ElifSkipped
<1>9. CASE Elif
  BY <1>1, <1>9, EvaluatingKeeps DEF Elif, InGroup
<1>10. CASE Endif
  <2> DEFINE a == Last(Here.groups).active
             f == [Past EXCEPT !.groups = Front(@), !.active = a]
  <2>1. ReadOn(f) /\ UNCHANGED <<tableVars, calls>> /\ Here.groups # <<>>
    BY <1>10 DEF Endif
  <2>2. GoodFile(f)
    <3>. HIDE DEF a
    <3> QED
      BY <1>2, <2>1, RegroupGood
  <2>. HIDE DEF f
  <2> QED
    BY <1>1, <2>1, <2>2, PlainDirectiveKeeps
<1> QED
  BY <1>3, <1>4, <1>5, <1>6, <1>7, <1>8, <1>9, <1>10

LEMMA OtherDirectiveKeeps ==
  ASSUME PInv, \/ SkipDirective \/ Define \/ Undef \/ Nameless \/ PragmaOnce \/ OtherDirective
               \/ IncludeNothing
  PROVE  PInv'
<1>1. OnDirective
  BY DEF SkipDirective, Define, Undef, Nameless, PragmaOnce, OtherDirective, IncludeNothing, Directive
<1>2. GoodFile(Past) /\ reading # <<>> /\ Words \in Seq(SourceTokens)
  BY <1>1, PastFacts DEF PInv
<1>3. CASE SkipDirective \/ Nameless \/ OtherDirective \/ IncludeNothing
  BY <1>1, <1>3, IgnoredKeeps DEF SkipDirective, Nameless, OtherDirective, IncludeNothing
<1>4. NoMacro \notin DOMAIN macros /\ once \subseteq DOMAIN source.files
  BY DEF PInv, CallsInv, FilesInv
<1>5. CASE Define
  <2>1. Words # <<>> /\ Args # <<>> /\ IsId(Args[1])
    BY <1>5 DEF Define, Directive, Named
  <2>2. Args \in Seq(SourceTokens)
    BY <1>2, <2>1, HeadTailProperties DEF Args
  <2>3. Args[1] \in SourceTokens
    BY <2>1, <2>2
  <2>4. Args[1].text # NoMacro
    BY <2>1, <2>3 DEF SourceTokens, IsId
  <2>5. DOMAIN macros' = DOMAIN macros \cup {Args[1].text}
    BY <1>5 DEF Define
  <2>6. NoMacro \notin DOMAIN macros'
    BY <1>4, <2>4, <2>5
  <2>7. ReadOn(Past) /\ UNCHANGED <<source, expanding, once, calls>>
    BY <1>5 DEF Define
  <2> QED
    BY <1>1, <1>2, <1>4, <2>6, <2>7, DirectiveKeeps
<1>6. CASE Undef
  <2>1. NoMacro \notin DOMAIN macros'
    BY <1>4, <1>6 DEF Undef
  <2>2. ReadOn(Past) /\ UNCHANGED <<source, expanding, once, calls>>
    BY <1>6 DEF Undef
  <2> QED
    BY <1>1, <1>2, <1>4, <2>1, <2>2, DirectiveKeeps
<1>7. CASE PragmaOnce
  <2>1. Here.path \in DOMAIN source.files
    BY <1>2, HereFacts DEF PInv, GoodFile
  <2>2. once' \subseteq DOMAIN source.files
    BY <1>4, <1>7, <2>1 DEF PragmaOnce
  <2>3. ReadOn(Past) /\ UNCHANGED <<source, macros, expanding, calls>>
    BY <1>7 DEF PragmaOnce
  <2> QED
    BY <1>1, <1>2, <1>4, <2>2, <2>3, DirectiveKeeps
<1> QED
  BY <1>3, <1>5, <1>6, <1>7

(* Only a file that exists is read. *)
LEMMA IncludedExists ==
  Included \subseteq DOMAIN source.files
<1>1. \A name, angled : Found(name, angled) \subseteq DOMAIN source.files
  BY DEF Found
<1> QED
  BY <1>1 DEF Included

LEMMA IncludeKeeps ==
  ASSUME PInv, Include
  PROVE  PInv'
<1>1. OnDirective /\ UNCHANGED <<tableVars, calls>> /\ ~ TooManyOpen
  BY DEF Include, Directive
<1>2. PICK p \in DOMAIN source.files : reading' = Append(Front(reading), Past) \o <<FileCall(p)>>
  BY IncludedExists DEF Include
<1>3. GoodFile(Past) /\ reading # <<>> /\ calls = <<>>
  BY <1>1, PastFacts DEF PInv
<1>4. /\ Len(reading) \in Nat /\ DOMAIN reading = 1 .. Len(reading) /\ source \in Sources
  BY <1>3, HereFacts DEF PInv, FilesInv
<1>5. GoodFile(FileCall(p))
  <2>1. Len(source.files[p]) \in Nat
    BY <1>4, SourcesLexed
  <2>2. IsSeq(<<>>) /\ Len(<<>>) = 0
    BY DEF IsSeq
  <2> QED
    BY <2>1, <2>2, LimitsNat DEF GoodFile, FileCall, FileFields
<1> DEFINE s == Append(Front(reading), Past)
           n == FileCall(p)
<1>6. /\ IsSeq(s) /\ Len(s) = Len(reading)
      /\ \A k \in DOMAIN reading : GoodFile(s[k])
  <2> DEFINE f == Past
             t == Append(Front(reading), f)
  <2>1. IsSeq(reading) /\ \A k \in DOMAIN reading : GoodFile(reading[k])
    BY DEF PInv, FilesInv
  <2>2. GoodFile(f)
    BY <1>3
  <2>. HIDE DEF f
  <2>3. /\ IsSeq(t) /\ Len(t) = Len(reading) /\ t[Len(reading)] = f
        /\ \A k \in DOMAIN reading : k # Len(reading) => t[k] = reading[k]
    BY <1>3, <2>1, ReplaceLast
  <2>4. s = t
    BY DEF f
  <2>. HIDE DEF s, t
  <2> QED
    BY <2>1, <2>2, <2>3, <2>4
<1>7. reading' = s \o <<n>> /\ GoodFile(n)
  BY <1>2, <1>5
<1>. HIDE DEF s, n
<1>8. DOMAIN s = DOMAIN reading
  BY <1>4, <1>6, SeqFacts
<1>9. /\ IsSeq(reading')
      /\ Len(reading') = Len(reading) + 1
      /\ reading'[Len(reading) + 1] = n
  <2>1. IsSeq(reading')
    BY <1>6, <1>7, PushOne
  <2>2. Len(reading') = Len(s) + 1 /\ reading'[Len(s) + 1] = n
    BY <1>6, <1>7, PushOne
  <2> QED
    BY <1>6, <2>1, <2>2
<1>10. \A k \in DOMAIN reading : reading'[k] = s[k]
  BY <1>6, <1>7, <1>8, PushOne
<1>11. DOMAIN reading' = DOMAIN reading \cup {Len(reading) + 1}
  <2>1. DOMAIN reading' = 1 .. Len(reading')
    BY <1>9, SeqFacts
  <2>2. \A m \in Nat : 1 .. m + 1 = (1 .. m) \cup {m + 1}
    OBVIOUS
  <2> QED
    BY <1>4, <1>9, <2>1, <2>2
<1>12. \A k \in DOMAIN reading' : GoodFile(reading'[k])
  BY <1>6, <1>7, <1>9, <1>10, <1>11
<1>13. Len(reading') <= MaxIncludes + 1
  BY <1>1, <1>4, <1>9, LimitsNat DEF TooManyOpen
<1>14. source' = source /\ once' = once
  BY <1>1 DEF tableVars
<1>15. FilesInv'
  BY <1>9, <1>12, <1>13, <1>14 DEF PInv, FilesInv, GoodFile
<1>16. CallsInv' /\ calls' = <<>>
  <2>1. calls' = calls /\ expanding' = expanding /\ macros' = macros
    BY <1>1 DEF tableVars
  <2> QED
    BY <1>3, <2>1, NoCallKeeps DEF PInv, CallsInv
<1> QED
  BY <1>15, <1>16 DEF PInv, GroupPending

-----------------------------------------------------------------------------
(* Lines *)

LEMMA TextLineKeeps ==
  ASSUME PInv, TextLine
  PROVE  PInv'
<1> DEFINE end == LineEnd(Tokens, Here.at + 1)
           ts  == SubSeq(Tokens, Here.at, end - 1)
           f   == [Here EXCEPT !.at = end]
<1>1. /\ reading # <<>> /\ calls = <<>>
      /\ calls' = <<Expansion(ts, "line", NoMacro)>> /\ ReadOn(f) /\ UNCHANGED tableVars
  BY DEF TextLine, Scanning
<1>2. GoodFile(Here) /\ Tokens \in Seq(SourceTokens) /\ Here.at \in 1 .. Len(Tokens) + 1
  BY <1>1, HereFacts DEF PInv
<1>3. end \in 1 .. Len(Tokens) + 1
  BY <1>2, LineEndFits
<1>. HIDE DEF end
<1>4. GoodFile(f)
  BY <1>2, <1>3 DEF GoodFile, FileFields, Tokens
<1>. HIDE DEF ts, f
<1>5. CallsInv' /\ calls'[1].for = "line"
  BY <1>1, FirstCallKeeps DEF PInv, tableVars, OfLine
<1>6. FilesInv' /\ reading' # <<>>
  BY <1>1, <1>4, ReadOnKeeps DEF PInv, FilesInv, tableVars
<1> QED
  BY <1>5, <1>6 DEF PInv, GroupPending

LEMMA SkipTokenKeeps ==
  ASSUME PInv, SkipToken
  PROVE  PInv'
<1> DEFINE f == [Here EXCEPT !.at = @ + 1]
<1>1. /\ reading # <<>> /\ calls = <<>> /\ Here.at <= Len(Tokens)
      /\ ReadOn(f) /\ UNCHANGED <<tableVars, calls>>
  BY DEF SkipToken, Scanning
<1>2. GoodFile(Here) /\ Len(Tokens) \in Nat
  BY <1>1, HereFacts DEF PInv
<1>3. GoodFile(f)
  BY <1>1, <1>2 DEF GoodFile, FileFields, Tokens
<1>. HIDE DEF f
<1>4. FilesInv'
  BY <1>1, <1>3, ReadOnKeeps DEF PInv, FilesInv, tableVars
<1>5. CallsInv'
  BY <1>1, NoCallKeeps DEF PInv, CallsInv, tableVars
<1> QED
  BY <1>1, <1>4, <1>5 DEF PInv, GroupPending

LEMMA EndOfFileKeeps ==
  ASSUME PInv, EndOfFile
  PROVE  PInv'
<1>1. /\ reading # <<>> /\ calls = <<>> /\ reading' = Front(reading)
      /\ source' = source /\ once' = once /\ macros' = macros /\ expanding' = expanding /\ calls' = calls
  BY DEF EndOfFile, tableVars
<1>2. Len(reading) \in Nat /\ Len(reading) >= 1 /\ DOMAIN reading = 1 .. Len(reading)
  BY <1>1, HereFacts DEF PInv
<1>3. /\ reading' \in Seq(Range(reading)) /\ Len(reading') = Len(reading) - 1
      /\ \A k \in 1 .. Len(reading) - 1 : reading'[k] = reading[k]
  BY <1>1, <1>2, SubSeqProperties DEF Front, PInv, FilesInv, IsSeq
<1>4. IsSeq(reading') /\ DOMAIN reading' = 1 .. Len(reading) - 1
  BY <1>2, <1>3, TypedSeq, SeqFacts
<1>5. \A k \in DOMAIN reading' : GoodFile(reading'[k])
  BY <1>2, <1>3, <1>4 DEF PInv, FilesInv
<1>6. Len(reading') <= MaxIncludes + 1
  BY <1>2, <1>3, LimitsNat DEF PInv, FilesInv
<1>7. FilesInv'
  BY <1>1, <1>4, <1>5, <1>6 DEF PInv, FilesInv, GoodFile
<1>8. CallsInv'
  BY <1>1, NoCallKeeps DEF PInv, CallsInv
<1> QED
  BY <1>1, <1>7, <1>8 DEF PInv, GroupPending

-----------------------------------------------------------------------------
(* Expansion *)

(* Expanding a line leaves the files as they are. *)
LEMMA StillExpanding ==
  ASSUME PInv, calls # <<>>, CallsInv', calls' # <<>>, calls'[1].for = calls[1].for,
         UNCHANGED <<source, once, reading>>
  PROVE  PInv'
<1>1. FilesInv'
  BY DEF PInv, FilesInv, GoodFile
<1>2. GroupPending'
  BY DEF PInv, GroupPending, Here
<1> QED
  BY <1>1, <1>2 DEF PInv

(* A call that moves on is for what it was for. *)
LEMMA MovedOn ==
  ASSUME NEW c, GoodCall(c), NEW o, NEW a
  PROVE  LET d == [c EXCEPT !.out = o, !.at = a]
         IN GoodCall(d) /\ d.for = c.for /\ d.macro = c.macro
BY DEF GoodCall, CallFields

LEMMA SubstitutesKeeps ==
  ASSUME PInv, calls # <<>>, NEW out, NEW n, Substitutes(out, n)
  PROVE  PInv'
<1> DEFINE a == Top.at + n
           d == [Top EXCEPT !.out = out, !.at = a]
<1>1. GoodCall(Top)
  BY TopFacts DEF PInv
<1>2. GoodCall(d) /\ d.for = Top.for /\ d.macro = Top.macro
  <2>. HIDE DEF a
  <2> QED
    BY <1>1, MovedOn
<1>3. calls' = Append(Front(calls), d) /\ UNCHANGED <<tableVars, reading>>
  BY <1>1 DEF Substitutes, Innermost, GoodCall, CallFields
<1>. HIDE DEF d
<1>4. CallsInv' /\ calls' # <<>> /\ calls'[1].for = calls[1].for
  BY <1>2, <1>3, InnermostKeeps DEF PInv, tableVars
<1> QED
  BY <1>3, <1>4, StillExpanding DEF tableVars

LEMMA CopyTokenKeeps ==
  ASSUME PInv, CopyToken
  PROVE  PInv'
<1> DEFINE o == Append(Top.out, Token)
           a == Top.at + 1
           d == [Top EXCEPT !.out = o, !.at = a]
<1>1. calls # <<>> /\ GoodCall(Top)
  BY TopFacts DEF PInv, CopyToken, Busy
<1>2. GoodCall(d) /\ d.for = Top.for /\ d.macro = Top.macro
  <2>. HIDE DEF o, a
  <2> QED
    BY <1>1, MovedOn
<1>3. calls' = Append(Front(calls), d) /\ UNCHANGED <<tableVars, reading>>
  BY <1>1 DEF CopyToken, Innermost, GoodCall, CallFields
<1>. HIDE DEF d
<1>4. CallsInv' /\ calls' # <<>> /\ calls'[1].for = calls[1].for
  BY <1>1, <1>2, <1>3, InnermostKeeps DEF PInv, tableVars
<1> QED
  BY <1>1, <1>3, <1>4, StillExpanding DEF tableVars

(* A name begins to be replaced, and is marked. *)
LEMMA ReplacingKeeps ==
  ASSUME PInv, calls # <<>>, Token.text \in DOMAIN macros \ expanding,
         NEW args, NEW next, Replacing(args, next)
  PROVE  PInv'
<1> DEFINE c == [Top EXCEPT !.at = next]
           n == Substitution(Token.text, args)
<1>1. GoodCall(Top)
  BY TopFacts DEF PInv
<1>2. GoodCall(c) /\ c.for = Top.for /\ c.macro = Top.macro
  BY <1>1 DEF GoodCall, CallFields
<1>3. Token.text # NoMacro
  BY DEF PInv, CallsInv
<1>4. GoodCall(n) /\ n.for = "rescan" /\ n.macro = Token.text
  BY <1>3 DEF Substitution, GoodCall, CallFields, OfLine, Inner
<1>5. /\ calls' = Append(Front(calls), c) \o <<n>>
      /\ expanding' = expanding \cup {Token.text}
      /\ UNCHANGED <<source, macros, once, reading>>
  BY DEF Replacing
<1>. HIDE DEF c, n
<1>6. expanding' = expanding \cup ({n.macro} \ {NoMacro})
  BY <1>3, <1>4, <1>5
<1>7. CallsInv' /\ calls' # <<>> /\ calls'[1].for = calls[1].for
  BY <1>2, <1>4, <1>5, <1>6, PushKeeps DEF PInv, Inner
<1> QED
  BY <1>5, <1>7, StillExpanding

(* An argument begins to be expanded. *)
LEMMA SubstituteParamKeeps ==
  ASSUME PInv, SubstituteParam
  PROVE  PInv'
<1> DEFINE arg == Argument(ParamIndex(Token))
           c == [Top EXCEPT !.at = @ + 1]
           n == Expansion(arg, "argument", NoMacro)
<1>1. calls # <<>> /\ GoodCall(Top)
  BY TopFacts DEF PInv, SubstituteParam, Busy
<1>2. GoodCall(c) /\ c.for = Top.for /\ c.macro = Top.macro
  BY <1>1 DEF GoodCall, CallFields
<1>3. GoodCall(n) /\ n.for = "argument" /\ n.macro = NoMacro
  <2>. HIDE DEF arg
  <2> QED
    BY DEF Expansion, GoodCall, CallFields, OfLine, Inner
<1>4. calls' = Append(Front(calls), c) \o <<n>> /\ UNCHANGED <<tableVars, reading>>
  BY DEF SubstituteParam
<1>. HIDE DEF c, n
<1>5. expanding' = expanding \cup ({n.macro} \ {NoMacro}) /\ UNCHANGED <<source, once, macros>>
  BY <1>3, <1>4 DEF tableVars
<1>6. CallsInv' /\ calls' # <<>> /\ calls'[1].for = calls[1].for
  BY <1>1, <1>2, <1>3, <1>4, <1>5, PushKeeps DEF PInv, Inner
<1> QED
  BY <1>1, <1>4, <1>5, <1>6, StillExpanding

LEMMA RescanKeeps ==
  ASSUME PInv, Rescan
  PROVE  PInv'
<1> DEFINE d == Expansion(Top.out, "rescan", Top.macro)
<1>1. calls # <<>> /\ GoodCall(Top) /\ Top.for = "rescan"
  BY TopFacts DEF PInv, Rescan, Returns
<1>2. GoodCall(d) /\ d.for = Top.for /\ d.macro = Top.macro
  BY <1>1 DEF Expansion, GoodCall, CallFields, OfLine, Inner
<1>3. calls' = Append(Front(calls), d) /\ UNCHANGED <<tableVars, reading>>
  BY DEF Rescan, Innermost
<1>. HIDE DEF d
<1>4. CallsInv' /\ calls' # <<>> /\ calls'[1].for = calls[1].for
  BY <1>1, <1>2, <1>3, InnermostKeeps DEF PInv, tableVars
<1> QED
  BY <1>1, <1>3, <1>4, StillExpanding DEF tableVars

(* A call returns to the one below it: a macro replaced is marked no more. *)
LEMMA ToCallerKeeps ==
  ASSUME PInv, ReturnArgument \/ ReturnReplacement
  PROVE  PInv'
<1> DEFINE caller == calls[Len(calls) - 1]
           d == [caller EXCEPT !.out = @ \o Top.out]
<1>1. calls # <<>> /\ Top.for \in Inner
  BY DEF ReturnArgument, ReturnReplacement, Returns, Inner
<1>2. /\ Len(calls) \in Nat /\ Len(calls) >= 1 /\ DOMAIN calls = 1 .. Len(calls)
      /\ Top = calls[Len(calls)] /\ GoodCall(Top)
      /\ Top.for \in OfLine <=> Len(calls) = 1
  BY <1>1, TopFacts DEF PInv
<1>3. Len(calls) - 1 \in DOMAIN calls
  BY <1>1, <1>2 DEF Inner, OfLine
<1>4. GoodCall(caller)
  BY <1>3 DEF PInv, CallsInv
<1>5. GoodCall(d) /\ d.for = caller.for /\ d.macro = caller.macro
  BY <1>4 DEF GoodCall, CallFields
<1>6. calls' = Append(Front(Front(calls)), d)
  BY DEF ReturnArgument, ReturnReplacement, ToCaller
<1>7. UNCHANGED <<source, macros, once, reading>>
  BY DEF ReturnArgument, ReturnReplacement, tableVars
<1>8. expanding' = expanding \ {Top.macro}
  <2>1. CASE ReturnReplacement
    BY <2>1 DEF ReturnReplacement
  <2>2. CASE ReturnArgument
    <3>1. Top.macro = NoMacro
      BY <1>2, <2>2 DEF ReturnArgument, Returns, GoodCall
    <3>2. NoMacro \notin expanding
      BY DEF PInv, CallsInv, MarksFollowCalls
    <3> QED
      BY <2>2, <3>1, <3>2 DEF ReturnArgument, tableVars
  <2> QED
    BY <2>1, <2>2
<1>. HIDE DEF d
<1>9. d.for = calls[Len(calls) - 1].for /\ d.macro = calls[Len(calls) - 1].macro
  BY <1>5
<1>10. CallsInv' /\ calls' # <<>> /\ calls'[1].for = calls[1].for
  BY <1>1, <1>5, <1>6, <1>7, <1>8, <1>9, PopKeeps DEF PInv
<1> QED
  BY <1>1, <1>7, <1>10, StillExpanding

LEMMA ReturnLineKeeps ==
  ASSUME PInv, ReturnLine
  PROVE  PInv'
<1>1. calls # <<>> /\ Top.for \in OfLine /\ calls' = <<>> /\ UNCHANGED <<tableVars, reading>>
  BY DEF ReturnLine, Returns, OfLine
<1>2. CallsInv'
  BY <1>1, LineReturns DEF PInv, tableVars
<1>3. FilesInv'
  BY <1>1 DEF PInv, FilesInv, GoodFile, tableVars
<1> QED
  BY <1>1, <1>2, <1>3 DEF PInv, GroupPending

(* The value of the line enters a group, or decides the innermost one. *)
LEMMA ConditionKnownKeeps ==
  ASSUME PInv, ConditionKnown
  PROVE  PInv'
<1> DEFINE holds == Evaluate(Top.out).val # 0
           g == Last(Here.groups)
           h == [g EXCEPT !.taken = holds]
           entered == Enter(Here, TRUE, holds)
           decided == [Here EXCEPT !.groups = Append(Front(@), h), !.active = holds]
           f == IF Top.for = "if" THEN entered ELSE decided
<1>1. /\ calls # <<>> /\ Top.for \in {"if", "elif"} /\ calls' = <<>>
      /\ UNCHANGED tableVars
  BY DEF ConditionKnown, Returns
<1>2. CallsInv' /\ calls[1] = Top
  BY <1>1, LineReturns DEF PInv, tableVars, OfLine
<1>3. reading # <<>> /\ GoodFile(Here)
  BY <1>1, HereFacts DEF PInv, GroupPending
<1>4. ReadOn(f)
  BY <1>3 DEF ConditionKnown, GoodFile, FileFields
<1>5. CASE Top.for = "if"
  <2>1. Len(Here.groups) < MaxGroups
    BY <1>1, <1>2, <1>5 DEF PInv, GroupPending
  <2>2. GoodFile(entered)
    BY <1>3, <2>1, EnterGood
  <2> QED
    <3>. HIDE DEF entered
    <3>1. ReadOn(entered)
      BY <1>4, <1>5
    <3>2. FilesInv' /\ reading' # <<>>
      BY <1>1, <1>3, <2>2, <3>1, ReadOnKeeps DEF PInv, FilesInv, tableVars
    <3> QED
      BY <1>1, <1>2, <3>2 DEF PInv, GroupPending
<1>6. CASE Top.for = "elif"
  <2>1. Here.groups # <<>>
    BY <1>1, <1>2, <1>6 DEF PInv, GroupPending
  <2>2. GoodFile(decided)
    <3>. HIDE DEF holds, h
    <3> QED
      BY <1>3, <2>1, RegroupGood
  <2> QED
    <3>. HIDE DEF decided
    <3>1. ReadOn(decided)
      BY <1>4, <1>6
    <3>2. FilesInv' /\ reading' # <<>>
      BY <1>1, <1>3, <2>2, <3>1, ReadOnKeeps DEF PInv, FilesInv, tableVars
    <3> QED
      BY <1>1, <1>2, <3>2 DEF PInv, GroupPending
<1> QED
  BY <1>1, <1>5, <1>6

-----------------------------------------------------------------------------
(* The invariant *)

LEMMA StartsWell == Init => PInv
<1> SUFFICES ASSUME Init PROVE PInv
  OBVIOUS
<1> DEFINE n == FileCall(source.main)
<1>1. source \in Sources /\ reading = <<n>> /\ calls = <<>> /\ once = {} /\ expanding = {} /\ macros = Predefined
  BY DEF Init
<1>2. source.main \in DOMAIN source.files /\ Len(source.files[source.main]) \in Nat
  BY <1>1, SourcesLexed
<1>3. IsSeq(<<>>) /\ Len(<<>>) = 0
  BY DEF IsSeq
<1>4. GoodFile(n)
  BY <1>2, <1>3, LimitsNat DEF GoodFile, FileCall, FileFields
<1>. HIDE DEF n
<1>5. reading \in Seq({n}) /\ Len(reading) = 1 /\ DOMAIN reading = {1} /\ reading[1] = n
  BY <1>1
<1>6. FilesInv
  <2>1. IsSeq(reading)
    BY <1>5, TypedSeq
  <2>2. \A k \in DOMAIN reading : GoodFile(reading[k])
    BY <1>4, <1>5
  <2>3. Len(reading) <= MaxIncludes + 1
    BY <1>5, LimitsNat
  <2> QED
    BY <1>1, <2>1, <2>2, <2>3 DEF FilesInv
<1>7. CallsInv
  <2>1. DOMAIN calls = {} /\ IsSeq(calls)
    BY <1>1, <1>3
  <2> QED
    BY <1>1, <2>1, PredefinedNamed DEF CallsInv, MarksFollowCalls
<1> QED
  BY <1>1, <1>6, <1>7 DEF PInv, GroupPending

LEMMA ExpandsKeeps ==
  ASSUME PInv, Expands
  PROVE  PInv'
<1>1. CASE CopyToken
  BY <1>1, CopyTokenKeeps
<1>2. CASE ReplaceName
  <2>1. calls # <<>> /\ Token.text \in DOMAIN macros \ expanding /\ Replacing(<<>>, Top.at + 1)
    BY <1>2 DEF ReplaceName, Busy, IsReplaced
  <2> QED
    BY <2>1, ReplacingKeeps
<1>3. CASE ReplaceCall
  <2> DEFINE call == Collected(Top.tokens, Top.at + 1, Len(macros[Token.text].params))
  <2>1. calls # <<>> /\ Token.text \in DOMAIN macros \ expanding
    BY <1>3 DEF ReplaceCall, Busy, IsReplaced
  <2>2. Replacing(call.args, call.next)
    BY <1>3 DEF ReplaceCall
  <2>. HIDE DEF call
  <2> QED
    BY <2>1, <2>2, ReplacingKeeps
<1>4. CASE Stringize \/ Paste \/ CopyFromBody
  <2>1. calls # <<>>
    BY <1>4 DEF Stringize, Paste, CopyFromBody, Busy
  <2>2. \E out, n : Substitutes(out, n)
    BY <1>4 DEF Stringize, Paste, CopyFromBody
  <2> QED
    BY <2>1, <2>2, SubstitutesKeeps
<1>5. CASE SubstituteParam
  BY <1>5, SubstituteParamKeeps
<1>6. CASE Rescan
  BY <1>6, RescanKeeps
<1>7. CASE ReturnArgument \/ ReturnReplacement
  BY <1>7, ToCallerKeeps
<1>8. CASE ReturnLine
  BY <1>8, ReturnLineKeeps
<1>9. CASE ConditionKnown
  BY <1>9, ConditionKnownKeeps
<1> QED
  BY <1>1, <1>2, <1>3, <1>4, <1>5, <1>6, <1>7, <1>8, <1>9 DEF Expands

LEMMA StepKeeps ==
  PInv /\ [Next]_vars => PInv'
<1> SUFFICES ASSUME PInv, [Next]_vars PROVE PInv'
  OBVIOUS
<1>1. CASE TextLine
  BY <1>1, TextLineKeeps
<1>2. CASE SkipToken
  BY <1>2, SkipTokenKeeps
<1>3. CASE Directives
  BY <1>3, ConditionalKeeps, OtherDirectiveKeeps, IncludeKeeps DEF Directives
<1>4. CASE EndOfFile
  BY <1>4, EndOfFileKeeps
<1>5. CASE Expands
  BY <1>5, ExpandsKeeps
<1>6. CASE UNCHANGED vars
  BY <1>6 DEF vars, PInv, CallsInv, FilesInv, GroupPending, MarksFollowCalls, GoodFile, Here
<1> QED
  BY <1>1, <1>2, <1>3, <1>4, <1>5, <1>6 DEF Next, Finished

(* pp_expand_range and the recursion of pp_process_tokens: what every      *)
(* activation was called for, and which macros are marked meanwhile.       *)
THEOREM ActivationsNest == Spec => []PInv
BY StartsWell, StepKeeps, PTL DEF Spec

(* The expanding flags of pp_macro.c mark exactly the macros with an       *)
(* active replacement, each replaced once.                                 *)
THEOREM MarksAreActive == Spec => []MarksFollowCalls
<1>1. PInv => MarksFollowCalls
  BY DEF PInv, CallsInv
<1> QED
  BY <1>1, ActivationsNest, PTL

(* The group stack of 64 and MAX_INCLUDE_DEPTH are never passed, no file   *)
(* is read past its end, and a macro being replaced is not undefined.      *)
THEOREM StacksStayInBounds == Spec => []StacksFit
<1>1. PInv => StacksFit
  <2> SUFFICES ASSUME PInv PROVE StacksFit
    OBVIOUS
  <2>1. expanding \subseteq DOMAIN macros
    BY DEF PInv, CallsInv, MarksFollowCalls
  <2>2. \A k \in DOMAIN calls : calls[k].macro \in DOMAIN macros \cup {NoMacro}
    BY DEF PInv, CallsInv
  <2>3. /\ once \subseteq DOMAIN source.files /\ Len(reading) <= MaxIncludes + 1
        /\ \A k \in DOMAIN reading : GoodFile(reading[k])
    BY DEF PInv, FilesInv
  <2> QED
    BY <2>1, <2>2, <2>3 DEF StacksFit, GoodFile
<1> QED
  BY <1>1, ActivationsNest, PTL

=============================================================================
