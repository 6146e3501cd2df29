--------------------------- MODULE CodegenProofs ---------------------------
(***************************************************************************)
(* Proofs about the labels and the types of Codegen, for every set of      *)
(* programs, about its loops, for those with chained loops, and about all  *)
(* its labels, for programs whose labels do not meet.                      *)
(*                                                                         *)
(* Labels: the RES_IF numbers handed out so far by this run of ifj17_gen   *)
(* are base+1 .. else_if_num.  Each of them is either already defined by a *)
(* LABEL in the output, or owed by exactly one activation of visit_if,     *)
(* which will print it before it returns.                                  *)
(*                                                                         *)
(* Types: an item of `todo' assigns ints only, and visits only a node the  *)
(* parser built or what is left of a declaration's vector; an activation   *)
(* holds a node of the type its handler takes.                             *)
(*                                                                         *)
(* Loops: loop_num less from_loop, which no expression changes, is the     *)
(* number of the innermost loop.  A loop that ends gives back one number,  *)
(* so that of the loop around it must be the next lower one: the loops on  *)
(* the stack are numbered one by one, and behind a loop that has ended in  *)
(* another none begins.  So each loop is handed from its activation to its *)
(* `==', and from there to the jump back.                                  *)
(*                                                                         *)
(* Labels that do not meet: the activations tell which labels are still to *)
(* come.  Every label but those two counters number is to come before it   *)
(* is printed and not after, and no step brings one back.                  *)
(***************************************************************************)
EXTENDS Codegen, SequenceTheorems, TLAPS

\* The RES_IF numbers an activation has taken and not yet printed.
Owed(f) ==
    CASE f.pc = "conds"  -> (f.mem + 1) .. (f.mem + f.i)
      [] f.pc = "blocks" -> (f.mem + 1) .. (f.mem + f.len + 1 - f.i)
      [] OTHER -> {}

FrameOK(f) ==
    /\ f = [h |-> f.h, node |-> f.node, pc |-> f.pc, i |-> f.i, mem |-> f.mem, len |-> f.len]
    /\ f.i \in Nat \ {0} /\ f.mem \in Nat /\ f.len \in Nat
    /\ f.pc \in {"body", "conds", "blocks", "else"}
    /\ f.pc # "body" => f.h = "if"

\* The part of TypeOK the labels depend on.
LabelTypeOK ==
    /\ frames \in Seq(Elements(frames))
    /\ \A p \in DOMAIN frames : FrameOK(frames[p])
    /\ out \in Seq(Elements(out))
    /\ lbl \in [LblNames -> Nat]
    /\ base \in Nat /\ base <= lbl.else_if_num

OwedInv ==
    /\ \A p \in DOMAIN frames : \A m \in Owed(frames[p]) :
          base < m /\ m <= lbl.else_if_num
    /\ \A p, q \in DOMAIN frames : \A m \in Owed(frames[p]) :
          m \in Owed(frames[q]) => p = q

DefInv ==
    /\ \A i \in Defs("RES_IF") :
        /\ out[i].n \in Nat /\ base < out[i].n /\ out[i].n <= lbl.else_if_num
        /\ \A p \in DOMAIN frames : out[i].n \notin Owed(frames[p])
    /\ \A i \in Refs("RES_IF") : out[i].n \in Nat /\ out[i].n <= lbl.else_if_num
    /\ \A m \in (base + 1) .. lbl.else_if_num :
        \/ \E i \in Defs("RES_IF") : out[i].n = m
        \/ \E p \in DOMAIN frames : m \in Owed(frames[p])

LoopInv == \A i \in Defs("LOOP") : out[i].n \in Nat /\ out[i].n <= lbl.mem_loop_num

IInv == LabelTypeOK /\ BranchRouting /\ OwedInv /\ DefInv /\ ResIfUnique
        /\ LoopInv /\ LoopUnique

-----------------------------------------------------------------------------
(* Sequences.                                                              *)

\* Appending t to s keeps s where it is and puts t after it.
LEMMA CatFacts ==
    ASSUME NEW S, NEW T, NEW s \in Seq(S), NEW t \in Seq(T)
    PROVE  /\ s \o t \in Seq(S \cup T)
           /\ Len(s) \in Nat /\ Len(t) \in Nat
           /\ DOMAIN s = 1 .. Len(s) /\ DOMAIN t = 1 .. Len(t)
           /\ DOMAIN (s \o t) = 1 .. (Len(s) + Len(t))
           /\ Len(s \o t) = Len(s) + Len(t)
           /\ \A i \in DOMAIN s : (s \o t)[i] = s[i]
           /\ \A i \in DOMAIN t : (s \o t)[Len(s) + i] = t[i]
           /\ \A i \in DOMAIN (s \o t) :
                 \/ i \in DOMAIN s /\ (s \o t)[i] = s[i]
                 \/ /\ i \in Int /\ i > Len(s) /\ i - Len(s) \in DOMAIN t
                    /\ (s \o t)[i] = t[i - Len(s)]
<1>1. s \in Seq(S \cup T) /\ t \in Seq(S \cup T)
  BY SeqMonotonic
<1>2. /\ s \o t \in Seq(S \cup T)
      /\ Len(s \o t) = Len(s) + Len(t)
      /\ \A i \in 1 .. Len(s) + Len(t) : (s \o t)[i] =
              IF i <= Len(s) THEN s[i] ELSE t[i - Len(s)]
  BY <1>1, ConcatProperties, Zenon
<1>3. /\ Len(s) \in Nat /\ DOMAIN s = 1 .. Len(s)
      /\ Len(t) \in Nat /\ DOMAIN t = 1 .. Len(t)
      /\ DOMAIN (s \o t) = 1 .. Len(s \o t)
  BY <1>2, LenProperties
<1>4. QED
  BY <1>2, <1>3

\* What the tokens of a longer output are.
LEMMA CatElements ==
    ASSUME NEW S, NEW T, NEW s \in Seq(S), NEW t \in Seq(T)
    PROVE  /\ \A i \in DOMAIN s : i \in DOMAIN (s \o t) /\ (s \o t)[i] = s[i]
           /\ \A i \in DOMAIN (s \o t) :
                 i \in DOMAIN s \/ \E j \in DOMAIN t : (s \o t)[i] = t[j]
<1>1. DOMAIN s \subseteq DOMAIN (s \o t)
  BY CatFacts
<1>2. QED
  BY <1>1, CatFacts

\* A line of three tokens after s.
LEMMA CatLine ==
    ASSUME NEW S, NEW s \in Seq(S), NEW a, NEW b, NEW c
    PROVE  /\ s \o <<a, b, c>> \in Seq(S \cup {a, b, c})
           /\ \A i \in DOMAIN s :
                i \in DOMAIN (s \o <<a, b, c>>) /\ (s \o <<a, b, c>>)[i] = s[i]
           /\ Len(s) + 2 \in DOMAIN (s \o <<a, b, c>>)
           /\ Len(s) + 2 \notin DOMAIN s
           /\ (s \o <<a, b, c>>)[Len(s) + 2] = b
           /\ \A i \in DOMAIN (s \o <<a, b, c>>) :
                \/ i \in DOMAIN s \/ i = Len(s) + 2
                \/ (s \o <<a, b, c>>)[i] = a \/ (s \o <<a, b, c>>)[i] = c
<1> DEFINE t == <<a, b, c>>
           T == {a, b, c}
           o == s \o t
<1>1. t \in Seq(T) /\ Len(t) = 3 /\ t[1] = a /\ t[2] = b /\ t[3] = c
  OBVIOUS
<1> HIDE DEF t, T
<1>2. /\ o \in Seq(S \cup T)
      /\ Len(s) \in Nat /\ DOMAIN s = 1 .. Len(s) /\ DOMAIN t = 1 .. Len(t)
      /\ DOMAIN o = 1 .. (Len(s) + Len(t))
      /\ \A i \in DOMAIN s : o[i] = s[i]
      /\ \A i \in DOMAIN t : o[Len(s) + i] = t[i]
  <2> DEFINE R == S \cup T
  <2>1. s \in Seq(R) /\ t \in Seq(R)
    BY <1>1, SeqMonotonic
  <2> HIDE DEF R
  <2>2. /\ Len(s) \in Nat /\ DOMAIN s = 1 .. Len(s)
        /\ Len(t) \in Nat /\ DOMAIN t = 1 .. Len(t)
    BY <2>1, LenProperties, Zenon
  <2>3. /\ o \in Seq(R) /\ Len(o) = Len(s) + Len(t)
        /\ \A i \in 1 .. Len(s) + Len(t) : o[i] = IF i <= Len(s) THEN s[i] ELSE t[i - Len(s)]
    BY <2>1, ConcatProperties, Zenon
  <2> HIDE DEF o
  <2>4. DOMAIN o = 1 .. (Len(s) + Len(t))
    BY <2>3, LenProperties
  <2>5. \A i \in DOMAIN s : o[i] = s[i]
    BY <2>2, <2>3
  <2>6. \A i \in DOMAIN t : o[Len(s) + i] = t[i]
    <3>1. \A i \in 1 .. Len(t) : /\ Len(s) + i \in 1 .. Len(s) + Len(t)
                                  /\ ~(Len(s) + i <= Len(s)) /\ (Len(s) + i) - Len(s) = i
      BY <2>2
    <3>2. QED
      BY <2>2, <2>3, <3>1
  <2>7. QED
    BY <2>2, <2>3, <2>4, <2>5, <2>6 DEF R
<1> HIDE DEF o
<1>3. o[Len(s) + 1] = a /\ o[Len(s) + 2] = b /\ o[Len(s) + 3] = c
  BY <1>1, <1>2
<1>4. /\ o \in Seq(S \cup T)
      /\ \A i \in DOMAIN s : i \in DOMAIN o /\ o[i] = s[i]
      /\ Len(s) + 2 \in DOMAIN o /\ Len(s) + 2 \notin DOMAIN s /\ o[Len(s) + 2] = b
      /\ \A i \in DOMAIN o : i \in DOMAIN s \/ i = Len(s) + 2 \/ o[i] = a \/ o[i] = c
  BY <1>1, <1>2, <1>3
<1>5. QED
  BY <1>4 DEF o, t, T

\* A sequence is a sequence over its own elements.
LEMMA OwnElements ==
    ASSUME NEW S, NEW s \in Seq(S)
    PROVE  s \in Seq(Elements(s))
<1>1. Len(s) \in Nat /\ DOMAIN s = 1 .. Len(s)
  BY LenProperties
<1>2. QED
  BY <1>1 DEF Elements

-----------------------------------------------------------------------------
(* What a step appends to the output.                                      *)

\* t defines no label that visit_if or visit_while numbers, and its RES_IF
\* references carry the number m.
Harmless(t, m) ==
    \A i \in DOMAIN t :
        /\ t[i].k = "def" => t[i].s \notin {"RES_IF", "LOOP"}
        /\ t[i].k = "ref" /\ t[i].s = "RES_IF" => t[i].n = m

\* The expression handlers touch neither the activations nor the label counters
\* and print no RES_IF or LOOP label.
LEMMA ExpressionOutput ==
    ASSUME LabelTypeOK, ExpressionStep
    PROVE  /\ UNCHANGED <<frames, lbl, base, runs>>
           /\ \E T : \E t \in Seq(T) : out' = out \o t /\ Harmless(t, lbl.else_if_num)
<1> DEFINE Goal == /\ UNCHANGED <<frames, lbl, base, runs>>
                   /\ \E T : \E t \in Seq(T) :
                        out' = out \o t /\ Harmless(t, lbl.else_if_num)
<1>1. ASSUME NoStatement, UNCHANGED out PROVE Goal
  <2>1. out' = out \o <<>>
    BY <1>1, ConcatEmptySeq DEF LabelTypeOK
  <2>2. <<>> \in Seq({}) /\ Harmless(<<>>, lbl.else_if_num)
    BY DEF Harmless
  <2>3. QED
    BY <1>1, <2>1, <2>2 DEF NoStatement
<1>2. ASSUME NoStatement, NEW x, out' = out \o <<x>>,
             x.k = "def" => x.s \notin {"RES_IF", "LOOP"},
             x.k = "ref" /\ x.s = "RES_IF" => x.n = lbl.else_if_num
      PROVE Goal
  <2>1. <<x>> \in Seq({x}) /\ Harmless(<<x>>, lbl.else_if_num)
    BY <1>2 DEF Harmless
  <2>2. QED
    BY <1>2, <2>1 DEF NoStatement
<1>3. CASE PrintTokens
  <2>1. PICK n \in 1 .. Len(todo) :
          /\ \A i \in 1 .. n : todo[i].k \in Plain
          /\ out' = out \o SubSeq(todo, 1, n)
    BY <1>3 DEF PrintTokens
  <2> DEFINE T == {todo[i] : i \in 1 .. n}
  <2>2. /\ SubSeq(todo, 1, n) \in Seq(T)
        /\ Len(SubSeq(todo, 1, n)) = n
        /\ \A i \in 1 .. n : SubSeq(todo, 1, n)[i] = todo[i]
    BY SubSeqProperties
  <2>3. DOMAIN SubSeq(todo, 1, n) = 1 .. n
    BY <2>2, LenProperties
  <2>4. Harmless(SubSeq(todo, 1, n), lbl.else_if_num)
    BY <2>1, <2>2, <2>3 DEF Harmless, Plain
  <2>5. QED
    BY <1>3, <2>1, <2>2, <2>4 DEF PrintTokens, NoStatement
<1>4. CASE PrintTypeGuard
  <2> DEFINE t == <<Op("JUMPIFNEQ"), Ref("END_IF", 0), TB1, TB2, NL>>
             T == {Op("JUMPIFNEQ"), Ref("END_IF", 0), TB1, TB2, NL}
  <2>1. t \in Seq(T)
    OBVIOUS
  <2>2. Harmless(t, lbl.else_if_num)
    <3>1. \A x \in T : x.k = "def" => FALSE
      BY DEF Op, Ref, TB1, TB2, TF, NL, Tok
    <3>2. \A x \in T : x.k = "ref" => x.s # "RES_IF"
      BY DEF Op, Ref, TB1, TB2, TF, NL, Tok
    <3>3. \A i \in DOMAIN t : t[i] \in T
      BY <2>1, ElementOfSeq, LenProperties
    <3> HIDE DEF t, T
    <3>4. QED
      BY <3>1, <3>2, <3>3 DEF Harmless
  <2>3. QED
    BY <1>4, <2>1, <2>2 DEF PrintTypeGuard, NoStatement
<1>5. CASE PrintIfTarget
  BY <1>1, <1>2, <1>5 DEF PrintIfTarget, Ref, Tok
<1>6. CASE PrintLoopTarget
  BY <1>1, <1>2, <1>6 DEF PrintLoopTarget, Ref, Tok
<1>7. CASE PrintResIfRef
  BY <1>2, <1>7 DEF PrintResIfRef, Ref, Tok
<1>8. CASE PrintDivLabel
  <2> DEFINE name == IF Head(todo).cont THEN "CONT" ELSE "RES_IF_int2float"
             num  == flag[Head(todo).var]
             x    == IF Head(todo).k = "divref" THEN Ref(name, num) ELSE Def(name, num)
  <2>1. NoStatement /\ out' = out \o <<x>>
    BY <1>8 DEF PrintDivLabel
  <2>2. name \notin {"RES_IF", "LOOP"}
    OBVIOUS
  <2>3. x.s = name
    BY DEF Ref, Def, Tok
  <2> HIDE DEF x, name
  <2>4. QED
    BY <1>2, <2>1, <2>2, <2>3
<1>9. CASE Assign
  BY <1>1, <1>9 DEF Assign
<1>10. CASE \/ visit_number \/ visit_string \/ visit_id \/ visit_decl \/ visit_unary_op
            \/ visit_binary_op \/ visit_call \/ visit_dim \/ visit_return \/ visit_silent
            \/ visit_params
  BY <1>1, <1>10 DEF visit_number, visit_string, visit_id, visit_decl, visit_unary_op,
     visit_binary_op, visit_call, visit_dim, visit_return, visit_silent, visit_params
<1>11. QED
  BY <1>3, <1>4, <1>5, <1>6, <1>7, <1>8, <1>9, <1>10 DEF ExpressionStep

-----------------------------------------------------------------------------
(* What a step does to the labels, seen apart from how it prints them.     *)

\* The output only grows, and its new RES_IF references carry else_if_num.
Appended ==
    /\ out' \in Seq(Elements(out'))
    /\ \A i \in DOMAIN out : i \in DOMAIN out' /\ out'[i] = out[i]
    /\ \A i \in Refs("RES_IF")' : i \in Refs("RES_IF") \/ out'[i].n = lbl.else_if_num

NoNew(s)  == Defs(s)' = Defs(s)
New(s, m) == \E d \in DOMAIN out' :
    d \notin DOMAIN out /\ Defs(s)' = Defs(s) \cup {d} /\ out'[d].n = m

\* Harmless tokens define no RES_IF and no LOOP label.
LEMMA HarmlessOutput ==
    ASSUME LabelTypeOK, NEW T, NEW t \in Seq(T), out' = out \o t,
           Harmless(t, lbl.else_if_num)
    PROVE  Appended /\ NoNew("RES_IF") /\ NoNew("LOOP")
<1>1. out \in Seq(Elements(out))
  BY DEF LabelTypeOK
<1>2. out' \in Seq(Elements(out'))
  <2>1. out' \in Seq(Elements(out) \cup T)
    BY <1>1, CatFacts
  <2>2. QED
    BY <2>1, OwnElements
<1>3. /\ \A i \in DOMAIN out : i \in DOMAIN out' /\ out'[i] = out[i]
      /\ \A i \in DOMAIN out' :
           i \in DOMAIN out \/ \E j \in DOMAIN t : out'[i] = t[j]
  <2>1. /\ \A i \in DOMAIN out : i \in DOMAIN (out \o t) /\ (out \o t)[i] = out[i]
        /\ \A i \in DOMAIN (out \o t) :
             i \in DOMAIN out \/ \E j \in DOMAIN t : (out \o t)[i] = t[j]
    BY <1>1, CatElements
  <2>2. QED
    BY <2>1
<1>4. NoNew("RES_IF") /\ NoNew("LOOP")
  BY <1>3 DEF Harmless, Defs, NoNew
<1>5. \A i \in Refs("RES_IF")' : i \in Refs("RES_IF") \/ out'[i].n = lbl.else_if_num
  BY <1>3 DEF Harmless, Refs
<1>6. QED
  BY <1>2, <1>3, <1>4, <1>5 DEF Appended

\* A LABEL line after harmless tokens defines exactly that label.
LEMMA LabelOutput ==
    ASSUME LabelTypeOK, NEW T, NEW t \in Seq(T), Harmless(t, lbl.else_if_num),
           NEW s \in {"RES_IF", "LOOP"}, NEW o \in {"RES_IF", "LOOP"}, o # s, NEW m
    PROVE  out' = (out \o t) \o LabelLine(s, m) => Appended /\ New(s, m) /\ NoNew(o)
<1> DEFINE mid == out \o t
           new == mid \o <<Op("LABEL"), Def(s, m), NL>>
           d   == Len(mid) + 2
<1>1. SUFFICES ASSUME out' = new
               PROVE  Appended /\ New(s, m) /\ NoNew(o)
  BY DEF LabelLine
<1>2. out \in Seq(Elements(out))
  BY DEF LabelTypeOK
<1>3. /\ mid \in Seq(Elements(out) \cup T)
      /\ \A i \in DOMAIN out : i \in DOMAIN mid /\ mid[i] = out[i]
      /\ \A i \in DOMAIN mid :
           i \in DOMAIN out \/ \E j \in DOMAIN t : mid[i] = t[j]
  BY <1>2, CatFacts, CatElements
<1> HIDE DEF mid
<1>4. /\ new \in Seq(Elements(out) \cup T \cup {Op("LABEL"), Def(s, m), NL})
      /\ \A i \in DOMAIN mid : i \in DOMAIN new /\ new[i] = mid[i]
      /\ d \in DOMAIN new /\ d \notin DOMAIN mid /\ new[d] = Def(s, m)
      /\ \A i \in DOMAIN new :
           i \in DOMAIN mid \/ i = d \/ new[i] = Op("LABEL") \/ new[i] = NL
  BY <1>3, CatLine
<1>5. new \in Seq(Elements(new))
  BY <1>4, OwnElements, Zenon
<1> HIDE DEF new, d
<1>6. /\ \A i \in DOMAIN out : i \in DOMAIN new /\ new[i] = out[i]
      /\ d \in DOMAIN new /\ d \notin DOMAIN out
      /\ new[d].k = "def" /\ new[d].s = s /\ new[d].n = m
      /\ \A i \in DOMAIN new : i \in DOMAIN out \/ i = d
            \/ new[i].k \notin {"def", "ref"}
            \/ \E j \in DOMAIN t : new[i] = t[j]
  <2>1. /\ Def(s, m).k = "def" /\ Def(s, m).s = s /\ Def(s, m).n = m
        /\ Op("LABEL").k = "op" /\ NL.k = "nl"
    BY DEF Def, Op, NL, Tok
  <2>2. \A i \in DOMAIN out : i \in DOMAIN new /\ new[i] = out[i]
    BY <1>3, <1>4, Zenon
  <2>3. /\ d \in DOMAIN new /\ d \notin DOMAIN out
        /\ new[d].k = "def" /\ new[d].s = s /\ new[d].n = m
    BY <1>3, <1>4, <2>1, Zenon
  <2>4. ASSUME NEW i \in DOMAIN new
        PROVE  \/ i \in DOMAIN out \/ i = d \/ new[i].k \notin {"def", "ref"}
               \/ \E j \in DOMAIN t : new[i] = t[j]
    <3>1. CASE i \in DOMAIN mid
      <4>1. new[i] = mid[i]
        BY <1>4, <3>1, Zenon
      <4>2. QED
        BY <1>3, <3>1, <4>1, Zenon
    <3>2. CASE new[i] = Op("LABEL") \/ new[i] = NL
      <4>1. new[i].k \in {"op", "nl"}
        BY <2>1, <3>2, Zenon
      <4>2. QED
        BY <4>1
    <3>3. QED
      BY <1>4, <3>1, <3>2, Zenon
  <2>5. QED
    BY <2>2, <2>3, <2>4, Zenon
<1>7. Defs(s)' = Defs(s) \cup {d} /\ Defs(o)' = Defs(o)
  BY <1>1, <1>6 DEF Harmless, Defs
<1>8. \A i \in Refs("RES_IF")' : i \in Refs("RES_IF") \/ out'[i].n = lbl.else_if_num
  BY <1>1, <1>6 DEF Harmless, Refs
<1>9. QED
  BY <1>1, <1>5, <1>6, <1>7, <1>8 DEF Appended, New, NoNew

-----------------------------------------------------------------------------
(* What a step does to the numbers that are owed.                          *)

Owes(p, m) == p \in DOMAIN frames /\ m \in Owed(frames[p])

\* DefInv restated through Owes: what is owed is not printed yet, and what is
\* neither owed nor printed does not exist.
LEMMA DefInvFromOwes ==
    ASSUME \A i \in Refs("RES_IF")' : out'[i].n \in Nat /\ out'[i].n <= lbl'.else_if_num,
           \A i \in Defs("RES_IF")' :
             /\ out'[i].n \in Nat /\ base' < out'[i].n /\ out'[i].n <= lbl'.else_if_num
             /\ \A p : ~Owes(p, out[i].n)',
           \A m \in (base' + 1) .. lbl'.else_if_num :
             (\E i \in Defs("RES_IF")' : out'[i].n = m) \/ \E p : Owes(p, m)'
    PROVE  DefInv'
<1>1. \A i \in Defs("RES_IF")' : \A p \in DOMAIN frames' : out'[i].n \notin Owed(frames[p])'
  BY DEF Owes
<1>2. \A m \in (base' + 1) .. lbl'.else_if_num :
        \/ \E i \in Defs("RES_IF")' : out'[i].n = m
        \/ \E p \in DOMAIN frames' : m \in Owed(frames[p])'
  BY DEF Owes
<1>3. QED
  BY <1>1, <1>2 DEF DefInv

\* No number is taken and none printed.
LEMMA QuietKeeps ==
    ASSUME IInv, Appended, NoNew("RES_IF"), base' = base,
           lbl'.else_if_num = lbl.else_if_num,
           \A p, m : Owes(p, m)' <=> Owes(p, m)
    PROVE  OwedInv' /\ DefInv' /\ ResIfUnique'
<1> DEFINE D == Defs("RES_IF")
<1>1. D' = D /\ \A i \in D : out'[i] = out[i]
  BY DEF Appended, NoNew, Defs
<1>2. ResIfUnique'
  BY <1>1 DEF IInv, ResIfUnique
<1>3. OwedInv'
  BY DEF IInv, OwedInv, Owes
<1>4. \A i \in Refs("RES_IF")' : out'[i].n \in Nat /\ out'[i].n <= lbl'.else_if_num
  <2>1. lbl.else_if_num \in Nat
    BY DEF IInv, LabelTypeOK, LblNames
  <2>2. \A i \in Refs("RES_IF") : out'[i] = out[i]
    BY DEF Appended, Refs
  <2>3. QED
    BY <2>1, <2>2 DEF IInv, DefInv, Appended
<1> HIDE DEF D
<1>5. \A i \in D' :
        /\ out'[i].n \in Nat /\ base' < out'[i].n /\ out'[i].n <= lbl'.else_if_num
        /\ \A p : ~Owes(p, out[i].n)'
  BY <1>1 DEF IInv, DefInv, D, Owes
<1>6. \A m \in (base' + 1) .. lbl'.else_if_num :
        (\E i \in D' : out'[i].n = m) \/ \E p : Owes(p, m)'
  BY <1>1 DEF IInv, DefInv, D, Owes
<1>7. DefInv'
  BY <1>4, <1>5, <1>6, DefInvFromOwes DEF D
<1>8. QED
  BY <1>2, <1>3, <1>7

\* visit_if takes the next number; activation p0 owes it.
LEMMA TakeKeeps ==
    ASSUME IInv, UNCHANGED <<out, base>>,
           lbl'.else_if_num = lbl.else_if_num + 1, NEW p0,
           \A p, m : Owes(p, m)' <=>
                Owes(p, m) \/ (p = p0 /\ m = lbl.else_if_num + 1)
    PROVE  OwedInv' /\ DefInv' /\ ResIfUnique'
<1> DEFINE next == lbl.else_if_num + 1
<1>1. lbl.else_if_num \in Nat /\ base \in Nat /\ base <= lbl.else_if_num
  BY DEF IInv, LabelTypeOK, LblNames
<1>2. Defs("RES_IF")' = Defs("RES_IF") /\ Refs("RES_IF")' = Refs("RES_IF")
  BY DEF Defs, Refs
<1>3. ResIfUnique'
  BY <1>2 DEF IInv, ResIfUnique
<1>4. \A p, m : Owes(p, m) => base < m /\ m <= lbl.else_if_num
  BY DEF IInv, OwedInv, Owes
<1>5. \A p, q, m : Owes(p, m) /\ Owes(q, m) => p = q
  BY DEF IInv, OwedInv, Owes
<1>6. /\ \A p, m : Owes(p, m)' => base' < m /\ m <= lbl'.else_if_num
      /\ \A p, q, m : Owes(p, m)' /\ Owes(q, m)' => p = q
  <2>1. \A p, m : Owes(p, m) => m # next /\ m <= next
    BY <1>1, <1>4, SMTT(30) DEF IInv, OwedInv, Owes, Owed, LabelTypeOK, FrameOK
  <2>2. QED
    BY <1>1, <1>4, <1>5, <2>1
<1>7. OwedInv'
  BY <1>6 DEF OwedInv, Owes
<1>8. \A i \in Defs("RES_IF") :
        /\ out[i].n \in Nat /\ base < out[i].n /\ out[i].n <= lbl.else_if_num
        /\ \A p : ~Owes(p, out[i].n)
  BY DEF IInv, DefInv, Owes
<1>9. \A i \in Defs("RES_IF") :
        /\ out[i].n \in Nat /\ base < out[i].n /\ out[i].n <= next
        /\ \A p : ~Owes(p, out[i].n)'
  BY <1>1, <1>8
<1>10. \A m \in (base + 1) .. next :
        (\E i \in Defs("RES_IF") : out[i].n = m) \/ \E p : Owes(p, m)'
  <2>1. \A m \in (base + 1) .. lbl.else_if_num :
          (\E i \in Defs("RES_IF") : out[i].n = m) \/ \E p : Owes(p, m)
    BY DEF IInv, DefInv, Owes
  <2>2. QED
    BY <1>1, <2>1
<1>11. \A i \in Refs("RES_IF") : out[i].n \in Nat /\ out[i].n <= next
  BY <1>1 DEF IInv, DefInv
<1>12. DefInv'
  BY <1>2, <1>9, <1>10, <1>11 DEF DefInv, Owes
<1>13. QED
  BY <1>3, <1>7, <1>12

\* visit_if prints the number m0 that activation p0 owed.
LEMMA PrintKeeps ==
    ASSUME IInv, Appended, base' = base, lbl'.else_if_num = lbl.else_if_num,
           NEW p0, NEW m0, Owes(p0, m0), m0 \in Nat, New("RES_IF", m0),
           \A p, m : Owes(p, m)' <=> Owes(p, m) /\ m # m0
    PROVE  OwedInv' /\ DefInv' /\ ResIfUnique'
<1> DEFINE D == Defs("RES_IF")
<1>1. PICK d \in DOMAIN out' : d \notin DOMAIN out /\ D' = D \cup {d} /\ out'[d].n = m0
  BY DEF New
<1>2. d \notin D /\ \A i \in D : out'[i] = out[i]
  BY <1>1 DEF Appended, Defs
<1>3. lbl.else_if_num \in Nat /\ base < m0 /\ m0 <= lbl.else_if_num
  BY DEF IInv, LabelTypeOK, LblNames, OwedInv, Owes
<1>4. \A i \in D :
        /\ out[i].n \in Nat /\ base < out[i].n /\ out[i].n <= lbl.else_if_num
        /\ \A p : ~Owes(p, out[i].n)
  BY DEF IInv, DefInv, Owes
<1>5. OwedInv'
  BY DEF IInv, OwedInv, Owes
<1>6. \A i \in Refs("RES_IF")' : out'[i].n \in Nat /\ out'[i].n <= lbl'.else_if_num
  <2>1. \A i \in Refs("RES_IF") : out'[i] = out[i]
    BY DEF Appended, Refs
  <2>2. QED
    BY <1>3, <2>1 DEF IInv, DefInv, Appended
<1>7. \A i, j \in D : out[i].n = out[j].n => i = j
  BY DEF IInv, ResIfUnique
<1>8. \A m \in (base + 1) .. lbl.else_if_num :
        (\E i \in D : out[i].n = m) \/ \E p : Owes(p, m)
  BY DEF IInv, DefInv, Owes
<1> HIDE DEF D
<1>9. \A i, j \in D' : out'[i].n = out'[j].n => i = j
  BY <1>1, <1>2, <1>4, <1>7
<1>10. \A i \in D' :
        /\ out'[i].n \in Nat /\ base' < out'[i].n /\ out'[i].n <= lbl'.else_if_num
        /\ \A p : ~Owes(p, out[i].n)'
  <2>1. \A i \in D : out'[i].n = out[i].n
    BY <1>2
  <2>2. \A i \in D : /\ out'[i].n \in Nat /\ base' < out'[i].n
                     /\ out'[i].n <= lbl'.else_if_num
                     /\ \A p : ~Owes(p, out[i].n)'
    BY <1>4, <2>1
  <2>3. /\ base' < out'[d].n /\ out'[d].n <= lbl'.else_if_num
        /\ \A p : ~Owes(p, out[d].n)'
    BY <1>1, <1>3
  <2>4. QED
    BY <1>1, <2>2, <2>3
<1>11. \A m \in (base' + 1) .. lbl'.else_if_num :
        (\E i \in D' : out'[i].n = m) \/ \E p : Owes(p, m)'
  BY <1>1, <1>2, <1>8
<1>12. DefInv'
  BY <1>6, <1>10, <1>11, DefInvFromOwes DEF D
<1>13. QED
  BY <1>5, <1>9, <1>12 DEF ResIfUnique, D

\* No loop is entered.
LEMMA LoopKeeps ==
    ASSUME IInv, Appended, NoNew("LOOP"), lbl'.mem_loop_num = lbl.mem_loop_num
    PROVE  LoopInv' /\ LoopUnique'
<1>1. Defs("LOOP")' = Defs("LOOP") /\ \A i \in Defs("LOOP") : out'[i] = out[i]
  BY DEF Appended, NoNew, Defs
<1>2. QED
  BY <1>1 DEF IInv, LoopInv, LoopUnique

-----------------------------------------------------------------------------
(* Replacing the innermost activation.                                     *)

\* Replacing the innermost activation by those of t leaves its callers alone.
LEMMA ReplaceFacts ==
    ASSUME LabelTypeOK, frames # <<>>, NEW T, NEW t \in Seq(T)
    PROVE  frames' = Callers \o t =>
           /\ frames' \in Seq(Elements(frames'))
           /\ Len(frames) \in Nat \ {0} /\ Len(t) \in Nat
           /\ DOMAIN frames = 1 .. Len(frames) /\ DOMAIN t = 1 .. Len(t)
           /\ DOMAIN frames' = 1 .. (Len(frames) - 1 + Len(t))
           /\ \A p \in 1 .. (Len(frames) - 1) : frames'[p] = frames[p]
           /\ \A j \in 1 .. Len(t) : frames'[Len(frames) - 1 + j] = t[j]
<1> DEFINE S == Elements(frames)
           new == Callers \o t
           len == Len(frames)
<1>1. SUFFICES ASSUME frames' = new
      PROVE  /\ frames' \in Seq(Elements(frames'))
             /\ len \in Nat \ {0} /\ Len(t) \in Nat
             /\ DOMAIN frames = 1 .. len /\ DOMAIN t = 1 .. Len(t)
             /\ DOMAIN frames' = 1 .. (len - 1 + Len(t))
             /\ \A p \in 1 .. (len - 1) : frames'[p] = frames[p]
             /\ \A j \in 1 .. Len(t) : frames'[len - 1 + j] = t[j]
  OBVIOUS
<1>2. frames \in Seq(S) /\ len \in Nat \ {0} /\ DOMAIN frames = 1 .. len
  BY EmptySeq, LenProperties DEF LabelTypeOK
<1>3. \A p \in 1 .. len : frames[p] \in S
  BY <1>2, ElementOfSeq
<1>4. /\ Callers \in Seq(S)
      /\ Len(Callers) = len - 1
      /\ \A p \in 1 .. (len - 1) : Callers[p] = frames[p]
  <2>1. len - 1 \in Int /\ \A p \in 1 .. (len - 1) : frames[p] \in S
    BY <1>2, <1>3
  <2> DEFINE m == len - 1
  <2> HIDE DEF m
  <2>2. /\ SubSeq(frames, 1, m) \in Seq(S)
        /\ Len(SubSeq(frames, 1, m)) = IF 1 <= m THEN m - 1 + 1 ELSE 0
        /\ \A i \in 1 .. m - 1 + 1 : SubSeq(frames, 1, m)[i] = frames[1 + i - 1]
    BY <2>1, SubSeqProperties DEF m
  <2>3. /\ Len(SubSeq(frames, 1, m)) = m
        /\ \A i \in 1 .. m : SubSeq(frames, 1, m)[i] = frames[i]
    BY <1>2, <2>1, <2>2 DEF m
  <2>4. QED
    BY <2>2, <2>3 DEF Callers, m
<1> HIDE DEF S, len
<1>5. /\ new \in Seq(S \cup T)
      /\ Len(t) \in Nat /\ DOMAIN t = 1 .. Len(t)
      /\ DOMAIN Callers = 1 .. Len(Callers)
      /\ DOMAIN new = 1 .. (Len(Callers) + Len(t))
      /\ \A p \in DOMAIN Callers : new[p] = Callers[p]
      /\ \A j \in DOMAIN t : new[Len(Callers) + j] = t[j]
  <2>1. Callers \in Seq(S)
    BY <1>4
  <2>2. QED
    BY <2>1, CatFacts
<1>6. new \in Seq(Elements(new))
  BY <1>5, OwnElements
<1> HIDE DEF new
<1>7. QED
  BY <1>1, <1>2, <1>4, <1>5, <1>6

\* A step that neither takes nor prints a number: the top activation moves on
\* owing what it owed, or returns owing nothing, and calls handlers that owe
\* nothing yet.
LEMMA ReplaceQuiet ==
    ASSUME LabelTypeOK, BranchRouting, frames # <<>>, NEW T, NEW t \in Seq(T),
           frames' = Callers \o t, Top.pc # "conds",
           \A j \in DOMAIN t : FrameOK(t[j]) /\ t[j].pc # "conds",
           \A j \in DOMAIN t : j > 1 => Owed(t[j]) = {},
           t # <<>> => Owed(t[1]) = Owed(Top),
           t = <<>> => Owed(Top) = {}
    PROVE  /\ frames' \in Seq(Elements(frames'))
           /\ \A p \in DOMAIN frames' : FrameOK(frames'[p])
           /\ BranchRouting'
           /\ \A p, m : Owes(p, m)' <=> Owes(p, m)
<1> DEFINE len == Len(frames)
<1>1. /\ frames' \in Seq(Elements(frames'))
      /\ len \in Nat \ {0} /\ Len(t) \in Nat
      /\ DOMAIN frames = 1 .. len /\ DOMAIN t = 1 .. Len(t)
      /\ DOMAIN frames' = 1 .. (len - 1 + Len(t))
      /\ \A p \in 1 .. (len - 1) : frames'[p] = frames[p]
      /\ \A j \in 1 .. Len(t) : frames'[len - 1 + j] = t[j]
  BY ReplaceFacts
<1>2. Top = frames[len]
  BY DEF Top
<1>3. t = <<>> <=> Len(t) = 0
  BY EmptySeq
<1> HIDE DEF len
<1>4. \A p \in DOMAIN frames' :
        \/ p \in 1 .. (len - 1) /\ p \in DOMAIN frames /\ frames'[p] = frames[p] /\ p # len
        \/ \E j \in DOMAIN t : p = len - 1 + j /\ frames'[p] = t[j]
  <2>1. SUFFICES ASSUME NEW p \in DOMAIN frames', p \notin 1 .. (len - 1)
                 PROVE  \E j \in DOMAIN t : p = len - 1 + j /\ frames'[p] = t[j]
    BY <1>1
  <2>2. p - len + 1 \in 1 .. Len(t) /\ p = len - 1 + (p - len + 1)
    <3>1. len \in Nat \ {0} /\ Len(t) \in Nat /\ p \in 1 .. (len - 1 + Len(t))
      BY <1>1, <2>1
    <3>2. QED
      BY <2>1, <3>1
  <2>3. QED
    BY <1>1, <2>2
<1>5. \A p \in DOMAIN frames' : FrameOK(frames'[p]) /\ frames'[p].pc # "conds"
  BY <1>2, <1>4 DEF LabelTypeOK, BranchRouting, len
<1>6. BranchRouting'
  BY <1>5 DEF BranchRouting
<1>7. ASSUME NEW p, NEW m PROVE Owes(p, m)' <=> Owes(p, m)
  <2>1. CASE p \in 1 .. (len - 1)
    BY <1>1, <2>1 DEF Owes, Owed
  <2>2. CASE p = len
    <3>1. CASE t = <<>>
      BY <1>1, <1>2, <1>3, <2>2, <3>1 DEF Owes
    <3>2. CASE t # <<>>
      <4>1. p \in DOMAIN frames /\ p \in DOMAIN frames' /\ 1 \in DOMAIN t
        BY <1>1, <1>3, <2>2, <3>2
      <4>2. frames'[p] = t[1] /\ frames[p] = Top
        BY <1>1, <1>2, <2>2, <4>1
      <4>3. Owed(frames[p])' = Owed(t[1])
        BY <4>2 DEF Owed
      <4>4. QED
        BY <3>2, <4>1, <4>2, <4>3 DEF Owes
    <3>3. QED
      BY <3>1, <3>2
  <2>3. CASE p \notin 1 .. len
    <3>1. ~Owes(p, m)
      BY <1>1, <2>3 DEF Owes
    <3>2. ASSUME p \in DOMAIN frames' PROVE m \notin Owed(frames[p])'
      <4>1. PICK j \in DOMAIN t : p = len - 1 + j /\ frames'[p] = t[j]
        BY <1>1, <1>4, <2>3, <3>2
      <4>2. j > 1
        BY <1>1, <2>3, <4>1
      <4>3. Owed(frames[p])' = Owed(t[j])
        BY <4>1 DEF Owed
      <4>4. QED
        BY <4>1, <4>2, <4>3
    <3>3. QED
      BY <3>1, <3>2 DEF Owes
  <2>4. QED
    BY <1>1, <2>1, <2>2, <2>3
<1>8. QED
  BY <1>1, <1>5, <1>6, <1>7

-----------------------------------------------------------------------------
(* The steps.                                                              *)

\* The innermost activation is well formed.
LEMMA TopOK ==
    ASSUME LabelTypeOK, frames # <<>>
    PROVE  /\ FrameOK(Top) /\ Len(frames) \in DOMAIN frames
           /\ Callers \o <<>> = Callers
<1>1. /\ Len(frames) \in Nat \ {0} /\ DOMAIN frames = 1 .. Len(frames)
      /\ \A p \in 1 .. Len(frames) : frames[p] \in Elements(frames)
  BY EmptySeq, LenProperties, ElementOfSeq DEF LabelTypeOK
<1>2. FrameOK(Top)
  BY <1>1 DEF LabelTypeOK, Top
<1> DEFINE m == Len(frames) - 1
<1>3. m \in Int /\ \A p \in 1 .. m : frames[p] \in Elements(frames)
  BY <1>1
<1> HIDE DEF m
<1>4. SubSeq(frames, 1, m) \in Seq(Elements(frames))
  BY <1>3, SubSeqProperties
<1>5. SubSeq(frames, 1, m) \o <<>> = SubSeq(frames, 1, m)
  BY <1>4, ConcatEmptySeq
<1>6. QED
  BY <1>1, <1>2, <1>5 DEF Callers, m

\* Moving on inside a handler.
LEMMA MovedOn ==
    ASSUME NEW f, FrameOK(f)
    PROVE  LET g == [f EXCEPT !.i = @ + 1]
           IN  FrameOK(g) /\ g.pc = f.pc /\ g.mem = f.mem /\ g.len = f.len /\ g.i = f.i + 1
BY DEF FrameOK

\* A handler that is called begins at its first statement.
LEMMA NewFrame ==
    ASSUME NEW h, NEW n, NEW pc, NEW mem
    PROVE  LET f == Frame(h, n, pc, mem)
           IN  /\ f.h = h /\ f.pc = pc /\ f.mem = mem /\ f.i = 1 /\ f.len = 0
               /\ pc = "body" /\ mem \in Nat => FrameOK(f)
BY DEF FrameOK, Frame

\* A step that neither takes nor prints a number keeps the invariant.
LEMMA QuietStep ==
    ASSUME IInv, frames # <<>>, NEW T, NEW t \in Seq(T),
           frames' = Callers \o t, Top.pc # "conds",
           \A j \in DOMAIN t : FrameOK(t[j]) /\ t[j].pc # "conds",
           \A j \in DOMAIN t : j > 1 => Owed(t[j]) = {},
           t # <<>> => Owed(t[1]) = Owed(Top),
           t = <<>> => Owed(Top) = {},
           Appended, NoNew("RES_IF"), base' = base,
           lbl' \in [LblNames -> Nat], lbl'.else_if_num = lbl.else_if_num,
           LoopInv', LoopUnique'
    PROVE  IInv'
<1>1. LabelTypeOK /\ BranchRouting
  BY DEF IInv
<1>2. /\ frames' \in Seq(Elements(frames'))
      /\ \A p \in DOMAIN frames' : FrameOK(frames'[p])
      /\ BranchRouting'
      /\ \A p, m : Owes(p, m)' <=> Owes(p, m)
  BY <1>1, ReplaceQuiet
<1>3. LabelTypeOK'
  BY <1>1, <1>2 DEF LabelTypeOK, Appended
<1>4. OwedInv' /\ DefInv' /\ ResIfUnique'
  BY <1>2, QuietKeeps
<1>5. QED
  BY <1>2, <1>3, <1>4 DEF IInv

\* The expression handlers keep the invariant.
LEMMA ExpressionKeeps ==
    ASSUME IInv, ExpressionStep
    PROVE  IInv'
<1>1. LabelTypeOK
  BY DEF IInv
<1>2. /\ UNCHANGED <<frames, lbl, base>>
      /\ \E T : \E t \in Seq(T) : out' = out \o t /\ Harmless(t, lbl.else_if_num)
  BY <1>1, ExpressionOutput
<1>3. Appended /\ NoNew("RES_IF") /\ NoNew("LOOP")
  BY <1>1, <1>2, HarmlessOutput
<1>4. \A p, m : Owes(p, m)' <=> Owes(p, m)
  BY <1>2 DEF Owes, Owed
<1>5. OwedInv' /\ DefInv' /\ ResIfUnique'
  BY <1>2, <1>3, <1>4, QuietKeeps
<1>6. LoopInv' /\ LoopUnique'
  BY <1>2, <1>3, LoopKeeps
<1>7. LabelTypeOK' /\ BranchRouting'
  BY <1>1, <1>2, <1>3 DEF IInv, LabelTypeOK, BranchRouting, Appended
<1>8. QED
  BY <1>5, <1>6, <1>7 DEF IInv

-----------------------------------------------------------------------------
(* The lines the handlers of blocks print.                                 *)

\* What prints nothing prints no label.
LEMMA SameOutput ==
    ASSUME LabelTypeOK, UNCHANGED out
    PROVE  Appended /\ NoNew("RES_IF") /\ NoNew("LOOP")
BY DEF LabelTypeOK, Appended, NoNew, Defs, Refs

\* Tokens of kinds that are harmless make a harmless line.
LEMMA HarmlessTokens ==
    ASSUME NEW T, NEW t \in Seq(T), NEW m,
           \A x \in T : /\ x.k = "def" => x.s \notin {"RES_IF", "LOOP"}
                        /\ x.k = "ref" => x.s # "RES_IF"
    PROVE  Harmless(t, m)
<1>1. \A i \in DOMAIN t : t[i] \in T
  BY ElementOfSeq, LenProperties
<1>2. QED
  BY <1>1 DEF Harmless

\* A jump to a label other than RES_IF is harmless.
LEMMA JumpHarmless ==
    ASSUME NEW s, s # "RES_IF", NEW n, NEW m
    PROVE  /\ JumpLine(s, n) \in Seq({Op("JUMP"), Ref(s, n), NL})
           /\ Harmless(JumpLine(s, n), m)
<1> DEFINE T == {Op("JUMP"), Ref(s, n), NL}
<1>1. JumpLine(s, n) \in Seq(T)
  BY DEF JumpLine
<1>2. \A x \in T : x.k # "def" /\ (x.k = "ref" => x.s # "RES_IF")
  BY DEF Op, Ref, NL, Tok
<1> HIDE DEF T
<1>3. Harmless(JumpLine(s, n), m)
  BY <1>1, <1>2, HarmlessTokens
<1>4. QED
  BY <1>1, <1>3 DEF T

\* So is a label other than RES_IF and LOOP.
LEMMA LabelHarmless ==
    ASSUME NEW s, s \notin {"RES_IF", "LOOP"}, NEW n, NEW m
    PROVE  /\ LabelLine(s, n) \in Seq({Op("LABEL"), Def(s, n), NL})
           /\ Harmless(LabelLine(s, n), m)
<1> DEFINE T == {Op("LABEL"), Def(s, n), NL}
<1>1. LabelLine(s, n) \in Seq(T)
  BY DEF LabelLine
<1>2. \A x \in T : x.k # "ref" /\ (x.k = "def" => x.s \notin {"RES_IF", "LOOP"})
  BY DEF Op, Def, NL, Tok
<1> HIDE DEF T
<1>3. Harmless(LabelLine(s, n), m)
  BY <1>1, <1>2, HarmlessTokens
<1>4. QED
  BY <1>1, <1>3 DEF T

\* Two harmless pieces printed one after the other.
LEMMA HarmlessTwice ==
    ASSUME LabelTypeOK, NEW S, NEW T, NEW s \in Seq(S), NEW t \in Seq(T),
           Harmless(s, lbl.else_if_num), Harmless(t, lbl.else_if_num)
    PROVE  out' = (out \o s) \o t => Appended /\ NoNew("RES_IF") /\ NoNew("LOOP")
<1> DEFINE st == s \o t
<1>1. st \in Seq(S \cup T)
  BY CatFacts
<1>2. /\ \A i \in DOMAIN s : s[i] = st[i]
      /\ \A i \in DOMAIN st : \/ i \in DOMAIN s /\ st[i] = s[i]
                              \/ \E j \in DOMAIN t : st[i] = t[j]
  BY CatElements
<1>3. Harmless(st, lbl.else_if_num)
  <2> HIDE DEF st
  <2>1. QED
    BY <1>2 DEF Harmless
<1>4. (out \o s) \o t = out \o st
  <2> DEFINE R == Elements(out) \cup S \cup T
  <2>1. out \in Seq(R) /\ s \in Seq(R) /\ t \in Seq(R)
    BY SeqMonotonic DEF LabelTypeOK
  <2> HIDE DEF R
  <2>2. QED
    BY <2>1, ConcatAssociative
<1> HIDE DEF st
<1>5. out' = out \o st => Appended /\ NoNew("RES_IF") /\ NoNew("LOOP")
  BY <1>1, <1>3, HarmlessOutput
<1>6. QED
  BY <1>4, <1>5

\* The ends of the handlers, and the beginnings of those of blocks.
LEMMA ScopeEndPrints ==
    ASSUME LabelTypeOK, ScopeEnd
    PROVE  Appended /\ NoNew("RES_IF") /\ NoNew("LOOP")
BY LabelHarmless, HarmlessOutput DEF ScopeEnd

LEMMA IfEndPrints ==
    ASSUME LabelTypeOK, IfEnd
    PROVE  Appended /\ NoNew("RES_IF") /\ NoNew("LOOP")
<1> DEFINE m == lbl.end_if_num
           s == JumpLine("END_IF", m)
           t == LabelLine("END_IF", m)
<1>1. /\ s \in Seq({Op("JUMP"), Ref("END_IF", m), NL}) /\ Harmless(s, lbl.else_if_num)
      /\ t \in Seq({Op("LABEL"), Def("END_IF", m), NL}) /\ Harmless(t, lbl.else_if_num)
  BY JumpHarmless, LabelHarmless
<1>2. out' = (out \o s) \o t
  BY DEF IfEnd
<1> HIDE DEF s, t
<1>3. QED
  BY <1>1, <1>2, HarmlessTwice

LEMMA IfElseBlockPrints ==
    ASSUME LabelTypeOK, IfElseBlock
    PROVE  Appended /\ NoNew("RES_IF") /\ NoNew("LOOP")
<1> DEFINE s == JumpLine("END_IF", lbl.end_if_num)
           u == LabelLine("RES_ELSE", lbl.else_num)
<1>1. /\ s \in Seq({Op("JUMP"), Ref("END_IF", lbl.end_if_num), NL})
      /\ Harmless(s, lbl.else_if_num)
      /\ u \in Seq({Op("LABEL"), Def("RES_ELSE", lbl.else_num), NL})
      /\ Harmless(u, lbl.else_if_num)
  BY JumpHarmless, LabelHarmless
<1>2. out' = (out \o s) \o u
  BY DEF IfElseBlock
<1> HIDE DEF s, u
<1>3. QED
  BY <1>1, <1>2, HarmlessTwice

LEMMA visit_scopePrints ==
    ASSUME LabelTypeOK, visit_scope
    PROVE  Appended /\ NoNew("RES_IF") /\ NoNew("LOOP")
<1> DEFINE s == LabelLine("Scope", 0)
           T == {Op("CREATEFRAME"), NL, Op("DEFVAR"), TB1, TB2}
           u == <<Op("CREATEFRAME"), NL, Op("DEFVAR"), TB1, NL, Op("DEFVAR"), TB2, NL>>
<1>1. s \in Seq({Op("LABEL"), Def("Scope", 0), NL}) /\ Harmless(s, lbl.else_if_num)
  BY LabelHarmless
<1>2. u \in Seq(T)
  OBVIOUS
<1>3. \A x \in T : x.k # "ref" /\ x.k # "def"
  BY DEF Op, NL, TB1, TB2, TF, Tok
<1>4. out' = (out \o s) \o u
  BY DEF visit_scope
<1> HIDE DEF s, T, u
<1>5. Harmless(u, lbl.else_if_num)
  BY <1>2, <1>3, HarmlessTokens
<1>6. QED
  BY <1>1, <1>2, <1>4, <1>5, HarmlessTwice

LEMMA visit_functionPrints ==
    ASSUME LabelTypeOK, visit_function
    PROVE  Appended /\ NoNew("RES_IF") /\ NoNew("LOOP")
<1> DEFINE w == Tok("word", NextStmt.name, 0)
           T == {Op("LABEL"), w, NL, Op("CREATEFRAME")}
           u == <<Op("LABEL"), w, NL, Op("CREATEFRAME"), NL>>
<1>1. u \in Seq(T)
  OBVIOUS
<1>2. \A x \in T : x.k # "ref" /\ x.k # "def"
  BY DEF Op, NL, Tok
<1>3. out' = out \o u
  BY DEF visit_function
<1> HIDE DEF T, u
<1>4. Harmless(u, lbl.else_if_num)
  BY <1>1, <1>2, HarmlessTokens
<1>5. QED
  BY <1>1, <1>3, <1>4, HarmlessOutput

LEMMA GenEndPrints ==
    ASSUME LabelTypeOK, GenEnd
    PROVE  Appended /\ NoNew("RES_IF") /\ NoNew("LOOP")
<1> DEFINE t == <<NL>>
           T == {NL}
<1>1. t \in Seq(T) /\ out' = out \o t
  BY DEF GenEnd
<1>2. \A x \in T : x.k # "ref" /\ x.k # "def"
  BY DEF NL, Tok
<1> HIDE DEF t, T
<1>3. Harmless(t, lbl.else_if_num)
  BY <1>1, <1>2, HarmlessTokens
<1>4. QED
  BY <1>1, <1>3, HarmlessOutput

\* A loop begins with the number after the last one,
LEMMA visit_whilePrints ==
    ASSUME LabelTypeOK, visit_while
    PROVE  Appended /\ New("LOOP", NextLoop) /\ NoNew("RES_IF")
<1> DEFINE none == <<>>
           N == {}
           m == NextLoop
<1>1. out \o <<>> = out
  BY ConcatEmptySeq DEF LabelTypeOK
<1>2. out' = (out \o none) \o LabelLine("LOOP", m)
  BY <1>1 DEF visit_while
<1>3. none \in Seq(N) /\ Harmless(none, lbl.else_if_num)
  BY DEF Harmless
<1> HIDE DEF none, N, m
<1>4. Appended /\ New("LOOP", m) /\ NoNew("RES_IF")
  BY <1>2, <1>3, LabelOutput
<1>5. QED
  BY <1>4 DEF m

\* a branch with the one owed.
LEMMA IfBlockPrints ==
    ASSUME LabelTypeOK, IfBlock
    PROVE  Appended /\ New("RES_IF", Top.mem + 1) /\ NoNew("LOOP")
<1> DEFINE hasElse == Top.node.else_block # Null
           num  == IF hasElse THEN lbl.else_num + 1 ELSE lbl.else_num
           miss == IF hasElse THEN JumpLine("RES_ELSE", num)
                   ELSE IF ElseIfs = <<>> THEN JumpLine("END_IF", lbl.end_if_num)
                   ELSE <<>>
           m0   == Top.mem + 1
<1>1. out' = (out \o miss) \o LabelLine("RES_IF", m0)
  BY DEF IfBlock, NoMatch, Missed, BranchLabel
<1>2. \E T : miss \in Seq(T) /\ Harmless(miss, lbl.else_if_num)
  <2>1. CASE hasElse
    BY <2>1, JumpHarmless
  <2>2. CASE ~hasElse /\ ElseIfs = <<>>
    BY <2>2, JumpHarmless
  <2>3. CASE ~hasElse /\ ElseIfs # <<>>
    <3>1. miss = <<>>
      BY <2>3
    <3>2. <<>> \in Seq({}) /\ Harmless(<<>>, lbl.else_if_num)
      BY DEF Harmless
    <3>3. QED
      BY <3>1, <3>2
  <2>4. QED
    BY <2>1, <2>2, <2>3
<1> HIDE DEF num, miss, m0
<1>3. Appended /\ New("RES_IF", m0) /\ NoNew("LOOP")
  BY <1>1, <1>2, LabelOutput
<1>4. QED
  BY <1>3 DEF m0

LEMMA IfElseIfBlockPrints ==
    ASSUME LabelTypeOK, IfElseIfBlock
    PROVE  Appended /\ New("RES_IF", Top.mem + 1) /\ NoNew("LOOP")
<1> DEFINE j  == JumpLine("END_IF", lbl.end_if_num)
           m0 == Top.mem + 1
<1>1. out' = (out \o j) \o LabelLine("RES_IF", m0)
  BY DEF IfElseIfBlock, BranchLabel
<1>2. j \in Seq({Op("JUMP"), Ref("END_IF", lbl.end_if_num), NL})
      /\ Harmless(j, lbl.else_if_num)
  BY JumpHarmless
<1> HIDE DEF j, m0
<1>3. Appended /\ New("RES_IF", m0) /\ NoNew("LOOP")
  BY <1>1, <1>2, LabelOutput
<1>4. QED
  BY <1>3 DEF m0

\* No handler but visit_while prints a LOOP label.
LEMMA NoLoopPrinted ==
    ASSUME LabelTypeOK, StatementStep, ~visit_while
    PROVE  Appended /\ NoNew("LOOP")
<1>1. CASE visit_block \/ visit_if \/ IfElseIfCond \/ WhileCond \/ FunctionEnd
  BY <1>1, SameOutput DEF visit_block, visit_if, IfElseIfCond, WhileCond, FunctionEnd
<1>2. QED
  BY <1>1, IfBlockPrints, IfElseIfBlockPrints, IfElseBlockPrints, IfEndPrints, visit_scopePrints,
     ScopeEndPrints, visit_functionPrints, GenEndPrints DEF StatementStep

\* visit_block calls handlers that have not taken any number yet.
LEMMA CallKeeps ==
    ASSUME IInv, Running("block"), NEW T, NEW t \in Seq(T), CallFromBlock(t),
           \A x \in T : FrameOK(x) /\ x.pc = "body",
           Appended, NoNew("RES_IF"), base' = base,
           lbl' \in [LblNames -> Nat], lbl'.else_if_num = lbl.else_if_num,
           LoopInv', LoopUnique'
    PROVE  IInv'
<1> DEFINE g == [Top EXCEPT !.i = @ + 1]
           u == <<g>> \o t
<1>1. LabelTypeOK /\ frames # <<>>
  BY DEF IInv, Running
<1>2. FrameOK(Top) /\ Top.pc = "body"
  BY <1>1, TopOK DEF Running, FrameOK
<1>3. FrameOK(g) /\ g.pc = "body"
  BY <1>2, MovedOn
<1> HIDE DEF g
<1>4. <<g>> \in Seq({g}) /\ Len(<<g>>) = 1 /\ <<g>>[1] = g
  OBVIOUS
<1>5. /\ u \in Seq({g} \cup T) /\ 1 \in DOMAIN u /\ u[1] = g
      /\ \A i \in DOMAIN u : u[i] = g \/ u[i] \in T
  <2>1. \A j \in DOMAIN t : t[j] \in T
    BY LenProperties, ElementOfSeq
  <2>2. /\ u \in Seq({g} \cup T)
        /\ \A i \in DOMAIN <<g>> : i \in DOMAIN u /\ u[i] = <<g>>[i]
        /\ \A i \in DOMAIN u : i \in DOMAIN <<g>> \/ \E j \in DOMAIN t : u[i] = t[j]
    <3> DEFINE one == <<g>>
    <3>1. one \in Seq({g})
      BY <1>4
    <3> HIDE DEF one
    <3>2. one \o t \in Seq({g} \cup T)
      BY <3>1, CatFacts
    <3>3. /\ \A i \in DOMAIN one : i \in DOMAIN (one \o t) /\ (one \o t)[i] = one[i]
          /\ \A i \in DOMAIN (one \o t) :
               i \in DOMAIN one \/ \E j \in DOMAIN t : (one \o t)[i] = t[j]
      BY <3>1, CatElements
    <3>4. QED
      BY <3>2, <3>3 DEF one
  <2>3. DOMAIN <<g>> = {1}
    BY <1>4
  <2> HIDE DEF u
  <2>4. QED
    BY <1>4, <2>1, <2>2, <2>3
<1>6. frames' = Callers \o u
  BY DEF CallFromBlock, g
<1> HIDE DEF u
<1>7. \A j \in DOMAIN u : FrameOK(u[j]) /\ u[j].pc = "body"
  BY <1>3, <1>5
<1>8. /\ \A j \in DOMAIN u : Owed(u[j]) = {}
      /\ Owed(Top) = {}
  BY <1>2, <1>7 DEF Owed
<1>9. u # <<>>
  BY <1>5
<1>10. QED
  BY <1>1, <1>2, <1>5, <1>6, <1>7, <1>8, <1>9, QuietStep

\* A handler that owes nothing returns.
LEMMA ReturnKeeps ==
    ASSUME IInv, frames # <<>>, frames' = Callers, Top.pc # "conds", Owed(Top) = {},
           Appended, NoNew("RES_IF"), NoNew("LOOP"), UNCHANGED <<lbl, base>>
    PROVE  IInv'
<1>1. LabelTypeOK
  BY DEF IInv
<1>2. frames' = Callers \o <<>>
  BY <1>1, TopOK
<1>3. LoopInv' /\ LoopUnique'
  BY LoopKeeps
<1>4. <<>> \in Seq({}) /\ DOMAIN <<>> = {}
  OBVIOUS
<1>5. lbl' \in [LblNames -> Nat] /\ lbl'.else_if_num = lbl.else_if_num
  BY <1>1 DEF LabelTypeOK
<1>6. QED
  BY <1>2, <1>3, <1>4, <1>5, QuietStep

\* visit_block prints nothing: it visits a simple statement or returns.
LEMMA visit_blockKeeps ==
    ASSUME IInv, visit_block PROVE IInv'
<1>1. LabelTypeOK /\ Appended /\ NoNew("RES_IF") /\ NoNew("LOOP")
  BY SameOutput DEF visit_block, IInv
<1>2. frames # <<>> /\ Top.pc = "body"
  BY <1>1, TopOK DEF visit_block, Running, FrameOK
<1>3. CASE CallFromBlock(<<>>)
  <2>1. LoopInv' /\ LoopUnique'
    BY <1>1, LoopKeeps DEF visit_block
  <2> DEFINE none == <<>>
             T == {}
  <2>2. none \in Seq(T) /\ \A x \in T : FrameOK(x) /\ x.pc = "body"
    OBVIOUS
  <2>3. /\ Running("block") /\ base' = base
        /\ lbl' \in [LblNames -> Nat] /\ lbl'.else_if_num = lbl.else_if_num
    BY <1>1 DEF visit_block, LabelTypeOK
  <2>4. CallFromBlock(none)
    BY <1>3
  <2> HIDE DEF none, T
  <2>5. QED
    BY <1>1, <2>1, <2>2, <2>3, <2>4, CallKeeps
<1>4. CASE frames' = Callers
  BY <1>1, <1>2, <1>4, ReturnKeeps DEF visit_block, Owed
<1>5. QED
  BY <1>3, <1>4 DEF visit_block

\* A loop visiting its condition only gives up its activation.
LEMMA WhileCondKeeps ==
    ASSUME IInv, WhileCond PROVE IInv'
<1>1. LabelTypeOK /\ Appended /\ NoNew("RES_IF") /\ NoNew("LOOP")
  BY SameOutput DEF WhileCond, IInv
<1>2. frames # <<>> /\ Top.pc = "body"
  BY <1>1, TopOK DEF WhileCond, Running, FrameOK
<1>3. QED
  BY <1>1, <1>2, ReturnKeeps DEF WhileCond, Owed

\* The end of visit_function prints nothing.
LEMMA FunctionEndKeeps ==
    ASSUME IInv, FunctionEnd PROVE IInv'
<1>1. LabelTypeOK /\ Appended /\ NoNew("RES_IF") /\ NoNew("LOOP")
  BY SameOutput DEF FunctionEnd, IInv
<1>2. frames # <<>> /\ Top.pc = "body"
  BY <1>1, TopOK DEF FunctionEnd, Running, FrameOK
<1>3. QED
  BY <1>1, <1>2, ReturnKeeps DEF FunctionEnd, Owed

\* The end of visit_scope prints END_IF_0, which is no RES_IF label.
LEMMA ScopeEndKeeps ==
    ASSUME IInv, ScopeEnd PROVE IInv'
<1>1. LabelTypeOK
  BY DEF IInv
<1>2. Appended /\ NoNew("RES_IF") /\ NoNew("LOOP")
  BY <1>1, ScopeEndPrints
<1>3. frames # <<>> /\ Top.pc = "body"
  BY <1>1, TopOK DEF ScopeEnd, Running, FrameOK
<1>4. QED
  BY <1>2, <1>3, ReturnKeeps DEF ScopeEnd, Owed

\* At its end visit_if owes nothing any more.
LEMMA IfEndKeeps ==
    ASSUME IInv, IfEnd PROVE IInv'
<1>1. LabelTypeOK /\ frames # <<>>
  BY DEF IInv, IfEnd, InIf, Running
<1>2. FrameOK(Top)
  BY <1>1, TopOK
<1>3. Appended /\ NoNew("RES_IF") /\ NoNew("LOOP")
  BY <1>1, IfEndPrints
<1>4. Top.pc # "conds" /\ Owed(Top) = {}
  <2>1. CASE InIf("blocks") /\ Top.i > Top.len
    BY <1>2, <2>1 DEF InIf, Owed, FrameOK
  <2>2. CASE InIf("else")
    BY <2>2 DEF InIf, Owed
  <2>3. QED
    BY <2>1, <2>2 DEF IfEnd
<1>5. QED
  BY <1>1, <1>3, <1>4, ReturnKeeps DEF IfEnd

\* A pair of activations in place of the innermost one.
LEMMA PairFacts ==
    ASSUME NEW a, NEW b
    PROVE  /\ <<a, b>> \in Seq({a, b}) /\ DOMAIN <<a, b>> = {1, 2}
           /\ <<a, b>>[1] = a /\ <<a, b>>[2] = b
           /\ Len(<<a, b>>) = 2 /\ <<a, b>> # <<>>
OBVIOUS

\* A block begins with an activation of visit_block.
LEMMA BlockFrameOK ==
    ASSUME NEW n
    PROVE  FrameOK(BlockFrame(n)) /\ BlockFrame(n).pc = "body"
BY NewFrame DEF BlockFrame

\* The else branch is printed when all RES_IF numbers of its if are.
LEMMA IfElseBlockKeeps ==
    ASSUME IInv, IfElseBlock PROVE IInv'
<1> DEFINE g == [Top EXCEPT !.pc = "else"]
           b == BlockFrame(Top.node.else_block)
<1>1. LabelTypeOK /\ frames # <<>>
  BY DEF IInv, IfElseBlock, InIf, Running
<1>2. FrameOK(Top) /\ Top.h = "if" /\ Top.pc = "blocks" /\ Top.i > Top.len
  BY <1>1, TopOK DEF IfElseBlock, InIf, Running
<1>3. Appended /\ NoNew("RES_IF") /\ NoNew("LOOP")
  BY <1>1, IfElseBlockPrints
<1>4. FrameOK(g) /\ g.pc = "else" /\ Owed(g) = {} /\ Owed(Top) = {}
  BY <1>2 DEF FrameOK, Owed
<1>5. FrameOK(b) /\ b.pc = "body" /\ Owed(b) = {}
  BY BlockFrameOK DEF Owed
<1>6. frames' = Callers \o <<g, b>>
  BY DEF IfElseBlock
<1> HIDE DEF g, b
<1>7. LoopInv' /\ LoopUnique'
  BY <1>3, LoopKeeps DEF IfElseBlock
<1>8. base' = base /\ lbl' \in [LblNames -> Nat] /\ lbl'.else_if_num = lbl.else_if_num
  BY <1>1 DEF IfElseBlock, LabelTypeOK
<1> DEFINE t == <<g, b>>
<1>9. /\ t \in Seq({g, b}) /\ DOMAIN t = {1, 2} /\ t[1] = g /\ t[2] = b /\ t # <<>>
      /\ frames' = Callers \o t
  BY <1>6, PairFacts
<1> HIDE DEF t
<1>10. QED
  BY <1>1, <1>2, <1>3, <1>4, <1>5, <1>7, <1>8, <1>9, QuietStep

\* A handler of a block statement starts, and visits the statement's block.
LEMMA EnterKeeps ==
    ASSUME IInv, Running("block"), NEW h, NEW n, NEW mem \in Nat, NEW b,
           CallFromBlock(<<Frame(h, n, "body", mem), BlockFrame(b)>>),
           Appended, NoNew("RES_IF"), base' = base,
           lbl' \in [LblNames -> Nat], lbl'.else_if_num = lbl.else_if_num,
           LoopInv', LoopUnique'
    PROVE  IInv'
<1> DEFINE f == Frame(h, n, "body", mem)
           c == BlockFrame(b)
           t == <<f, c>>
           T == {f, c}
<1>1. FrameOK(f) /\ f.pc = "body" /\ FrameOK(c) /\ c.pc = "body"
  BY NewFrame, BlockFrameOK
<1>2. CallFromBlock(t)
  OBVIOUS
<1> HIDE DEF f, c
<1>3. t \in Seq(T) /\ \A x \in T : FrameOK(x) /\ x.pc = "body"
  BY <1>1
<1> HIDE DEF t, T
<1>4. QED
  BY <1>2, <1>3, CallKeeps

\* visit_scope prints the Scope label, which is neither RES_IF nor LOOP.
LEMMA visit_scopeKeeps ==
    ASSUME IInv, visit_scope PROVE IInv'
<1>1. LabelTypeOK /\ Running("block")
  BY DEF IInv, visit_scope, AtStmt
<1>2. Appended /\ NoNew("RES_IF") /\ NoNew("LOOP")
  BY <1>1, visit_scopePrints
<1>3. LoopInv' /\ LoopUnique'
  BY <1>2, LoopKeeps DEF visit_scope
<1>4. base' = base /\ lbl' \in [LblNames -> Nat] /\ lbl'.else_if_num = lbl.else_if_num
  BY <1>1 DEF visit_scope, LabelTypeOK
<1>5. CallFromBlock(<<Frame("scope", NextStmt, "body", 0), BlockFrame(NextStmt.block)>>)
  BY DEF visit_scope
<1>6. QED
  BY <1>1, <1>2, <1>3, <1>4, <1>5, EnterKeeps

\* The label of a function is its name.
LEMMA visit_functionKeeps ==
    ASSUME IInv, visit_function PROVE IInv'
<1>1. LabelTypeOK /\ Running("block")
  BY DEF IInv, visit_function, AtStmt
<1>2. Appended /\ NoNew("RES_IF") /\ NoNew("LOOP")
  BY <1>1, visit_functionPrints
<1>3. LoopInv' /\ LoopUnique'
  BY <1>2, LoopKeeps DEF visit_function
<1>4. base' = base /\ lbl' \in [LblNames -> Nat] /\ lbl'.else_if_num = lbl.else_if_num
  BY <1>1 DEF visit_function, LabelTypeOK
<1>5. CallFromBlock(<<Frame("function", NextStmt, "body", 0), BlockFrame(NextStmt.block)>>)
  BY DEF visit_function
<1>6. QED
  BY <1>1, <1>2, <1>3, <1>4, <1>5, EnterKeeps

\* visit_while prints a loop number never used before.
LEMMA visit_whileKeeps ==
    ASSUME IInv, visit_while PROVE IInv'
<1> DEFINE m == lbl.mem_loop_num + 1
<1>1. LabelTypeOK /\ Running("block") /\ m \in Nat /\ lbl.mem_loop_num \in Nat
  BY DEF IInv, visit_while, AtStmt, LabelTypeOK, LblNames
<1>2. /\ base' = base /\ lbl' \in [LblNames -> Nat]
      /\ lbl'.else_if_num = lbl.else_if_num /\ lbl'.mem_loop_num = m
  BY <1>1 DEF visit_while, NextLoop, LabelTypeOK, LblNames
<1>3. Appended /\ New("LOOP", m) /\ NoNew("RES_IF")
  BY <1>1, visit_whilePrints DEF NextLoop
<1>4. CallFromBlock(<<Frame("while", NextStmt, "body", m), BlockFrame(NextStmt.block)>>)
  BY DEF visit_while, NextLoop
<1>5. LoopInv' /\ LoopUnique'
  <2>1. PICK d \in DOMAIN out' :
          d \notin DOMAIN out /\ Defs("LOOP")' = Defs("LOOP") \cup {d} /\ out'[d].n = m
    BY <1>3 DEF New
  <2>2. \A i \in Defs("LOOP") : i # d /\ out'[i] = out[i]
    BY <1>3, <2>1 DEF Appended, Defs
  <2>3. /\ \A i \in Defs("LOOP") : out[i].n \in Nat /\ out[i].n <= lbl.mem_loop_num
        /\ \A i, j \in Defs("LOOP") : out[i].n = out[j].n => i = j
    BY DEF IInv, LoopInv, LoopUnique
  <2>4. LoopInv'
    BY <1>1, <1>2, <2>1, <2>2, <2>3 DEF LoopInv
  <2>5. LoopUnique'
    BY <1>1, <2>1, <2>2, <2>3 DEF LoopUnique
  <2>6. QED
    BY <2>4, <2>5
<1> HIDE DEF m
<1>6. QED
  BY <1>1, <1>2, <1>3, <1>4, <1>5, EnterKeeps

\* The innermost activation moves on to t[1], and calls t[2] if there is one.
LEMMA ReplaceOwes ==
    ASSUME LabelTypeOK, BranchRouting, frames # <<>>, NEW T, NEW t \in Seq(T),
           frames' = Callers \o t, Len(t) \in {1, 2},
           \A j \in DOMAIN t : FrameOK(t[j]),
           \A j \in DOMAIN t : t[j].pc = "conds" =>
                j = Len(t) /\ lbl'.else_if_num = t[j].mem + t[j].i
    PROVE  /\ frames' \in Seq(Elements(frames'))
           /\ \A p \in DOMAIN frames' : FrameOK(frames'[p])
           /\ BranchRouting'
           /\ Len(frames) \in Nat
           /\ \A m : Owes(Len(frames), m) <=> m \in Owed(Top)
           /\ \A m : ~Owes(Len(frames) + 1, m)
           /\ \A p, m : Owes(p, m)' <=>
                \/ p # Len(frames) /\ Owes(p, m)
                \/ p = Len(frames) /\ m \in Owed(t[1])
                \/ Len(t) = 2 /\ p = Len(frames) + 1 /\ m \in Owed(t[2])
<1> DEFINE len == Len(frames)
<1>1. /\ frames' \in Seq(Elements(frames'))
      /\ len \in Nat \ {0} /\ Len(t) \in Nat
      /\ DOMAIN frames = 1 .. len /\ DOMAIN t = 1 .. Len(t)
      /\ DOMAIN frames' = 1 .. (len - 1 + Len(t))
      /\ \A p \in 1 .. (len - 1) : frames'[p] = frames[p]
      /\ \A j \in 1 .. Len(t) : frames'[len - 1 + j] = t[j]
  BY ReplaceFacts
<1>2. Top = frames[len]
  BY DEF Top
<1>3. Len(frames') = len - 1 + Len(t)
  BY <1>1, LenProperties
<1> HIDE DEF len
<1>4. frames'[len] = t[1] /\ (Len(t) = 2 => frames'[len + 1] = t[2])
  BY <1>1
<1>5. \A p \in DOMAIN frames' :
        \/ p \in 1 .. (len - 1)
        \/ p = len
        \/ p = len + 1 /\ Len(t) = 2
  <2>1. CASE Len(t) = 1
    BY <1>1, <2>1
  <2>2. CASE Len(t) = 2
    BY <1>1, <2>2, SMTT(30)
  <2>3. QED
    BY <2>1, <2>2
<1>6. \A p \in DOMAIN frames' : FrameOK(frames'[p])
  <2>1. \A p \in 1 .. len : FrameOK(frames[p])
    BY <1>1 DEF LabelTypeOK
  <2>2. FrameOK(t[1]) /\ (Len(t) = 2 => FrameOK(t[2]))
    BY <1>1
  <2>3. \A p \in 1 .. (len - 1) : FrameOK(frames'[p])
    BY <1>1, <2>1
  <2>4. QED
    BY <1>4, <1>5, <2>2, <2>3
<1>7. BranchRouting'
  <2>1. \A p \in 1 .. (len - 1) : frames'[p].pc # "conds"
    BY <1>1 DEF BranchRouting, len
  <2>2. \A j \in 1 .. Len(t) : frames'[len - 1 + j].pc = "conds" =>
          /\ len - 1 + j = Len(frames')
          /\ lbl'.else_if_num = frames'[len - 1 + j].mem + frames'[len - 1 + j].i
    <3>1. \A j \in 1 .. Len(t) : frames'[len - 1 + j] = t[j] /\ j \in DOMAIN t
      BY <1>1
    <3>2. QED
      BY <1>3, <3>1
  <2>3. \A p \in DOMAIN frames' :
          p \in 1 .. (len - 1) \/ \E j \in 1 .. Len(t) : p = len - 1 + j
    <3>1. /\ len = len - 1 + 1 /\ 1 \in 1 .. Len(t)
          /\ Len(t) = 2 => len + 1 = len - 1 + 2 /\ 2 \in 1 .. Len(t)
      BY <1>1
    <3>2. QED
      BY <1>5, <3>1
  <2>4. QED
    BY <2>1, <2>2, <2>3 DEF BranchRouting
<1>8. /\ \A m : Owes(len, m) <=> m \in Owed(Top)
      /\ \A m : ~Owes(len + 1, m)
  BY <1>1, <1>2 DEF Owes
<1>9. ASSUME NEW p, NEW m
      PROVE  Owes(p, m)' <=>
                \/ p # len /\ Owes(p, m)
                \/ p = len /\ m \in Owed(t[1])
                \/ Len(t) = 2 /\ p = len + 1 /\ m \in Owed(t[2])
  <2>1. CASE p \in 1 .. (len - 1)
    <3>1. p \in DOMAIN frames /\ p \in DOMAIN frames' /\ Owed(frames[p])' = Owed(frames[p])
      BY <1>1, <2>1 DEF Owed
    <3>2. p # len /\ p # len + 1
      BY <1>1, <2>1
    <3>3. QED
      BY <3>1, <3>2 DEF Owes
  <2>2. CASE p = len
    <3>1. p \in DOMAIN frames' /\ Owed(frames[p])' = Owed(t[1]) /\ p # len + 1
      BY <1>1, <1>4, <2>2, SMTT(30) DEF Owed
    <3>2. QED
      BY <2>2, <3>1 DEF Owes
  <2>3. CASE p = len + 1 /\ Len(t) = 2
    <3>1. /\ p \in DOMAIN frames' /\ p \notin DOMAIN frames
          /\ Owed(frames[p])' = Owed(t[2]) /\ p # len
      BY <1>1, <1>4, <2>3, SMTT(30) DEF Owed
    <3>2. QED
      BY <2>3, <3>1 DEF Owes
  <2>4. CASE p \notin 1 .. (len - 1) /\ p # len /\ ~(p = len + 1 /\ Len(t) = 2)
    <3>1. p \notin DOMAIN frames /\ p \notin DOMAIN frames'
      BY <1>1, <1>5, <2>4
    <3>2. QED
      BY <2>4, <3>1 DEF Owes
  <2>5. QED
    BY <2>1, <2>2, <2>3, <2>4
<1>10. QED
  BY <1>1, <1>6, <1>7, <1>8, <1>9 DEF len

\* visit_if takes one RES_IF number and owes it.
LEMMA visit_ifKeeps ==
    ASSUME IInv, visit_if PROVE IInv'
<1> DEFINE g == [Top EXCEPT !.i = @ + 1]
           f == Frame("if", NextStmt, "conds", lbl.else_if_num)
           next == lbl.else_if_num + 1
<1>1. LabelTypeOK /\ BranchRouting /\ frames # <<>> /\ lbl.else_if_num \in Nat
  BY DEF IInv, visit_if, AtStmt, Running, LabelTypeOK, LblNames
<1>2. FrameOK(Top) /\ Top.pc = "body"
  BY <1>1, TopOK DEF visit_if, AtStmt, Running, FrameOK
<1>3. FrameOK(g) /\ g.pc = "body" /\ Owed(g) = {} /\ Owed(Top) = {}
  BY <1>2, MovedOn DEF Owed
<1>4. /\ FrameOK(f) /\ f.pc = "conds" /\ f.mem + f.i = next
      /\ Owed(f) = {next}
  BY <1>1 DEF FrameOK, Frame, Owed
<1>5. frames' = Callers \o <<g, f>>
  BY DEF visit_if, CallFromBlock
<1> HIDE DEF g, f
<1>6. /\ UNCHANGED <<out, base>>
      /\ lbl' \in [LblNames -> Nat]
      /\ lbl'.else_if_num = next /\ lbl'.mem_loop_num = lbl.mem_loop_num
  <2>1. /\ UNCHANGED <<out, base>>
        /\ lbl' = [lbl EXCEPT !.else_if_num = @ + 1, !.end_if_num = @ + 1]
    BY DEF visit_if
  <2>2. lbl \in [LblNames -> Nat]
    BY <1>1 DEF LabelTypeOK
  <2>3. /\ lbl' \in [LblNames -> Nat]
        /\ lbl'.else_if_num = lbl.else_if_num + 1
        /\ lbl'.mem_loop_num = lbl.mem_loop_num
    <3> DEFINE mid == [lbl EXCEPT !.else_if_num = @ + 1]
    <3>1. /\ mid \in [LblNames -> Nat] /\ mid.else_if_num = lbl.else_if_num + 1
          /\ mid.mem_loop_num = lbl.mem_loop_num
      BY <1>1, <2>2 DEF LblNames
    <3>2. lbl' = [mid EXCEPT !.end_if_num = @ + 1]
      BY <2>1
    <3> HIDE DEF mid
    <3>3. QED
      BY <3>1, <3>2 DEF LblNames
  <2>4. QED
    BY <2>1, <2>3
<1> DEFINE t == <<g, f>>
<1>7. /\ t \in Seq({g, f}) /\ DOMAIN t = {1, 2} /\ t[1] = g /\ t[2] = f
      /\ Len(t) = 2 /\ frames' = Callers \o t
  BY <1>5, PairFacts
<1> HIDE DEF t, next
<1>8. /\ frames' \in Seq(Elements(frames'))
      /\ \A p \in DOMAIN frames' : FrameOK(frames'[p])
      /\ BranchRouting'
      /\ \A m : Owes(Len(frames), m) <=> m \in Owed(Top)
      /\ \A m : ~Owes(Len(frames) + 1, m)
      /\ \A p, m : Owes(p, m)' <=>
            \/ p # Len(frames) /\ Owes(p, m)
            \/ p = Len(frames) /\ m \in Owed(t[1])
            \/ Len(t) = 2 /\ p = Len(frames) + 1 /\ m \in Owed(t[2])
  <2>1. \A j \in DOMAIN t : t[j].pc = "conds" =>
          j = Len(t) /\ lbl'.else_if_num = t[j].mem + t[j].i
    BY <1>3, <1>4, <1>6, <1>7
  <2>2. \A j \in DOMAIN t : FrameOK(t[j])
    BY <1>3, <1>4, <1>7
  <2>3. QED
    BY <1>1, <1>7, <2>1, <2>2, ReplaceOwes
<1>9. \A p, m : Owes(p, m)' <=> Owes(p, m) \/ (p = Len(frames) + 1 /\ m = next)
  BY <1>3, <1>4, <1>7, <1>8
<1>10. OwedInv' /\ DefInv' /\ ResIfUnique'
  BY <1>6, <1>9, TakeKeeps DEF next
<1>11. Appended /\ NoNew("RES_IF") /\ NoNew("LOOP")
  BY <1>1, <1>6, SameOutput
<1>12. LoopInv' /\ LoopUnique'
  BY <1>6, <1>11, LoopKeeps
<1>13. LabelTypeOK'
  BY <1>1, <1>6, <1>8 DEF LabelTypeOK, next
<1>14. QED
  BY <1>8, <1>10, <1>12, <1>13 DEF IInv

\* Each elseif condition takes one RES_IF number more.
LEMMA IfElseIfCondKeeps ==
    ASSUME IInv, IfElseIfCond PROVE IInv'
<1> DEFINE g == [Top EXCEPT !.i = @ + 1]
           next == lbl.else_if_num + 1
<1>1. LabelTypeOK /\ BranchRouting /\ frames # <<>> /\ lbl.else_if_num \in Nat
  BY DEF IInv, IfElseIfCond, InIf, Running, LabelTypeOK, LblNames
<1>2. FrameOK(Top) /\ Top.pc = "conds" /\ Len(frames) \in DOMAIN frames
  BY <1>1, TopOK DEF IfElseIfCond, InIf
<1>3. lbl.else_if_num = Top.mem + Top.i
  BY <1>1, <1>2 DEF BranchRouting, Top
<1>4. FrameOK(g) /\ g.pc = "conds" /\ g.mem = Top.mem /\ g.i = Top.i + 1
  BY <1>2, MovedOn
<1>5. frames' = Callers \o <<g>>
  BY DEF IfElseIfCond
<1>6. /\ UNCHANGED <<out, base>>
      /\ lbl' \in [LblNames -> Nat]
      /\ lbl'.else_if_num = next /\ lbl'.mem_loop_num = lbl.mem_loop_num
  <2>1. UNCHANGED <<out, base>> /\ lbl' = [lbl EXCEPT !.else_if_num = @ + 1]
    BY DEF IfElseIfCond
  <2>2. lbl \in [LblNames -> Nat]
    BY <1>1 DEF LabelTypeOK
  <2>3. QED
    BY <2>1, <2>2 DEF LblNames
<1> HIDE DEF g
<1>7. \A m : m \in Owed(g) <=> m \in Owed(Top) \/ m = next
  BY <1>2, <1>3, <1>4 DEF Owed, FrameOK
<1>8. g.mem + g.i = next
  BY <1>2, <1>3, <1>4 DEF FrameOK
<1> DEFINE t == <<g>>
<1>9. /\ t \in Seq({g}) /\ DOMAIN t = {1} /\ t[1] = g
      /\ Len(t) = 1 /\ frames' = Callers \o t
  BY <1>5
<1> HIDE DEF t, next
<1>10. /\ frames' \in Seq(Elements(frames'))
       /\ \A p \in DOMAIN frames' : FrameOK(frames'[p])
       /\ BranchRouting'
       /\ \A m : Owes(Len(frames), m) <=> m \in Owed(Top)
       /\ \A p, m : Owes(p, m)' <=>
             \/ p # Len(frames) /\ Owes(p, m)
             \/ p = Len(frames) /\ m \in Owed(t[1])
  <2>1. \A j \in DOMAIN t : t[j].pc = "conds" =>
          j = Len(t) /\ lbl'.else_if_num = t[j].mem + t[j].i
    BY <1>6, <1>8, <1>9
  <2>2. \A j \in DOMAIN t : FrameOK(t[j])
    BY <1>4, <1>9
  <2>3. /\ frames' \in Seq(Elements(frames'))
        /\ \A p \in DOMAIN frames' : FrameOK(frames'[p])
        /\ BranchRouting'
        /\ \A m : Owes(Len(frames), m) <=> m \in Owed(Top)
        /\ \A p, m : Owes(p, m)' <=>
              \/ p # Len(frames) /\ Owes(p, m)
              \/ p = Len(frames) /\ m \in Owed(t[1])
              \/ Len(t) = 2 /\ p = Len(frames) + 1 /\ m \in Owed(t[2])
    <3>1. Len(t) \in {1, 2} /\ frames' = Callers \o t
      BY <1>9
    <3>2. QED
      BY <1>1, <1>9, <2>1, <2>2, <3>1, ReplaceOwes
  <2>4. Len(t) # 2
    BY <1>9
  <2>5. QED
    BY <2>3, <2>4
<1>11. \A p, m : Owes(p, m)' <=> Owes(p, m) \/ (p = Len(frames) /\ m = next)
  BY <1>7, <1>9, <1>10
<1>12. OwedInv' /\ DefInv' /\ ResIfUnique'
  BY <1>6, <1>11, TakeKeeps DEF next
<1>13. Appended /\ NoNew("RES_IF") /\ NoNew("LOOP")
  BY <1>1, <1>6, SameOutput
<1>14. LoopInv' /\ LoopUnique'
  BY <1>6, <1>13, LoopKeeps
<1>15. LabelTypeOK'
  BY <1>1, <1>6, <1>10 DEF LabelTypeOK, next
<1>16. QED
  BY <1>10, <1>12, <1>14, <1>15 DEF IInv

\* visit_if prints the label of its next branch and visits the branch.
LEMMA BranchKeeps ==
    ASSUME IInv, frames # <<>>, NEW g, FrameOK(g), g.pc = "blocks", NEW n,
           frames' = Callers \o <<g, BlockFrame(n)>>,
           NEW m0 \in Owed(Top), m0 \in Nat,
           \A m : m \in Owed(g) <=> m \in Owed(Top) /\ m # m0,
           Appended, New("RES_IF", m0), NoNew("LOOP"), base' = base,
           lbl' \in [LblNames -> Nat], lbl'.else_if_num = lbl.else_if_num,
           lbl'.mem_loop_num = lbl.mem_loop_num
    PROVE  IInv'
<1> DEFINE b == BlockFrame(n)
           t == <<g, b>>
<1>1. LabelTypeOK /\ BranchRouting
  BY DEF IInv
<1>2. FrameOK(b) /\ b.pc = "body" /\ Owed(b) = {}
  BY BlockFrameOK DEF Owed
<1> HIDE DEF b
<1>3. /\ t \in Seq({g, b}) /\ DOMAIN t = {1, 2} /\ t[1] = g /\ t[2] = b
      /\ Len(t) = 2 /\ frames' = Callers \o t
  BY PairFacts DEF b
<1> HIDE DEF t
<1>4. /\ frames' \in Seq(Elements(frames'))
      /\ \A p \in DOMAIN frames' : FrameOK(frames'[p])
      /\ BranchRouting'
      /\ Len(frames) \in Nat
      /\ \A m : Owes(Len(frames), m) <=> m \in Owed(Top)
      /\ \A m : ~Owes(Len(frames) + 1, m)
      /\ \A p, m : Owes(p, m)' <=>
            \/ p # Len(frames) /\ Owes(p, m)
            \/ p = Len(frames) /\ m \in Owed(t[1])
            \/ Len(t) = 2 /\ p = Len(frames) + 1 /\ m \in Owed(t[2])
  <2>1. \A j \in DOMAIN t : t[j].pc # "conds" /\ FrameOK(t[j])
    BY <1>2, <1>3
  <2>2. QED
    BY <1>1, <1>3, <2>1, ReplaceOwes
<1>5. \A p, q : Owes(p, m0) /\ Owes(q, m0) => p = q
  BY DEF IInv, OwedInv, Owes
<1>6. \A p, m : Owes(p, m)' <=> Owes(p, m) /\ m # m0
  <2>1. ASSUME NEW p, NEW m PROVE Owes(p, m)' <=> Owes(p, m) /\ m # m0
    <3>1. CASE p = Len(frames)
      BY <1>2, <1>3, <1>4, <3>1
    <3>2. CASE p # Len(frames)
      <4>1. Owes(p, m) => m # m0
        BY <1>4, <1>5, <3>2
      <4>2. QED
        BY <1>2, <1>3, <1>4, <3>2, <4>1
    <3>3. QED
      BY <3>1, <3>2
  <2>2. QED
    BY <2>1
<1>7. Owes(Len(frames), m0)
  BY <1>4
<1>8. OwedInv' /\ DefInv' /\ ResIfUnique'
  BY <1>6, <1>7, PrintKeeps
<1>9. LoopInv' /\ LoopUnique'
  BY LoopKeeps
<1>10. LabelTypeOK'
  BY <1>1, <1>4 DEF LabelTypeOK, Appended
<1>11. QED
  BY <1>4, <1>8, <1>9, <1>10 DEF IInv

\* The first branch prints the first number owed, by the local copy of the counter.
LEMMA IfBlockKeeps ==
    ASSUME IInv, IfBlock PROVE IInv'
<1> DEFINE hasElse == Top.node.else_block # Null
           num  == IF hasElse THEN lbl.else_num + 1 ELSE lbl.else_num
           m0   == Top.mem + 1
           g    == [Top EXCEPT !.pc = "blocks", !.i = 1, !.mem = @ + 1, !.len = Top.i - 1]
<1>1. LabelTypeOK /\ frames # <<>>
  BY DEF IInv, IfBlock, InIf, Running
<1>2. FrameOK(Top) /\ Top.pc = "conds" /\ Top.h = "if"
  BY <1>1, TopOK DEF IfBlock, InIf, Running
<1>3. /\ base' = base
      /\ lbl' = [lbl EXCEPT !.else_num = num]
      /\ frames' = Callers \o <<g, BlockFrame(Top.node.block)>>
  BY DEF IfBlock
<1>4. /\ lbl' \in [LblNames -> Nat] /\ lbl'.else_if_num = lbl.else_if_num
      /\ lbl'.mem_loop_num = lbl.mem_loop_num
  <2>1. lbl \in [LblNames -> Nat]
    BY <1>1 DEF LabelTypeOK
  <2>2. num \in Nat
    BY <2>1 DEF LblNames
  <2> HIDE DEF num
  <2>3. QED
    BY <1>3, <2>1, <2>2 DEF LblNames
<1>5. /\ FrameOK(g) /\ g.pc = "blocks" /\ g.mem = Top.mem + 1 /\ g.i = 1
      /\ g.len = Top.i - 1
  <2> DEFINE a == [Top EXCEPT !.pc = "blocks"]
             b == [a EXCEPT !.i = 1]
             c == [b EXCEPT !.mem = @ + 1]
             d == [c EXCEPT !.len = Top.i - 1]
  <2>1. FrameOK(a) /\ a.pc = "blocks" /\ a.mem = Top.mem /\ a.h = "if"
    BY <1>2 DEF FrameOK
  <2>2. g = d
    OBVIOUS
  <2>3. Top.i - 1 \in Nat
    BY <1>2 DEF FrameOK
  <2> HIDE DEF a, g
  <2>4. FrameOK(b) /\ b.pc = "blocks" /\ b.mem = Top.mem /\ b.i = 1 /\ b.h = "if"
    BY <2>1 DEF FrameOK
  <2> HIDE DEF b
  <2>5. FrameOK(c) /\ c.pc = "blocks" /\ c.mem = Top.mem + 1 /\ c.i = 1 /\ c.h = "if"
    BY <2>4 DEF FrameOK
  <2> HIDE DEF c
  <2>6. /\ FrameOK(d) /\ d.pc = "blocks" /\ d.mem = Top.mem + 1 /\ d.i = 1
        /\ d.len = Top.i - 1
    BY <2>3, <2>5 DEF FrameOK
  <2> HIDE DEF d
  <2>7. QED
    BY <2>2, <2>6
<1>6. Appended /\ New("RES_IF", m0) /\ NoNew("LOOP")
  BY <1>1, IfBlockPrints
<1> HIDE DEF g, num
<1>7. /\ m0 \in Owed(Top) /\ m0 \in Nat
      /\ \A m : m \in Owed(g) <=> m \in Owed(Top) /\ m # m0
  BY <1>2, <1>5 DEF Owed, FrameOK
<1> HIDE DEF m0
<1>8. QED
  BY <1>1, <1>3, <1>4, <1>5, <1>6, <1>7, BranchKeeps

\* Each elseif branch prints the next number owed.
LEMMA IfElseIfBlockKeeps ==
    ASSUME IInv, IfElseIfBlock PROVE IInv'
<1> DEFINE m0 == Top.mem + 1
           g  == [Top EXCEPT !.i = @ + 1, !.mem = @ + 1]
<1>1. LabelTypeOK /\ frames # <<>>
  BY DEF IInv, IfElseIfBlock, InIf, Running
<1>2. FrameOK(Top) /\ Top.pc = "blocks" /\ Top.i <= Top.len
  BY <1>1, TopOK DEF IfElseIfBlock, InIf
<1>3. /\ base' = base /\ lbl' = lbl
      /\ frames' = Callers \o <<g, BlockFrame(ElseIfs[Top.i].block)>>
  BY DEF IfElseIfBlock
<1>4. Appended /\ New("RES_IF", m0) /\ NoNew("LOOP")
  BY <1>1, IfElseIfBlockPrints
<1>5. /\ FrameOK(g) /\ g.pc = "blocks" /\ g.mem = Top.mem + 1 /\ g.i = Top.i + 1
      /\ g.len = Top.len
  <2> DEFINE c == [Top EXCEPT !.i = @ + 1]
  <2>1. /\ FrameOK(c) /\ c.pc = "blocks" /\ c.mem = Top.mem /\ c.i = Top.i + 1
        /\ c.len = Top.len
    BY <1>2, MovedOn
  <2>2. g = [c EXCEPT !.mem = @ + 1]
    OBVIOUS
  <2> HIDE DEF c, g
  <2>3. QED
    BY <2>1, <2>2 DEF FrameOK
<1> HIDE DEF g
<1>6. /\ m0 \in Owed(Top) /\ m0 \in Nat
      /\ \A m : m \in Owed(g) <=> m \in Owed(Top) /\ m # m0
  BY <1>2, <1>5 DEF Owed, FrameOK
<1> HIDE DEF m0
<1>7. lbl' \in [LblNames -> Nat]
  BY <1>1, <1>3 DEF LabelTypeOK
<1>8. QED
  BY <1>1, <1>3, <1>4, <1>5, <1>6, <1>7, BranchKeeps

\* ifj17_gen ends with an empty line.
LEMMA GenEndKeeps ==
    ASSUME IInv, GenEnd PROVE IInv'
<1>1. LabelTypeOK
  BY DEF IInv
<1>2. Appended /\ NoNew("RES_IF") /\ NoNew("LOOP")
  BY <1>1, GenEndPrints
<1>3. frames # <<>> /\ Top.pc = "body"
  BY <1>1, TopOK DEF GenEnd, Running, FrameOK
<1>4. QED
  BY <1>2, <1>3, ReturnKeeps DEF GenEnd, Owed

\* A new run starts with an empty output.
LEMMA ifj17_genPrints ==
    ASSUME ifj17_gen
    PROVE  /\ out' \in Seq(Elements(out'))
           /\ Defs("RES_IF")' = {} /\ Refs("RES_IF")' = {} /\ Defs("LOOP")' = {}
<1> DEFINE T == {Op(".IFJcode17"), NL} \cup {Op("JUMP"), Ref("Scope", 0), NL}
           t == <<Op(".IFJcode17"), NL>> \o JumpLine("Scope", 0)
<1>1. out' = t
  BY DEF ifj17_gen, GenBegin
<1>2. /\ t \in Seq(T)
      /\ \A x \in T : x.k # "def" /\ (x.k = "ref" => x.s # "RES_IF")
  <2>1. /\ <<Op(".IFJcode17"), NL>> \in Seq({Op(".IFJcode17"), NL})
        /\ JumpLine("Scope", 0) \in Seq({Op("JUMP"), Ref("Scope", 0), NL})
    <3>1. <<Op(".IFJcode17"), NL>> \in Seq({Op(".IFJcode17"), NL})
      OBVIOUS
    <3>2. JumpLine("Scope", 0) \in Seq({Op("JUMP"), Ref("Scope", 0), NL})
      BY JumpHarmless
    <3>3. QED
      BY <3>1, <3>2
  <2>2. t \in Seq({Op(".IFJcode17"), NL} \cup {Op("JUMP"), Ref("Scope", 0), NL})
    BY <2>1, CatFacts
  <2>3. QED
    BY <2>2 DEF Op, Ref, NL, Tok
<1>3. \A i \in DOMAIN t : t[i] \in T
  BY <1>2, LenProperties, ElementOfSeq
<1> HIDE DEF t, T
<1>4. /\ Defs("RES_IF")' = {} /\ Refs("RES_IF")' = {} /\ Defs("LOOP")' = {}
  BY <1>1, <1>2, <1>3 DEF Defs, Refs
<1>5. t \in Seq(Elements(t))
  BY <1>2, OwnElements
<1>6. QED
  BY <1>1, <1>4, <1>5

\* It owes nothing.
LEMMA ifj17_genKeeps ==
    ASSUME IInv, ifj17_gen PROVE IInv'
<1>1. PICK p \in Programs : frames' = <<Frame("gen", p, "body", 0), BlockFrame(p)>>
  BY DEF ifj17_gen, GenBegin
<1> DEFINE e == Frame("gen", p, "body", 0)
           f == BlockFrame(p)
<1>2. /\ FrameOK(e) /\ e.pc = "body" /\ Owed(e) = {}
      /\ FrameOK(f) /\ f.pc = "body" /\ Owed(f) = {}
  BY NewFrame, BlockFrameOK DEF Owed
<1> HIDE DEF e, f
<1>3. /\ DOMAIN frames' = {1, 2} /\ frames'[1] = e /\ frames'[2] = f
      /\ frames' \in Seq(Elements(frames'))
  <2> DEFINE u == <<e, f>>
  <2>1. u \in Seq({e, f}) /\ DOMAIN u = {1, 2} /\ u[1] = e /\ u[2] = f
    BY PairFacts
  <2>2. frames' = u
    BY <1>1 DEF e, f
  <2> HIDE DEF u
  <2>3. u \in Seq(Elements(u))
    BY <2>1, OwnElements
  <2>4. QED
    BY <2>1, <2>2, <2>3
<1>4. base' = lbl.else_if_num /\ lbl' = lbl
  BY DEF ifj17_gen, GenBegin
<1>5. /\ out' \in Seq(Elements(out'))
      /\ Defs("RES_IF")' = {} /\ Refs("RES_IF")' = {} /\ Defs("LOOP")' = {}
  BY ifj17_genPrints
<1>6. lbl \in [LblNames -> Nat] /\ lbl.else_if_num \in Nat
  BY DEF IInv, LabelTypeOK, LblNames
<1>7. LabelTypeOK'
  BY <1>2, <1>3, <1>4, <1>5, <1>6 DEF LabelTypeOK
<1>8. BranchRouting'
  BY <1>2, <1>3 DEF BranchRouting
<1>9. OwedInv'
  BY <1>2, <1>3 DEF OwedInv, Owed
<1>10. DefInv'
  BY <1>4, <1>5, <1>6 DEF DefInv
<1>11. ResIfUnique' /\ LoopInv' /\ LoopUnique'
  BY <1>5 DEF ResIfUnique, LoopInv, LoopUnique
<1>12. QED
  BY <1>7, <1>8, <1>9, <1>10, <1>11 DEF IInv

-----------------------------------------------------------------------------
(* The invariant, and what follows from it.                                *)

\* A process begins with all counters 0 and nothing printed.
LEMMA InitInv == Init => IInv
<1> SUFFICES ASSUME Init PROVE IInv
  OBVIOUS
<1>1. DOMAIN frames = {} /\ DOMAIN out = {} /\ base = 0
  BY DEF Init
<1>2. LabelTypeOK
  BY DEF Init, LabelTypeOK, LblNames, Elements
<1>3. lbl.else_if_num = 0
  BY DEF Init, LblNames
<1>4. QED
  BY <1>1, <1>2, <1>3 DEF IInv, BranchRouting, OwedInv, DefInv, ResIfUnique,
     LoopInv, LoopUnique, Defs, Refs

\* Every step of every handler keeps the invariant.
LEMMA NextInv == IInv /\ [Next]_vars => IInv'
<1> SUFFICES ASSUME IInv, [Next]_vars PROVE IInv'
  OBVIOUS
<1>1. CASE ifj17_gen
  BY <1>1, ifj17_genKeeps
<1>2. CASE ExpressionStep
  BY <1>2, ExpressionKeeps
<1>3. CASE StatementStep
  BY <1>3, visit_blockKeeps, visit_ifKeeps, IfElseIfCondKeeps, IfBlockKeeps,
     IfElseIfBlockKeeps, IfElseBlockKeeps, IfEndKeeps, visit_whileKeeps, WhileCondKeeps,
     visit_scopeKeeps, ScopeEndKeeps, visit_functionKeeps, FunctionEndKeeps, GenEndKeeps
     DEF StatementStep
<1>4. CASE UNCHANGED vars
  BY <1>4 DEF vars, IInv, LabelTypeOK, BranchRouting, OwedInv, DefInv, ResIfUnique,
     LoopInv, LoopUnique, Defs, Refs, Owed, FrameOK, Elements
<1>5. QED
  BY <1>1, <1>2, <1>3, <1>4 DEF Next

\* The invariant holds in every state: the RES_IF numbers taken by a run of
\* ifj17_gen are printed or owed, each once.
THEOREM Inductive == Spec => []IInv
BY InitInv, NextInv, PTL DEF Spec

\* No two ifs of a run, however nested, share a RES_IF label.
THEOREM BranchLabelsUnique == Spec => []ResIfUnique
<1>1. IInv => ResIfUnique
  BY DEF IInv
<1>2. QED
  BY <1>1, Inductive, PTL

\* Every condition is printed with the number of its own branch.
THEOREM ConditionsRouted == Spec => []BranchRouting
<1>1. IInv => BranchRouting
  BY DEF IInv
<1>2. QED
  BY <1>1, Inductive, PTL

\* No two loops of a run share a LOOP label.
THEOREM LoopLabelsUnique == Spec => []LoopUnique
<1>1. IInv => LoopUnique
  BY DEF IInv
<1>2. QED
  BY <1>1, Inductive, PTL

\* When a run ends, no branch that a condition jumps to is missing: a number
\* that is handed out and not printed is owed, and there is nobody left to owe.
THEOREM BranchLabelsResolved == Spec => []ResIfResolved
<1>1. IInv => ResIfResolved
  <2> SUFFICES ASSUME IInv, Finished, NEW i \in Refs("RES_IF"), out[i].n > base
               PROVE  \E j \in Defs("RES_IF") : out[j].n = out[i].n
    BY DEF ResIfResolved
  <2>1. out[i].n \in Nat /\ out[i].n <= lbl.else_if_num /\ base \in Nat
    BY DEF IInv, DefInv, LabelTypeOK
  <2>2. out[i].n \in (base + 1) .. lbl.else_if_num
    BY <2>1 DEF IInv, LabelTypeOK, LblNames
  <2>3. DOMAIN frames = {}
    BY DEF Finished, Idle
  <2>4. QED
    BY <2>2, <2>3 DEF IInv, DefInv
<1>2. QED
  BY <1>1, Inductive, PTL

-----------------------------------------------------------------------------
(* Types, for every forest of nodes.                                       *)

Node == Nodes \cup {Null}

\* What may be visited: a node, or the rest of visit_decl's or visit_dim's loop.
Visitable(n) ==
    \/ n \in Node
    \/ /\ n.type = "DECL" /\ n.vec \in Seq(Node)
       /\ {"type", "vec"} \subseteq DOMAIN n
    \/ /\ n.type = "DIM" /\ n.vec \in Seq(OfType(Nodes, "BINARY_OP"))
       /\ {"type", "vec"} \subseteq DOMAIN n

\* What only the handlers of blocks and the label of `==' move.
LoopFlags == {"loop_num", "from_loop"}

\* Only a division prints labels in the middle of an expression.
ItemOK(x) ==
    /\ x = Op("LABEL") => ~Undivided(Nodes)
    /\ x.k \in {"add", "set"} => x.n \in Int /\ x.s \notin LoopFlags
    /\ x.k = "visit" => Visitable(x.node)
    /\ x.k = "params" => x.vec \in Seq(Node)

ItemsOK(s) == s \in Seq(Elements(s)) /\ \A i \in DOMAIN s : ItemOK(s[i])

\* visit_if counts no more elseifs than there are.
Fits(f) ==
    f.h = "if" => LET total == Len(f.node.else_ifs)
                  IN  f.len <= total /\ (f.pc = "conds" => f.i <= total + 1)

\* The node type a handler takes.
Takes == [gen |-> "BLOCK", block |-> "BLOCK", if |-> "IF", while |-> "WHILE",
          scope |-> "SCOPE", function |-> "FUNCTION"]

Activations ==
    {f \in [h : {"gen", "block", "if", "while", "scope", "function"}, node : Nodes,
            pc : {"body", "conds", "blocks", "else"}, i : Nat \ {0}, mem : Nat, len : Nat] :
        f.node.type = Takes[f.h] /\ Fits(f)}

TypeInv ==
    /\ frames \in Seq(Activations)
    /\ ItemsOK(todo)
    /\ flag \in [FlagNames -> Int]
    /\ lbl \in [LblNames -> Nat]
    /\ base \in Nat
    /\ runs \in 0 .. MaxRuns

-----------------------------------------------------------------------------
(* Lists of items.                                                         *)

LEMMA ListOK ==
    ASSUME NEW S, NEW s \in Seq(S), \A x \in S : ItemOK(x)
    PROVE  ItemsOK(s)
<1>1. s \in Seq(Elements(s)) /\ DOMAIN s = 1 .. Len(s) /\ Len(s) \in Nat
  BY OwnElements, LenProperties
<1>2. \A i \in DOMAIN s : s[i] \in S
  BY <1>1, ElementOfSeq
<1>3. QED
  BY <1>1, <1>2 DEF ItemsOK

LEMMA CatOK ==
    ASSUME NEW s, NEW t, ItemsOK(s), ItemsOK(t)
    PROVE  ItemsOK(s \o t)
<1> DEFINE S == Elements(s)
           T == Elements(t)
<1>1. s \in Seq(S) /\ t \in Seq(T)
  BY DEF ItemsOK
<1>2. \A x \in S \cup T : ItemOK(x)
  BY DEF ItemsOK, Elements
<1> HIDE DEF S, T
<1>3. s \o t \in Seq(S \cup T)
  BY <1>1, CatFacts
<1>4. QED
  BY <1>2, <1>3, ListOK

LEMMA RestOK ==
    ASSUME NEW s, ItemsOK(s), s # <<>>
    PROVE  ItemOK(Head(s)) /\ ItemsOK(Tail(s))
<1> DEFINE S == Elements(s)
<1>1. s \in Seq(S) /\ \A x \in S : ItemOK(x)
  BY DEF ItemsOK, Elements
<1> HIDE DEF S
<1>2. Head(s) \in S /\ Tail(s) \in Seq(S)
  BY <1>1, HeadTailProperties
<1>3. QED
  BY <1>1, <1>2, ListOK

LEMMA PartOK ==
    ASSUME NEW s, ItemsOK(s), NEW n \in 1 .. Len(s)
    PROVE  ItemsOK(SubSeq(s, n + 1, Len(s)))
<1> DEFINE S == Elements(s)
<1>1. s \in Seq(S) /\ \A x \in S : ItemOK(x)
  BY DEF ItemsOK, Elements
<1> HIDE DEF S
<1>2. SubSeq(s, n + 1, Len(s)) \in Seq(S)
  <2>1. Len(s) \in Nat /\ n + 1 \in 1 .. Len(s) + 1 /\ Len(s) \in 0 .. Len(s)
    BY <1>1, LenProperties
  <2>2. \A i \in n + 1 .. Len(s) : s[i] \in S
    BY <1>1, <2>1, LenProperties, ElementOfSeq
  <2>3. QED
    BY <1>1, <2>1, <2>2, SubSeqProperties
<1>3. QED
  BY <1>1, <1>2, ListOK

LEMMA NoneOK == ItemsOK(<<>>)
<1> DEFINE S == {}
<1>1. <<>> \in Seq(S) /\ \A x \in S : ItemOK(x)
  OBVIOUS
<1> HIDE DEF S
<1>2. QED
  BY <1>1, ListOK

\* The items that are built without looking at the node.
LEMMA ItemFacts ==
    /\ \A s : (s # "LABEL" => ItemOK(Op(s))) /\ ItemOK(GF(s)) /\ ItemOK(TF(s))
    /\ ~Undivided(Nodes) => ItemOK(Op("LABEL"))
    /\ \A k \in Plain \ {"op"} : \A s, n : ItemOK(Tok(k, s, n))
    /\ ItemOK(NL) /\ ItemOK(TB1) /\ ItemOK(TB2)
    /\ ItemOK(TypeGuard) /\ ItemOK(IfTarget) /\ ItemOK(LoopTarget) /\ ItemOK(ResIfRef)
    /\ \A c, v : ItemOK(DivRef(c, v)) /\ ItemOK(DivDef(c, v))
    /\ \A v, d : v \notin LoopFlags /\ d \in Int => ItemOK(Add(v, d)) /\ ItemOK(Set(v, d))
    /\ \A v \in {"bin_op", "args", "params", "from_call", "from_return", "from_if", "not", "from_minus",
                 "from_dim", "label_cont", "int2float"} : v \notin LoopFlags
    /\ \A n : Visitable(n) => ItemOK(Visit(n))
    /\ \A vec \in Seq(Node) : ItemOK(Params(vec))
BY DEF ItemOK, LoopFlags, Op, GF, TF, Tok, Plain, NL, TB1, TB2, TypeGuard, IfTarget, LoopTarget,
       ResIfRef, DivRef, DivDef, Add, Set, Visit, Params

LEMMA OneOK ==
    ASSUME NEW a, ItemOK(a)
    PROVE  ItemsOK(<<a>>)
<1> DEFINE S == {a}
<1>1. <<a>> \in Seq(S) /\ \A x \in S : ItemOK(x)
  OBVIOUS
<1> HIDE DEF S
<1>2. QED
  BY <1>1, ListOK

LEMMA TwoOK ==
    ASSUME NEW a, NEW b, ItemOK(a), ItemOK(b)
    PROVE  ItemsOK(<<a, b>>)
<1> DEFINE S == {a, b}
<1>1. <<a, b>> \in Seq(S) /\ \A x \in S : ItemOK(x)
  OBVIOUS
<1> HIDE DEF S
<1>2. QED
  BY <1>1, ListOK

LEMMA ThreeOK ==
    ASSUME NEW a, NEW b, NEW c, ItemOK(a), ItemOK(b), ItemOK(c)
    PROVE  ItemsOK(<<a, b, c>>)
<1> DEFINE S == {a, b, c}
<1>1. <<a, b, c>> \in Seq(S) /\ \A x \in S : ItemOK(x)
  OBVIOUS
<1> HIDE DEF S
<1>2. QED
  BY <1>1, ListOK

LEMMA FourOK ==
    ASSUME NEW a, NEW b, NEW c, NEW d, ItemOK(a), ItemOK(b), ItemOK(c), ItemOK(d)
    PROVE  ItemsOK(<<a, b, c, d>>)
<1> DEFINE S == {a, b, c, d}
<1>1. <<a, b, c, d>> \in Seq(S) /\ \A x \in S : ItemOK(x)
  OBVIOUS
<1> HIDE DEF S
<1>2. QED
  BY <1>1, ListOK

LEMMA FiveOK ==
    ASSUME NEW a, NEW b, NEW c, NEW d, NEW e, ItemOK(a), ItemOK(b), ItemOK(c), ItemOK(d), ItemOK(e)
    PROVE  ItemsOK(<<a, b, c, d, e>>)
<1> DEFINE S == {a, b, c, d, e}
<1>1. <<a, b, c, d, e>> \in Seq(S) /\ \A x \in S : ItemOK(x)
  OBVIOUS
<1> HIDE DEF S
<1>2. QED
  BY <1>1, ListOK

LEMMA SixOK ==
    ASSUME NEW a, NEW b, NEW c, NEW d, NEW e, NEW f, ItemOK(a), ItemOK(b), ItemOK(c), ItemOK(d), ItemOK(e), ItemOK(f)
    PROVE  ItemsOK(<<a, b, c, d, e, f>>)
<1> DEFINE S == {a, b, c, d, e, f}
<1>1. <<a, b, c, d, e, f>> \in Seq(S) /\ \A x \in S : ItemOK(x)
  OBVIOUS
<1> HIDE DEF S
<1>2. QED
  BY <1>1, ListOK

LEMMA TypeCheckOK ==
    ASSUME NEW n, Visitable(n.left), Visitable(n.right)
    PROVE  ItemsOK(TypeCheck(n))
<1> DEFINE S == {Op("TYPE"), TB1, TB2, Visit(n.left), Visit(n.right), NL, TypeGuard}
<1>1. TypeCheck(n) \in Seq(S)
  BY DEF TypeCheck
<1>2. \A x \in S : ItemOK(x)
  BY ItemFacts, Zenon
<1>3. QED
  BY <1>1, <1>2, ListOK

LEMMA ToFloatOK ==
    ASSUME NEW e, NEW v, Visitable(e), ~Undivided(Nodes)
    PROVE  ItemsOK(ToFloat(e, v))
<1> DEFINE f == Tok("float", "1.5", 0)
           S == {Op("TYPE"), Op("JUMPIFNEQ"), Op("JUMP"), Op("LABEL"), Op("INT2FLOAT"), TB1, TB2,
                 Visit(e), NL, f, Add("int2float", 1), Add("label_cont", 1), DivRef(FALSE, "int2float"),
                 DivRef(TRUE, "label_cont"), DivDef(FALSE, v), DivDef(TRUE, "label_cont")}
           l1 == <<Op("TYPE"), TB1, Visit(e), NL>>
           l2 == <<Op("TYPE"), TB2, f, NL>>
           l3 == <<Add("int2float", 1), Op("JUMPIFNEQ"), DivRef(FALSE, "int2float"), TB1, TB2, NL>>
           l4 == <<Add("label_cont", 1), Op("JUMP"), DivRef(TRUE, "label_cont"), NL>>
           l5 == <<Op("LABEL"), DivDef(FALSE, v), NL>>
           l6 == <<Op("INT2FLOAT"), Visit(e), Visit(e), NL>>
           l7 == <<Op("LABEL"), DivDef(TRUE, "label_cont"), NL>>
<1>1. ItemOK(f)
  BY ItemFacts DEF Plain
<1>2. ItemOK(Add("int2float", 1)) /\ ItemOK(Add("label_cont", 1))
  BY ItemFacts
<1>3. ToFloat(e, v) = l1 \o l2 \o l3 \o l4 \o l5 \o l6 \o l7
  BY DEF ToFloat
<1>4. /\ l1 \in Seq(S) /\ l2 \in Seq(S) /\ l3 \in Seq(S) /\ l4 \in Seq(S)
      /\ l5 \in Seq(S) /\ l6 \in Seq(S) /\ l7 \in Seq(S)
  <2> HIDE DEF f
  <2>1. QED
    OBVIOUS
<1>5. \A x \in S : ItemOK(x)
  BY <1>1, <1>2, ItemFacts, Zenon
<1> HIDE DEF S, l1, l2, l3, l4, l5, l6, l7
<1>6. /\ ItemsOK(l1) /\ ItemsOK(l2) /\ ItemsOK(l3) /\ ItemsOK(l4)
      /\ ItemsOK(l5) /\ ItemsOK(l6) /\ ItemsOK(l7)
  BY <1>4, <1>5, ListOK
<1>7. QED
  BY <1>3, <1>6, CatOK

LEMMA emit_opOK ==
    ASSUME NEW n, n.type = "BINARY_OP" => Visitable(n.left) /\ Visitable(n.right),
           n.op # "OP_LNOT" => n.type = "BINARY_OP", n.op = "OP_DIV" => ~Undivided(Nodes)
    PROVE  ItemsOK(emit_op(n))
<1>1. CASE n.op \in {"OP_PLUS", "OP_MINUS", "OP_MUL"}
  <2>1. emit_op(n) = TypeCheck(n) \o <<Op(Mnemonic[n.op])>>
    BY <1>1 DEF emit_op
  <2>2. n.op # "OP_LNOT"
    BY <1>1
  <2>3. Mnemonic[n.op] # "LABEL"
    BY <1>1 DEF Mnemonic
  <2>4. QED
    BY <2>1, <2>2, <2>3, TypeCheckOK, ItemFacts, OneOK, CatOK
<1>2. CASE n.op = "OP_DIV"
  <2> DEFINE start == <<Set("int2float", 0), Set("label_cont", 0)>>
             f == ToFloat(n.left, "int2float")
             g == ToFloat(n.right, "label_cont")
             last == <<Op("DIV")>>
  <2>1. emit_op(n) = start \o f \o g \o last
    BY <1>2 DEF emit_op
  <2>2. ItemsOK(start)
    BY ItemFacts, TwoOK
  <2>3. ItemsOK(f) /\ ItemsOK(g) /\ ItemsOK(last)
    BY <1>2, ToFloatOK, OneOK, ItemFacts
  <2> HIDE DEF start, f, g, last
  <2>4. QED
    BY <2>1, <2>2, <2>3, CatOK
<1>3. CASE n.op = "OP_EQ"
  <2> DEFINE t == <<Op("JUMPIFEQ"), IfTarget, LoopTarget>>
  <2>1. emit_op(n) = TypeCheck(n) \o t
    BY <1>3 DEF emit_op
  <2>2. ItemsOK(t)
    BY ItemFacts, ThreeOK
  <2> HIDE DEF t
  <2>3. QED
    BY <1>3, <2>1, <2>2, TypeCheckOK, CatOK
<1>4. CASE n.op = "OP_NEQ"
  <2> DEFINE t == <<Op("JUMPIFNEQ"), IfTarget>>
  <2>1. emit_op(n) = TypeCheck(n) \o t
    BY <1>4 DEF emit_op
  <2>2. ItemsOK(t)
    BY ItemFacts, TwoOK
  <2> HIDE DEF t
  <2>3. QED
    BY <1>4, <2>1, <2>2, TypeCheckOK, CatOK
<1>5. CASE n.op \in {"OP_BIT_AND", "OP_BIT_OR", "OP_LNOT"}
  <2>1. emit_op(n) = <<Op(Mnemonic[n.op])>>
    BY <1>5 DEF emit_op
  <2>2. Mnemonic[n.op] # "LABEL"
    BY <1>5 DEF Mnemonic
  <2>3. QED
    BY <2>1, <2>2, ItemFacts, OneOK
<1>6. CASE n.op \notin {"OP_PLUS", "OP_MINUS", "OP_MUL", "OP_DIV", "OP_EQ", "OP_NEQ",
                        "OP_BIT_AND", "OP_BIT_OR", "OP_LNOT"}
  <2>1. emit_op(n) = <<>>
    BY <1>6 DEF emit_op
  <2>2. QED
    BY <2>1, NoneOK
<1>7. QED
  BY <1>1, <1>2, <1>3, <1>4, <1>5, <1>6

-----------------------------------------------------------------------------
(* The members of nodes.                                                   *)

LEMMA MembersOfNode ==
    ASSUME NEW n \in Nodes
    PROVE  /\ n.type = "BINARY_OP" => n.left \in Node /\ n.right \in Node
           /\ n.type \in {"UNARY_OP", "RETURN", "CALL", "IF", "WHILE"} => n.expr \in Node
           /\ n.type = "CALL" => n.args.vec \in Seq(Node)
           /\ n.type = "DECL" => n.vec \in Seq(Node)
           /\ n.type = "DIM" => n.vec \in Seq(OfType(Nodes, "BINARY_OP"))
           /\ n.type = "BLOCK" => n.stmts \in Seq(Node)
           /\ n.type = "FUNCTION" => n.params \in Seq(Node)
           /\ n.type \in {"SCOPE", "FUNCTION", "IF", "WHILE"} => n.block \in OfType(Nodes, "BLOCK")
           /\ n.type = "IF" => /\ n.else_ifs \in Seq(OfType(Nodes, "IF"))
                               /\ n.else_block \in OfType(Nodes, "BLOCK") \cup {Null}
           /\ n.type \in {"DECL", "DIM"} => {"type", "vec"} \subseteq DOMAIN n
<1>1. Grown(Nodes, n)
  BY NodesAssumption DEF Forest
<1>2. DOMAIN n = {"type"} \cup ExprMembers(n.type) \cup StmtMembers(n.type)
  BY <1>1 DEF Grown, IsNode
<1>3. /\ \A m \in Pointers \cap DOMAIN n : n[m] \in Node
      /\ \A m \in Vectors \cap DOMAIN n : n[m] \in Seq(Node)
  BY <1>1, Zenon DEF Grown, Node
<1>4. /\ n.type = "BINARY_OP" => "left" \in DOMAIN n /\ "right" \in DOMAIN n
      /\ n.type \in {"UNARY_OP", "RETURN", "CALL", "IF", "WHILE"} => "expr" \in DOMAIN n
      /\ n.type = "DECL" => "vec" \in DOMAIN n
      /\ n.type = "BLOCK" => "stmts" \in DOMAIN n
      /\ n.type = "FUNCTION" => "params" \in DOMAIN n
      /\ n.type \in {"DECL", "DIM"} => {"type", "vec"} \subseteq DOMAIN n
  BY <1>2 DEF ExprMembers, StmtMembers
<1>5. /\ n.type = "DIM" => n.vec \in Seq(OfType(Nodes, "BINARY_OP"))
      /\ n.type \in {"SCOPE", "FUNCTION", "IF", "WHILE"} => n.block \in OfType(Nodes, "BLOCK")
      /\ n.type = "IF" => /\ n.else_ifs \in Seq(OfType(Nodes, "IF"))
                          /\ n.else_block \in OfType(Nodes, "BLOCK") \cup {Null}
      /\ n.type = "CALL" /\ n.args # Null => n.args.vec \in Seq(Node)
  BY <1>1, Zenon DEF Grown, Node
<1>6. n.type = "CALL" => n.args # Null
  BY CallsAssumption, Zenon DEF OfType
<1>7. /\ "left" \in DOMAIN n => n.left \in Node
      /\ "right" \in DOMAIN n => n.right \in Node
      /\ "expr" \in DOMAIN n => n.expr \in Node
      /\ "vec" \in DOMAIN n => n.vec \in Seq(Node)
      /\ "stmts" \in DOMAIN n => n.stmts \in Seq(Node)
      /\ "params" \in DOMAIN n => n.params \in Seq(Node)
  BY <1>3 DEF Pointers, Vectors
<1>8. QED
  BY <1>4, <1>5, <1>6, <1>7, Zenon

LEMMA MembersOfVisited ==
    ASSUME NEW n, Visitable(n)
    PROVE  /\ n.type = "BINARY_OP" => Visitable(n.left) /\ Visitable(n.right)
           /\ n.type \in {"UNARY_OP", "RETURN", "CALL"} => Visitable(n.expr)
           /\ n.type = "CALL" => n.args.vec \in Seq(Node)
           /\ n.type = "DECL" => n.vec \in Seq(Node)
           /\ n.type = "DIM" => n.vec \in Seq(OfType(Nodes, "BINARY_OP"))
           /\ n.type \in {"DECL", "DIM"} => {"type", "vec"} \subseteq DOMAIN n
<1>1. CASE n \in Nodes
  BY <1>1, MembersOfNode DEF Visitable
<1>2. CASE n.type \in {"DECL", "DIM", "NULL"}
  <2>1. n.type = "DECL" \/ n.type = "DIM" \/ n.type = "NULL"
    BY <1>2
  <2>2. QED
    BY <1>1, <2>1 DEF Visitable, Node, Null
<1>3. QED
  BY <1>1, <1>2 DEF Visitable, Node, Null

LEMMA VisitEach ==
    ASSUME NEW vec \in Seq(Node)
    PROVE  /\ Len(vec) \in Nat
           /\ ItemsOK([i \in 1 .. Len(vec) |-> Visit(vec[i])])
<1> DEFINE S == {Visit(e) : e \in Node}
           s == [i \in 1 .. Len(vec) |-> Visit(vec[i])]
<1>1. Len(vec) \in Nat /\ DOMAIN vec = 1 .. Len(vec)
  BY LenProperties
<1>2. \A i \in 1 .. Len(vec) : Visit(vec[i]) \in S
  <2>1. \A i \in 1 .. Len(vec) : vec[i] \in Node
    BY <1>1, ElementOfSeq
  <2>2. QED
    BY <2>1
<1>3. \A x \in S : ItemOK(x)
  BY ItemFacts DEF Visitable
<1> HIDE DEF S
<1>4. s \in Seq(S)
  BY <1>1, <1>2, IsASeq
<1> HIDE DEF s
<1>5. ItemsOK(s)
  BY <1>3, <1>4, ListOK
<1>6. QED
  BY <1>1, <1>5 DEF s

-----------------------------------------------------------------------------
(* The handlers of expressions and simple statements.                      *)

\* A handler puts a list of items in the place of the visit.
Puts == UNCHANGED flag /\ \E s : ItemsOK(s) /\ todo' = s \o Tail(todo)

LEMMA Visited1 ==
    ASSUME ItemsOK(todo), Doing("visit")
    PROVE  Visitable(node)
<1>1. todo # <<>> /\ Head(todo).k = "visit"
  BY DEF Doing
<1>2. ItemOK(Head(todo))
  BY <1>1, RestOK
<1>3. QED
  BY <1>1, <1>2 DEF ItemOK, node

LEMMA visit_numberPuts ==
    ASSUME visit_number
    PROVE  Puts
<1> DEFINE kind == IF node.type = "INT" THEN "int" ELSE "float"
           a == Tok(kind, "num", node.num)
           b == Tok(kind, "num", 0 - node.num)
<1>1. ItemOK(a) /\ ItemOK(b) /\ ItemOK(Op("PUSHS"))
      /\ ItemOK(Add("from_return", -1)) /\ ItemOK(Add("from_minus", -1))
  BY ItemFacts DEF Plain
<1>2. /\ \/ todo' = <<Op("PUSHS"), a, Add("from_return", -1)>> \o Tail(todo)
         \/ todo' = <<b, Add("from_minus", -1)>> \o Tail(todo)
         \/ todo' = <<a>> \o Tail(todo)
      /\ UNCHANGED flag
  BY DEF visit_number, Do
<1> HIDE DEF a, b
<1>3. ItemsOK(<<Op("PUSHS"), a, Add("from_return", -1)>>)
  BY <1>1, ThreeOK
<1>4. ItemsOK(<<b, Add("from_minus", -1)>>) /\ ItemsOK(<<a>>)
  BY <1>1, OneOK, TwoOK
<1>5. QED
  BY <1>2, <1>3, <1>4 DEF Puts

LEMMA visit_stringPuts ==
    ASSUME visit_string
    PROVE  Puts
<1>1. ItemOK(Tok("string", node.val, 0))
  BY ItemFacts DEF Plain
<1>2. QED
  BY <1>1, OneOK DEF visit_string, Do, Puts

LEMMA visit_idPuts ==
    ASSUME visit_id
    PROVE  Puts
<1> DEFINE end == IF flag.args # 0 THEN <<NL>> ELSE <<>>
           w == <<Tok("word", node.val, 0), Add("from_call", -1)>>
           p == <<Op("PUSHS"), TF(node.val), Add("from_return", -1)>>
<1>1. ItemOK(Tok("word", node.val, 0)) /\ ItemOK(Add("from_call", -1)) /\ ItemOK(Add("from_return", -1))
  BY ItemFacts DEF Plain
<1>2. ItemsOK(end)
  BY ItemFacts, OneOK, NoneOK
<1>3. ItemsOK(<<TF(node.val)>>) /\ ItemsOK(<<GF(node.val)>>)
  BY ItemFacts, OneOK
<1>4. ItemsOK(w)
  BY <1>1, TwoOK
<1>5. ItemsOK(p)
  BY <1>1, ItemFacts, ThreeOK
<1>6. ItemsOK(<<TF(node.val)>> \o end) /\ ItemsOK(<<GF(node.val)>> \o end)
  <2> HIDE DEF end
  <2>1. QED
    BY <1>2, <1>3, CatOK
<1>7. /\ \/ todo' = w \o Tail(todo) \/ todo' = p \o Tail(todo)
         \/ todo' = (<<TF(node.val)>> \o end) \o Tail(todo)
         \/ todo' = (<<GF(node.val)>> \o end) \o Tail(todo)
      /\ UNCHANGED flag
  BY DEF visit_id, Do
<1> HIDE DEF end, w, p
<1>8. QED
  BY <1>4, <1>5, <1>6, <1>7 DEF Puts

\* What is left of a vector is one.
LEMMA VecTail ==
    ASSUME NEW V, NEW vec \in Seq(V), vec # <<>>
    PROVE  Head(vec) \in V /\ Tail(vec) \in Seq(V)
BY HeadTailProperties

LEMMA visit_declPuts ==
    ASSUME ItemsOK(todo), visit_decl
    PROVE  Puts
<1>1. node.type = "DECL" /\ Visitable(node) /\ UNCHANGED flag
  BY Visited1 DEF visit_decl, Visiting, node
<1>2. node.vec \in Seq(Node)
  BY <1>1, MembersOfVisited
<1>3. CASE node.vec = <<>>
  BY <1>1, <1>3, NoneOK DEF visit_decl, Do, Puts
<1>4. CASE node.vec # <<>>
  <2> DEFINE id == Visit(Head(node.vec))
             left == [node EXCEPT !.vec = Tail(@)]
             rest == <<Visit(left)>>
             a == <<Op("DEFVAR"), id, NL, Op("POPS"), id, NL>>
             b == <<Op("DEFVAR"), id, NL>>
  <2>1. Head(node.vec) \in Node /\ Tail(node.vec) \in Seq(Node)
    BY <1>2, <1>4, VecTail
  <2>2. ItemOK(id)
    BY <2>1, ItemFacts DEF Visitable
  <2>3. ItemOK(Visit(left))
    <3>1. "type" \in DOMAIN node /\ "vec" \in DOMAIN node
      BY <1>1, MembersOfVisited
    <3>2. left.type = "DECL" /\ left.vec = Tail(node.vec) /\ {"type", "vec"} \subseteq DOMAIN left
      BY <1>1, <3>1
    <3>3. Visitable(left)
      BY <2>1, <3>2 DEF Visitable
    <3> HIDE DEF left
    <3>4. QED
      BY <3>3, ItemFacts
  <2>4. /\ \/ todo' = (a \o rest) \o Tail(todo)
           \/ todo' = (<<id>> \o rest) \o Tail(todo)
           \/ todo' = (b \o rest) \o Tail(todo)
        /\ UNCHANGED flag
    BY <1>4 DEF visit_decl, Do
  <2> HIDE DEF id, left
  <2>5. ItemsOK(a) /\ ItemsOK(b) /\ ItemsOK(<<id>>) /\ ItemsOK(rest)
    BY <2>2, <2>3, ItemFacts, OneOK, ThreeOK, SixOK
  <2> HIDE DEF a, b, rest
  <2>6. QED
    BY <2>4, <2>5, CatOK DEF Puts
<1>5. QED
  BY <1>3, <1>4

LEMMA visit_unary_opPuts ==
    ASSUME ItemsOK(todo), visit_unary_op
    PROVE  Puts
<1>1. node.type = "UNARY_OP" /\ Visitable(node) /\ UNCHANGED flag
  BY Visited1 DEF visit_unary_op, Visiting, node
<1>2. Visitable(node.expr)
  BY <1>1, MembersOfVisited
<1> DEFINE not == Add("not", 1)
           clear == Set("not", 0)
           minus == Add("from_minus", 1)
           move == IF flag.from_dim # 1 THEN <<Op("MOVE")>> ELSE <<>>
<1>3. ItemOK(not) /\ ItemOK(clear) /\ ItemOK(minus) /\ ItemOK(Visit(node.expr)) /\ ItemsOK(move)
  BY <1>2, ItemFacts, OneOK, NoneOK
<1>4. /\ \/ node.op = "OP_LNOT" /\ todo' = (<<not>> \o emit_op(node)) \o Tail(todo)
         \/ todo' = <<Visit(node.expr), clear>> \o Tail(todo)
         \/ todo' = (<<not>> \o move) \o Tail(todo)
         \/ todo' = <<minus, Visit(node.expr), clear>> \o Tail(todo)
         \/ todo' = <<>> \o Tail(todo)
      /\ UNCHANGED flag
  BY DEF visit_unary_op, Do
<1> HIDE DEF not, clear, minus, move
<1>5. node.op = "OP_LNOT" => ItemsOK(emit_op(node))
  BY <1>1, emit_opOK
<1>6. ItemsOK(<<Visit(node.expr), clear>>) /\ ItemsOK(<<minus, Visit(node.expr), clear>>)
      /\ ItemsOK(<<>>) /\ ItemsOK(<<not>> \o move) /\ ItemsOK(<<not>>)
  BY <1>3, NoneOK, OneOK, TwoOK, ThreeOK, CatOK
<1>7. QED
  BY <1>4, <1>5, <1>6, CatOK DEF Puts

LEMMA CompareOK ==
    ASSUME NEW n, Visitable(n.left), Visitable(n.right)
    PROVE  ItemsOK(CompareItems(n)) /\ ItemsOK(AssignInIf(n))
<1> DEFINE rest == <<Op("JUMPIFEQ"), ResIfRef, Visit(n.right), Visit(n.left), NL>>
<1>1. ItemsOK(rest) /\ ItemsOK(TypeCheck(n))
  BY ItemFacts, FiveOK, TypeCheckOK
<1>2. CompareItems(n) = TypeCheck(n) \o rest
  BY DEF CompareItems
<1> HIDE DEF rest
<1>3. ItemsOK(CompareItems(n))
  BY <1>1, <1>2, CatOK
<1>4. ItemsOK(<<Add("from_if", -1)>>)
  BY ItemFacts, OneOK
<1>5. QED
  BY <1>3, <1>4, CatOK DEF AssignInIf

LEMMA AssignItemsOK ==
    ASSUME NEW n, Visitable(n.left), Visitable(n.right)
    PROVE  ItemsOK(AssignItems(n))
<1> DEFINE l == Visit(n.left)
           r == Visit(n.right)
           a == <<r, NL, Op("POPS"), l, NL>>
           b == <<r, Add("not", 1), l, r, NL>>
           c == <<Op("MOVE"), l, r, NL>>
<1>1. ItemOK(l) /\ ItemOK(r)
  BY ItemFacts
<1>2. AssignItems(n) = a \/ AssignItems(n) = b \/ AssignItems(n) = c \/ AssignItems(n) = AssignInIf(n)
  BY DEF AssignItems
<1> HIDE DEF l, r
<1>3. ItemsOK(a) /\ ItemsOK(b) /\ ItemsOK(c)
  BY <1>1, ItemFacts, FourOK, FiveOK
<1> HIDE DEF a, b, c
<1>4. QED
  BY <1>2, <1>3, CompareOK

LEMMA visit_binary_opPuts ==
    ASSUME ItemsOK(todo), visit_binary_op
    PROVE  Puts
<1>1. node.type = "BINARY_OP" /\ Visitable(node) /\ UNCHANGED flag
  BY Visited1 DEF visit_binary_op, Visiting, node
<1>2. Visitable(node.left) /\ Visitable(node.right)
  BY <1>1, MembersOfVisited
<1> DEFINE l == Visit(node.left)
           r == Visit(node.right)
           operands == <<l, r, NL>>
           bin == Add("bin_op", -2)
           up == Add("bin_op", 1)
           true == Tok("bool", "true", 0)
           rel == <<Op("DEFVAR"), TF("temp_bool_rel"), NL, Op("GT"), TF("temp_bool_rel")>>
           jump == <<Op("JUMPIFEQ"), ResIfRef, TF("temp_bool_rel"), true, NL>>
           twice == <<up, r, l, up, r>>
<1>3. ItemOK(l) /\ ItemOK(r) /\ ItemOK(bin) /\ ItemOK(up) /\ ItemOK(true)
  BY <1>2, ItemFacts DEF Plain
<1>4. /\ \/ todo' = AssignItems(node) \o Tail(todo)
         \/ todo' = emit_op(node) \o Tail(todo)
         \/ todo' = (operands \o <<bin>>) \o Tail(todo)
         \/ todo' = (emit_op(node) \o operands) \o Tail(todo)
         \/ todo' = (TypeCheck(node) \o rel \o operands \o jump) \o Tail(todo)
         \/ todo' = twice \o Tail(todo)
      /\ UNCHANGED flag
  BY DEF visit_binary_op, Do
<1> HIDE DEF l, r, bin, up, true
<1>5. ItemsOK(operands) /\ ItemsOK(<<bin>>) /\ ItemsOK(rel) /\ ItemsOK(jump) /\ ItemsOK(twice)
  BY <1>3, ItemFacts, OneOK, ThreeOK, FiveOK
<1> HIDE DEF operands, rel, jump, twice
<1>6. ItemsOK(AssignItems(node)) /\ ItemsOK(TypeCheck(node)) /\ ItemsOK(emit_op(node))
  <2>1. node.op = "OP_DIV" => ~Undivided(Nodes)
    BY <1>1 DEF Visitable, Node, Null, Undivided, OfType
  <2>2. QED
    BY <1>1, <1>2, <2>1, AssignItemsOK, TypeCheckOK, emit_opOK
<1>7. /\ ItemsOK(operands \o <<bin>>) /\ ItemsOK(emit_op(node) \o operands)
      /\ ItemsOK(TypeCheck(node) \o rel \o operands \o jump)
  BY <1>5, <1>6, CatOK
<1>8. QED
  BY <1>4, <1>5, <1>6, <1>7 DEF Puts

LEMMA visit_callPuts ==
    ASSUME ItemsOK(todo), visit_call
    PROVE  Puts
<1>1. node.type = "CALL" /\ Visitable(node) /\ UNCHANGED flag
  BY Visited1 DEF visit_call, Visiting, node
<1>2. Visitable(node.expr) /\ node.args.vec \in Seq(Node)
  BY <1>1, MembersOfVisited
<1> DEFINE vec == node.args.vec
           len == Len(vec)
           each == [i \in 1 .. len |-> Visit(vec[i])]
           clear == Set("args", 0)
           set == Set("args", len)
           from == Add("from_call", 1)
           push == IF len = 0 THEN <<>> ELSE <<Op("PUSHS")>> \o each \o <<clear>>
           call == IF flag.scope # 1 THEN <<Op("PUSHFRAME"), NL, NL, Op("POPFRAME")>>
                   ELSE <<Op("CALL"), from, Visit(node.expr)>>
<1>3. len \in Nat /\ ItemsOK(each)
  BY <1>2, VisitEach
<1>4. ItemOK(clear) /\ ItemOK(set) /\ ItemOK(from) /\ ItemOK(Visit(node.expr))
  BY <1>2, <1>3, ItemFacts
<1>5. todo' = (<<set>> \o push \o call) \o Tail(todo) /\ UNCHANGED flag
  BY DEF visit_call, Do
<1> HIDE DEF clear, set, from, each
<1>6. ItemsOK(call)
  BY <1>4, ItemFacts, ThreeOK, FourOK
<1>7. ItemsOK(push)
  <2>1. ItemsOK(<<Op("PUSHS")>> \o each \o <<clear>>)
    BY <1>3, <1>4, ItemFacts, OneOK, CatOK
  <2>2. QED
    BY <2>1, NoneOK
<1> HIDE DEF push, call
<1>8. QED
  BY <1>4, <1>5, <1>6, <1>7, OneOK, CatOK DEF Puts

LEMMA visit_dimPuts ==
    ASSUME ItemsOK(todo), visit_dim
    PROVE  Puts
<1>1. node.type = "DIM" /\ Visitable(node) /\ UNCHANGED flag
  BY Visited1 DEF visit_dim, Visiting, node
<1> DEFINE V == OfType(Nodes, "BINARY_OP")
<1>2. node.vec \in Seq(V)
  BY <1>1, MembersOfVisited
<1>3. CASE node.vec = <<>>
  BY <1>1, <1>3, NoneOK DEF visit_dim, Do, Puts
<1>4. CASE node.vec # <<>>
  <2> DEFINE bin == Head(node.vec)
             l == Visit(bin.left)
             r == Visit(bin.right)
             on == Add("from_dim", 1)
             off == Add("from_dim", -1)
             not == Add("not", 1)
             head == <<on, Op("MOVE"), l, r, not>>
             tail == <<r, off>>
             init == <<on, Op("MOVE"), l, r, not, r, off>>
             left == [node EXCEPT !.vec = Tail(@)]
             rest == <<Visit(left)>>
             some == IF bin.right = Null THEN <<>> ELSE init
  <2>1. bin \in V /\ Tail(node.vec) \in Seq(V)
    <3> HIDE DEF V
    <3>1. QED
      BY <1>2, <1>4, VecTail
  <2>2. Visitable(bin.left) /\ Visitable(bin.right)
    <3>1. Visitable(bin) /\ bin.type = "BINARY_OP"
      BY <2>1 DEF OfType, Visitable, Node
    <3> HIDE DEF bin
    <3>2. QED
      BY <3>1, MembersOfVisited
  <2>3. ItemOK(Visit(left))
    <3>1. "type" \in DOMAIN node /\ "vec" \in DOMAIN node
      BY <1>1, MembersOfVisited
    <3>2. left.type = "DIM" /\ left.vec = Tail(node.vec) /\ {"type", "vec"} \subseteq DOMAIN left
      BY <1>1, <3>1
    <3> HIDE DEF left
    <3>3. Visitable(left)
      BY <2>1, <3>2 DEF Visitable
    <3>4. QED
      BY <3>3, ItemFacts
  <2>4. todo' = (<<l>> \o some \o rest) \o Tail(todo)
    BY <1>4 DEF visit_dim, Do
  <2>5. ItemOK(l) /\ ItemOK(r) /\ ItemOK(on) /\ ItemOK(off) /\ ItemOK(not)
    BY <2>2, ItemFacts
  <2> HIDE DEF l, r, on, off, not, left
  <2>6. ItemsOK(init)
    <3> DEFINE S == {on, Op("MOVE"), l, r, not, off}
    <3>1. init \in Seq(S)
      OBVIOUS
    <3>2. \A x \in S : ItemOK(x)
      BY <2>5, ItemFacts
    <3> HIDE DEF init, S
    <3>3. QED
      BY <3>1, <3>2, ListOK
  <2>7. ItemsOK(some) /\ ItemsOK(rest) /\ ItemsOK(<<l>>)
    BY <2>3, <2>5, <2>6, NoneOK, OneOK
  <2> HIDE DEF some, rest, init
  <2>8. QED
    BY <1>1, <2>4, <2>7, CatOK DEF Puts
<1>5. QED
  BY <1>3, <1>4

LEMMA visit_returnPuts ==
    ASSUME ItemsOK(todo), visit_return
    PROVE  Puts
<1>1. node.type = "RETURN" /\ Visitable(node) /\ UNCHANGED flag
  BY Visited1 DEF visit_return, Visiting, node
<1>2. Visitable(node.expr)
  BY <1>1, MembersOfVisited
<1> DEFINE from == Add("from_return", 1)
           some == IF node.expr = Null THEN <<>> ELSE <<from, Visit(node.expr), NL>>
<1>3. todo' = (some \o <<Op("RETURN"), NL>>) \o Tail(todo)
  BY DEF visit_return, Do
<1>4. ItemsOK(some) /\ ItemsOK(<<Op("RETURN"), NL>>)
  BY <1>2, ItemFacts, NoneOK, TwoOK, ThreeOK
<1> HIDE DEF some
<1>5. QED
  BY <1>1, <1>3, <1>4, CatOK DEF Puts

LEMMA visit_silentPuts ==
    ASSUME visit_silent
    PROVE  Puts
BY NoneOK DEF visit_silent, Do, Puts

LEMMA visit_paramsPuts ==
    ASSUME ItemsOK(todo), visit_params
    PROVE  Puts
<1> DEFINE vec == Head(todo).vec
<1>1. vec \in Seq(Node)
  <2>1. todo # <<>> /\ Head(todo).k = "params"
    BY DEF visit_params, Doing
  <2>2. QED
    BY <2>1, RestOK DEF ItemOK
<1>2. CASE vec = <<>>
  BY <1>2, NoneOK DEF visit_params, Do, Puts
<1>3. CASE vec # <<>>
  <2> DEFINE t == <<Add("params", 1), Visit(Head(vec)), Add("params", -1), Params(Tail(vec))>>
  <2>1. todo' = t \o Tail(todo) /\ UNCHANGED flag
    BY <1>3 DEF visit_params, Do
  <2>2. Head(vec) \in Node /\ Tail(vec) \in Seq(Node)
    BY <1>1, <1>3, VecTail
  <2>3. ItemsOK(t)
    <3>1. ItemOK(Visit(Head(vec))) /\ ItemOK(Params(Tail(vec)))
      BY <2>2, ItemFacts DEF Visitable
    <3>2. ItemOK(Add("params", 1)) /\ ItemOK(Add("params", -1))
      BY ItemFacts
    <3>3. QED
      BY <3>1, <3>2, FourOK
  <2> HIDE DEF t
  <2>4. QED
    BY <2>1, <2>3 DEF Puts
<1>4. QED
  BY <1>2, <1>3

\* An expression visits no block.
LEMMA ExpressionLeaves ==
    ASSUME ExpressionStep
    PROVE  UNCHANGED <<frames, lbl, base, runs>> /\ todo # <<>>
<1>1. CASE PrintTokens \/ Assign \/ PrintTypeGuard \/ PrintIfTarget
  BY <1>1 DEF PrintTokens, Assign, PrintTypeGuard, PrintIfTarget, NoStatement, Doing
<1>2. CASE PrintLoopTarget \/ PrintResIfRef \/ PrintDivLabel
  BY <1>2 DEF PrintLoopTarget, PrintResIfRef, PrintDivLabel, NoStatement, Doing
<1>3. CASE visit_number \/ visit_string \/ visit_id \/ visit_decl
  BY <1>3 DEF visit_number, visit_string, visit_id, visit_decl, NoStatement, Doing, Visiting
<1>4. CASE visit_unary_op \/ visit_binary_op \/ visit_call
  BY <1>4 DEF visit_unary_op, visit_binary_op, visit_call, NoStatement, Doing, Visiting
<1>5. CASE visit_dim \/ visit_return \/ visit_silent \/ visit_params
  BY <1>5 DEF visit_dim, visit_return, visit_silent, visit_params, NoStatement, Doing, Visiting
<1>6. QED
  BY <1>1, <1>2, <1>3, <1>4, <1>5 DEF ExpressionStep

\* The flags stay ints and the list of items stays one.
LEMMA ExpressionTypes ==
    ASSUME TypeInv, ExpressionStep
    PROVE  TypeInv'
<1>1. ItemsOK(todo) /\ flag \in [FlagNames -> Int] /\ lbl \in [LblNames -> Nat]
  BY DEF TypeInv
<1>2. UNCHANGED <<frames, lbl, base, runs>> /\ todo # <<>>
  BY ExpressionLeaves
<1>3. ItemOK(Head(todo)) /\ ItemsOK(Tail(todo))
  BY <1>1, <1>2, RestOK
<1>4. SUFFICES ItemsOK(todo)' /\ flag' \in [FlagNames -> Int]
  BY <1>2 DEF TypeInv
<1>5. CASE PrintTokens
  <2>1. PICK n \in 1 .. Len(todo) : todo' = SubSeq(todo, n + 1, Len(todo)) /\ UNCHANGED flag
    BY <1>5 DEF PrintTokens
  <2>2. ItemsOK(SubSeq(todo, n + 1, Len(todo)))
    BY <1>1, PartOK
  <2>3. QED
    BY <1>1, <2>1, <2>2
<1>6. ASSUME todo' = <<>> \o Tail(todo) PROVE ItemsOK(todo)'
  <2>1. ItemsOK(<<>> \o Tail(todo))
    BY <1>3, NoneOK, CatOK
  <2>2. QED
    BY <1>6, <2>1
<1>7. CASE Assign
  <2>1. todo' = <<>> \o Tail(todo) /\ Head(todo).n \in Int
    BY <1>3, <1>7 DEF Assign, Doing, Do, ItemOK
  <2>2. flag' \in [FlagNames -> Int]
    BY <1>1, <1>7, <2>1 DEF Assign
  <2>3. QED
    BY <1>6, <2>1, <2>2
<1>8. CASE PrintTypeGuard \/ PrintIfTarget \/ PrintLoopTarget \/ PrintResIfRef \/ PrintDivLabel
  <2>1. todo' = <<>> \o Tail(todo)
    BY <1>8 DEF PrintTypeGuard, PrintIfTarget, PrintLoopTarget, PrintResIfRef, PrintDivLabel, Do
  <2>2. \A v \in FlagNames : flag[v] - 1 \in Int
    BY <1>1
  <2>3. {"from_if", "from_loop", "loop_num"} \subseteq FlagNames
    BY DEF FlagNames
  <2>4. flag' \in [FlagNames -> Int]
    <3>1. CASE UNCHANGED flag
      BY <1>1, <3>1
    <3>2. CASE PrintIfTarget
      BY <1>1, <2>2, <2>3, <3>2 DEF PrintIfTarget
    <3>3. CASE PrintLoopTarget
      BY <1>1, <2>2, <2>3, <3>3 DEF PrintLoopTarget
    <3>4. QED
      BY <1>8, <3>1, <3>2, <3>3 DEF PrintTypeGuard, PrintResIfRef, PrintDivLabel
  <2>5. QED
    BY <1>6, <2>1, <2>4
<1>9. CASE visit_number \/ visit_string \/ visit_id \/ visit_decl \/ visit_unary_op \/ visit_binary_op
           \/ visit_call \/ visit_dim \/ visit_return \/ visit_silent \/ visit_params
  <2>1. Puts
    BY <1>1, <1>9, visit_numberPuts, visit_stringPuts, visit_idPuts, visit_declPuts,
       visit_unary_opPuts, visit_binary_opPuts, visit_callPuts, visit_dimPuts, visit_returnPuts,
       visit_silentPuts, visit_paramsPuts
  <2>2. PICK s : ItemsOK(s) /\ todo' = s \o Tail(todo)
    BY <2>1 DEF Puts
  <2>3. ItemsOK(s \o Tail(todo))
    BY <1>3, <2>2, CatOK
  <2>4. QED
    BY <1>1, <2>1, <2>2, <2>3 DEF Puts
<1>10. QED
  BY <1>5, <1>7, <1>8, <1>9 DEF ExpressionStep

-----------------------------------------------------------------------------
(* The handlers that visit blocks.                                         *)

\* The innermost activation, and the ones that called it.
LEMMA TopFacts ==
    ASSUME TypeInv, frames # <<>>
    PROVE  Top \in Activations /\ Callers \in Seq(Activations)
<1>1. frames \in Seq(Activations) /\ Len(frames) \in Nat /\ DOMAIN frames = 1 .. Len(frames)
  BY LenProperties DEF TypeInv
<1>2. Len(frames) # 0 /\ Len(frames) \in DOMAIN frames
  BY <1>1, EmptySeq
<1>3. Top \in Activations
  BY <1>1, <1>2, ElementOfSeq DEF Top
<1>4. \A i \in 1 .. Len(frames) - 1 : frames[i] \in Activations
  BY <1>1, ElementOfSeq
<1>5. Callers \in Seq(Activations)
  BY <1>1, <1>2, <1>4, SubSeqProperties DEF Callers
<1>6. QED
  BY <1>3, <1>5

LEMMA PushOne ==
    ASSUME NEW S, NEW s \in Seq(S), NEW a \in S
    PROVE  s \o <<a>> \in Seq(S)
<1>1. <<a>> \in Seq(S)
  OBVIOUS
<1>2. QED
  BY <1>1, ConcatProperties

LEMMA PushTwo ==
    ASSUME NEW S, NEW s \in Seq(S), NEW a \in S, NEW b \in S
    PROVE  s \o <<a, b>> \in Seq(S)
<1>1. <<a, b>> \in Seq(S)
  OBVIOUS
<1>2. QED
  BY <1>1, ConcatProperties

LEMMA FrameTypes ==
    ASSUME NEW h \in {"gen", "block", "if", "while", "scope", "function"},
           NEW n \in Nodes, n.type = Takes[h],
           NEW p \in {"body", "conds", "blocks", "else"}, NEW m \in Nat
    PROVE  Frame(h, n, p, m) \in Activations
<1> DEFINE f == Frame(h, n, p, m)
<1>1. f = [h |-> h, node |-> n, pc |-> p, i |-> 1, mem |-> m, len |-> 0]
  BY DEF Frame
<1>2. Fits(f)
  <2>1. h = "if" => Len(n.else_ifs) \in Nat
    BY MembersOfNode, LenProperties DEF Takes
  <2>2. QED
    BY <1>1, <2>1 DEF Fits
<1> HIDE DEF f
<1>3. f \in Activations
  BY <1>1, <1>2 DEF Activations
<1>4. QED
  BY <1>3 DEF f

LEMMA BlockFrameTypes ==
    ASSUME NEW b \in OfType(Nodes, "BLOCK")
    PROVE  BlockFrame(b) \in Activations
<1>1. b \in Nodes /\ b.type = Takes["block"]
  BY DEF OfType, Takes
<1>2. QED
  BY <1>1, FrameTypes DEF BlockFrame

\* Another place in the same handler.
LEMMA MovedTypes ==
    ASSUME NEW f \in Activations,
           NEW p \in {"body", "conds", "blocks", "else"}, NEW i \in Nat \ {0}, NEW m \in Nat, NEW k \in Nat,
           NEW g, g = [h |-> f.h, node |-> f.node, pc |-> p, i |-> i, mem |-> m, len |-> k], Fits(g)
    PROVE  g \in Activations
BY DEF Activations

LEMMA ActivationShape ==
    ASSUME NEW f \in Activations
    PROVE  /\ f = [h |-> f.h, node |-> f.node, pc |-> f.pc, i |-> f.i, mem |-> f.mem, len |-> f.len]
           /\ f.node \in Nodes /\ f.node.type = Takes[f.h] /\ Fits(f)
           /\ f.h \in {"gen", "block", "if", "while", "scope", "function"}
           /\ f.pc \in {"body", "conds", "blocks", "else"}
           /\ f.i \in Nat \ {0} /\ f.i + 1 \in Nat \ {0}
           /\ f.mem \in Nat /\ f.mem + 1 \in Nat /\ f.len \in Nat
BY DEF Activations

LEMMA MovedShape ==
    ASSUME NEW f \in Activations, NEW p, NEW k
    PROVE  /\ [f EXCEPT !.pc = p] =
                [h |-> f.h, node |-> f.node, pc |-> p, i |-> f.i, mem |-> f.mem, len |-> f.len]
           /\ [f EXCEPT !.i = @ + 1, !.mem = @ + 1] =
                [h |-> f.h, node |-> f.node, pc |-> f.pc, i |-> f.i + 1, mem |-> f.mem + 1, len |-> f.len]
           /\ [f EXCEPT !.pc = p, !.i = 1, !.mem = @ + 1, !.len = k] =
                [h |-> f.h, node |-> f.node, pc |-> p, i |-> 1, mem |-> f.mem + 1, len |-> k]
<1>1. f = [h |-> f.h, node |-> f.node, pc |-> f.pc, i |-> f.i, mem |-> f.mem, len |-> f.len]
  BY ActivationShape
<1>2. [f EXCEPT !.pc = p] =
         [h |-> f.h, node |-> f.node, pc |-> p, i |-> f.i, mem |-> f.mem, len |-> f.len]
  BY <1>1
<1>3. [f EXCEPT !.i = @ + 1, !.mem = @ + 1] =
         [h |-> f.h, node |-> f.node, pc |-> f.pc, i |-> f.i + 1, mem |-> f.mem + 1, len |-> f.len]
  <2> DEFINE g == [f EXCEPT !.i = @ + 1, !.mem = @ + 1]
  <2>1. DOMAIN f = {"h", "node", "pc", "i", "mem", "len"}
    BY <1>1
  <2>2. g = [x \in DOMAIN f |-> IF x = "mem" THEN f.mem + 1 ELSE IF x = "i" THEN f.i + 1 ELSE f[x]]
    BY <2>1
  <2>3. QED
    BY <2>1, <2>2
<1>4. [f EXCEPT !.pc = p, !.i = 1, !.mem = @ + 1, !.len = k] =
         [h |-> f.h, node |-> f.node, pc |-> p, i |-> 1, mem |-> f.mem + 1, len |-> k]
  <2> DEFINE g == [f EXCEPT !.pc = p, !.i = 1, !.mem = @ + 1, !.len = k]
  <2>1. DOMAIN f = {"h", "node", "pc", "i", "mem", "len"}
    BY <1>1
  <2>2. g = [x \in DOMAIN f |-> IF x = "len" THEN k ELSE IF x = "mem" THEN f.mem + 1
                                ELSE IF x = "i" THEN 1 ELSE IF x = "pc" THEN p ELSE f[x]]
    BY <2>1
  <2>3. QED
    BY <2>1, <2>2
<1>5. QED
  BY <1>2, <1>3, <1>4

LEMMA NextTypes ==
    ASSUME NEW f \in Activations, f.h = "if" /\ f.pc = "conds" => f.i <= Len(f.node.else_ifs)
    PROVE  [f EXCEPT !.i = @ + 1] \in Activations
<1> DEFINE g == [f EXCEPT !.i = @ + 1]
<1>1. g = [h |-> f.h, node |-> f.node, pc |-> f.pc, i |-> f.i + 1, mem |-> f.mem, len |-> f.len]
  BY ActivationShape
<1>2. Fits(g)
  <2>1. f.h = "if" => Len(f.node.else_ifs) \in Nat
    BY ActivationShape, MembersOfNode, LenProperties DEF Takes
  <2>2. QED
    BY <1>1, <2>1, ActivationShape DEF Fits
<1> HIDE DEF g
<1>3. g \in Activations
  BY <1>1, <1>2, ActivationShape, MovedTypes
<1>4. QED
  BY <1>3 DEF g

\* What a calling block and its statement are.
LEMMA CallTypes ==
    ASSUME TypeInv, NEW T, AtStmt(T)
    PROVE  /\ frames # <<>>
           /\ NextStmt \in Node /\ NextStmt.type \in T
           /\ [Top EXCEPT !.i = @ + 1] \in Activations
           /\ Callers \in Seq(Activations)
<1>1. frames # <<>> /\ Top.h = "block" /\ Top.i <= Len(Top.node.stmts) /\ NextStmt.type \in T
  BY DEF AtStmt, Running
<1>2. Top \in Activations /\ Callers \in Seq(Activations)
  BY <1>1, TopFacts
<1>3. Top.node \in Nodes /\ Top.node.type = "BLOCK" /\ Top.i \in Nat \ {0}
  BY <1>1, <1>2 DEF Activations, Takes
<1>4. Top.node.stmts \in Seq(Node)
  BY <1>3, MembersOfNode
<1>5. NextStmt \in Node
  BY <1>1, <1>3, <1>4, LenProperties, ElementOfSeq DEF NextStmt
<1>6. QED
  BY <1>1, <1>2, <1>5, NextTypes

\* What a step of a handler that visits blocks may do.
LEMMA StatementKeeps ==
    ASSUME TypeInv,
           frames' \in Seq(Activations), ItemsOK(todo)',
           flag' \in [FlagNames -> Int], lbl' \in [LblNames -> Nat], UNCHANGED <<base, runs>>
    PROVE  TypeInv'
BY DEF TypeInv

LEMMA Counted ==
    ASSUME TypeInv
    PROVE  /\ flag \in [FlagNames -> Int] /\ lbl \in [LblNames -> Nat] /\ ItemsOK(todo)
           /\ \A v \in FlagNames : /\ [flag EXCEPT ![v] = @ + 1] \in [FlagNames -> Int]
                                   /\ [flag EXCEPT ![v] = @ - 1] \in [FlagNames -> Int]
           /\ \A v \in LblNames : lbl[v] \in Nat /\ [lbl EXCEPT ![v] = @ + 1] \in [LblNames -> Nat]
BY DEF TypeInv

LEMMA OneVisit ==
    ASSUME NEW n \in Node, todo' = <<Visit(n)>>
    PROVE  ItemsOK(todo)'
<1>1. ItemsOK(<<Visit(n)>>)
  BY ItemFacts, OneOK DEF Visitable
<1>2. QED
  BY <1>1

LEMMA visit_blockTypes ==
    ASSUME TypeInv, visit_block
    PROVE  TypeInv'
<1>1. UNCHANGED <<flag, lbl, base, runs>> /\ Running("block") /\ frames # <<>>
  BY DEF visit_block, Running
<1>2. CASE /\ Top.i <= Len(Top.node.stmts)
           /\ todo' = <<Visit(NextStmt)>> /\ CallFromBlock(<<>>)
  <2>1. AtStmt({NextStmt.type})
    BY <1>1, <1>2 DEF AtStmt
  <2>2. NextStmt \in Node /\ [Top EXCEPT !.i = @ + 1] \in Activations /\ Callers \in Seq(Activations)
    BY <2>1, CallTypes
  <2> DEFINE moved == [Top EXCEPT !.i = @ + 1]
  <2>3. frames' = Callers \o (<<moved>> \o <<>>)
    BY <1>2 DEF CallFromBlock
  <2> HIDE DEF moved
  <2>4. frames' = Callers \o <<moved>>
    BY <2>3
  <2>5. frames' \in Seq(Activations)
    BY <2>2, <2>4, PushOne DEF moved
  <2>6. ItemsOK(todo)'
    BY <1>2, <2>2, OneVisit
  <2>7. QED
    BY <1>1, <2>5, <2>6, Counted, StatementKeeps
<1>3. CASE frames' = Callers /\ UNCHANGED todo
  BY <1>1, <1>3, TopFacts, Counted, StatementKeeps
<1>4. QED
  BY <1>2, <1>3 DEF visit_block

\* A statement that brings one activation.
LEMMA CallOne ==
    ASSUME TypeInv, NEW T, AtStmt(T), NEW a \in Activations, CallFromBlock(<<a>>)
    PROVE  frames' \in Seq(Activations)
<1> DEFINE moved == [Top EXCEPT !.i = @ + 1]
<1>1. moved \in Activations /\ Callers \in Seq(Activations)
  BY CallTypes
<1>2. frames' = Callers \o (<<moved>> \o <<a>>)
  BY DEF CallFromBlock
<1> HIDE DEF moved
<1>3. <<moved>> \in Seq(Activations)
  BY <1>1
<1>4. <<moved>> \o <<a>> \in Seq(Activations)
  BY <1>1, <1>3, PushOne
<1>5. QED
  BY <1>1, <1>2, <1>4, ConcatProperties

\* A statement that brings its own activation and that of its block.
LEMMA CallTwo ==
    ASSUME TypeInv, NEW T, AtStmt(T), NEW a \in Activations, NEW b \in Activations,
           CallFromBlock(<<a, b>>)
    PROVE  frames' \in Seq(Activations)
<1> DEFINE moved == [Top EXCEPT !.i = @ + 1]
<1>1. moved \in Activations /\ Callers \in Seq(Activations)
  BY CallTypes
<1>2. frames' = Callers \o (<<moved>> \o <<a, b>>)
  BY DEF CallFromBlock
<1> HIDE DEF moved
<1>3. <<moved>> \in Seq(Activations)
  BY <1>1
<1>4. <<moved>> \o <<a, b>> \in Seq(Activations)
  BY <1>3, PushTwo
<1>5. QED
  BY <1>1, <1>2, <1>4, ConcatProperties

LEMMA visit_ifTypes ==
    ASSUME TypeInv, visit_if
    PROVE  TypeInv'
<1>1. AtStmt({"IF"})
  BY DEF visit_if
<1>2. NextStmt \in Nodes /\ NextStmt.type = "IF"
  BY <1>1, CallTypes DEF Node, Null
<1>3. lbl.else_if_num \in Nat /\ lbl' \in [LblNames -> Nat] /\ flag' \in [FlagNames -> Int]
  <2>1. {"else_if_num", "end_if_num"} \subseteq LblNames /\ "from_if" \in FlagNames
    BY DEF LblNames, FlagNames
  <2>2. lbl \in [LblNames -> Nat] /\ \A v \in LblNames : lbl[v] \in Nat /\ lbl[v] + 1 \in Nat
    BY Counted
  <2>3. lbl' = [lbl EXCEPT !.else_if_num = @ + 1, !.end_if_num = @ + 1]
        /\ flag' = [flag EXCEPT !.from_if = @ + 1]
    BY DEF visit_if
  <2>4. lbl' \in [LblNames -> Nat]
    BY <2>1, <2>2, <2>3
  <2>5. QED
    BY <2>1, <2>2, <2>3, <2>4, Counted
<1>4. Frame("if", NextStmt, "conds", lbl.else_if_num) \in Activations
  BY <1>2, <1>3, FrameTypes DEF Takes
<1>5. frames' \in Seq(Activations)
  BY <1>1, <1>4, CallOne DEF visit_if
<1>6. ItemsOK(todo)'
  BY <1>2, MembersOfNode, OneVisit DEF visit_if
<1>7. QED
  BY <1>3, <1>5, <1>6, StatementKeeps DEF visit_if

\* An activation of visit_if.
LEMMA IfFacts ==
    ASSUME TypeInv, NEW p, InIf(p)
    PROVE  /\ frames # <<>> /\ Callers \in Seq(Activations)
           /\ Top \in Activations /\ Top.i \in Nat \ {0} /\ Top.mem \in Nat
           /\ Top.node \in Nodes /\ Top.node.type = "IF"
           /\ Top.node.block \in OfType(Nodes, "BLOCK")
           /\ Top.node.else_block \in OfType(Nodes, "BLOCK") \cup {Null}
           /\ ElseIfs \in Seq(OfType(Nodes, "IF"))
           /\ Top.i <= Len(ElseIfs) => ElseIfs[Top.i] \in Nodes /\ ElseIfs[Top.i].type = "IF"
<1>1. frames # <<>> /\ Top.h = "if"
  BY DEF InIf, Running
<1>2. Top \in Activations /\ Callers \in Seq(Activations)
  BY <1>1, TopFacts
<1>3. /\ Top.node \in Nodes /\ Top.node.type = "IF" /\ Top.i \in Nat \ {0} /\ Top.mem \in Nat
  BY <1>1, <1>2 DEF Activations, Takes
<1>4. /\ Top.node.block \in OfType(Nodes, "BLOCK")
      /\ Top.node.else_block \in OfType(Nodes, "BLOCK") \cup {Null}
      /\ ElseIfs \in Seq(OfType(Nodes, "IF"))
  BY <1>3, MembersOfNode DEF ElseIfs
<1>5. Top.i <= Len(ElseIfs) => ElseIfs[Top.i] \in OfType(Nodes, "IF")
  BY <1>3, <1>4, LenProperties, ElementOfSeq
<1>6. QED
  BY <1>1, <1>2, <1>3, <1>4, <1>5 DEF OfType

LEMMA IfElseIfCondTypes ==
    ASSUME TypeInv, IfElseIfCond
    PROVE  TypeInv'
<1>1. InIf("conds") /\ Top.i <= Len(ElseIfs)
  BY DEF IfElseIfCond
<1>2. /\ Callers \in Seq(Activations) /\ [Top EXCEPT !.i = @ + 1] \in Activations
      /\ ElseIfs[Top.i].expr \in Node
  <2>1. Top \in Activations /\ Top.i <= Len(Top.node.else_ifs)
    BY <1>1, IfFacts DEF ElseIfs
  <2>2. QED
    BY <1>1, <2>1, IfFacts, NextTypes, MembersOfNode
<1>3. "else_if_num" \in LblNames /\ "from_if" \in FlagNames
  BY DEF LblNames, FlagNames
<1>4. lbl' \in [LblNames -> Nat] /\ flag' \in [FlagNames -> Int]
  BY <1>3, Counted DEF IfElseIfCond
<1>5. frames' \in Seq(Activations)
  BY <1>2, PushOne DEF IfElseIfCond
<1>6. ItemsOK(todo)'
  BY <1>2, OneVisit DEF IfElseIfCond
<1>7. QED
  BY <1>4, <1>5, <1>6, StatementKeeps DEF IfElseIfCond

LEMMA IfBlockTypes ==
    ASSUME TypeInv, IfBlock
    PROVE  TypeInv'
<1> DEFINE moved == [Top EXCEPT !.pc = "blocks", !.i = 1, !.mem = @ + 1, !.len = Top.i - 1]
<1>1. InIf("conds")
  BY DEF IfBlock
<1>2. /\ Top \in Activations /\ Top.i \in Nat \ {0} /\ Top.h = "if" /\ Top.pc = "conds"
      /\ Len(Top.node.else_ifs) \in Nat
  <2>1. Top \in Activations /\ Top.i \in Nat \ {0} /\ ElseIfs \in Seq(OfType(Nodes, "IF"))
    BY <1>1, IfFacts
  <2>2. QED
    BY <1>1, <2>1, LenProperties DEF InIf, Running, ElseIfs
<1>3. /\ Callers \in Seq(Activations)
      /\ moved \in Activations
      /\ BlockFrame(Top.node.block) \in Activations
  <2>1. moved = [h |-> Top.h, node |-> Top.node, pc |-> "blocks", i |-> 1, mem |-> Top.mem + 1, len |-> Top.i - 1]
    BY <1>2, MovedShape
  <2>2. Top.i - 1 \in Nat /\ Top.i <= Len(Top.node.else_ifs) + 1
    BY <1>2, ActivationShape DEF Fits
  <2>3. Fits(moved)
    BY <1>2, <2>1, <2>2 DEF Fits
  <2> HIDE DEF moved
  <2>4. moved \in Activations
    <3>1. /\ Top.mem + 1 \in Nat /\ 1 \in Nat \ {0} /\ Top.i - 1 \in Nat
          /\ "blocks" \in {"body", "conds", "blocks", "else"}
      BY <1>2, <2>2, ActivationShape
    <3>2. QED
      BY <1>2, <2>1, <2>3, <3>1, MovedTypes
  <2>5. QED
    BY <1>1, <2>4, IfFacts, BlockFrameTypes
<1>4. lbl' \in [LblNames -> Nat]
  <2>1. "else_num" \in LblNames
    BY DEF LblNames
  <2>2. lbl.else_num \in Nat /\ lbl.else_num + 1 \in Nat /\ lbl \in [LblNames -> Nat]
    BY <2>1, Counted
  <2>3. \/ lbl' = [lbl EXCEPT !.else_num = lbl.else_num + 1]
        \/ lbl' = [lbl EXCEPT !.else_num = lbl.else_num]
    BY DEF IfBlock
  <2>4. QED
    BY <2>1, <2>2, <2>3
<1>5. frames' = Callers \o <<moved, BlockFrame(Top.node.block)>>
  BY DEF IfBlock
<1> HIDE DEF moved
<1>6. frames' \in Seq(Activations)
  BY <1>3, <1>5, PushTwo
<1>7. UNCHANGED <<todo, flag, base, runs>>
  BY DEF IfBlock
<1>8. QED
  BY <1>4, <1>6, <1>7, Counted, StatementKeeps

LEMMA IfElseIfBlockTypes ==
    ASSUME TypeInv, IfElseIfBlock
    PROVE  TypeInv'
<1> DEFINE moved == [Top EXCEPT !.i = @ + 1, !.mem = @ + 1]
<1>1. InIf("blocks") /\ Top.i <= Top.len /\ Top.h = "if" /\ Top.pc = "blocks"
  BY DEF IfElseIfBlock, InIf, Running
<1>2. Top \in Activations /\ Callers \in Seq(Activations) /\ ElseIfs \in Seq(OfType(Nodes, "IF"))
  BY <1>1, IfFacts
<1>3. Top.len <= Len(ElseIfs) /\ Len(ElseIfs) \in Nat /\ Top.i <= Len(ElseIfs)
  <2>1. Len(ElseIfs) \in Nat /\ Top.len <= Len(ElseIfs) /\ Top.len \in Nat /\ Top.i \in Nat
    BY <1>1, <1>2, ActivationShape, LenProperties DEF Fits, ElseIfs
  <2>2. QED
    BY <1>1, <2>1
<1>4. BlockFrame(ElseIfs[Top.i].block) \in Activations
  BY <1>1, <1>3, IfFacts, MembersOfNode, BlockFrameTypes
<1>5. moved \in Activations
  <2>1. moved = [h |-> Top.h, node |-> Top.node, pc |-> Top.pc, i |-> Top.i + 1, mem |-> Top.mem + 1, len |-> Top.len]
    BY <1>2, MovedShape
  <2>2. Fits(moved)
    BY <1>1, <1>2, <2>1, ActivationShape DEF Fits
  <2> HIDE DEF moved
  <2>3. QED
    BY <1>2, <2>1, <2>2, ActivationShape, MovedTypes
<1>6. frames' = Callers \o <<moved, BlockFrame(ElseIfs[Top.i].block)>>
      /\ UNCHANGED <<todo, flag, lbl, base, runs>>
  BY DEF IfElseIfBlock
<1> HIDE DEF moved
<1>7. frames' \in Seq(Activations)
  BY <1>2, <1>4, <1>5, <1>6, PushTwo
<1>8. QED
  BY <1>6, <1>7, Counted, StatementKeeps

LEMMA IfElseBlockTypes ==
    ASSUME TypeInv, IfElseBlock
    PROVE  TypeInv'
<1> DEFINE moved == [Top EXCEPT !.pc = "else"]
<1>1. InIf("blocks") /\ Top.node.else_block # Null
  BY DEF IfElseBlock
<1>2. /\ Top \in Activations /\ Callers \in Seq(Activations)
      /\ BlockFrame(Top.node.else_block) \in Activations
  BY <1>1, IfFacts, BlockFrameTypes
<1>3. moved \in Activations
  <2>1. moved = [h |-> Top.h, node |-> Top.node, pc |-> "else", i |-> Top.i, mem |-> Top.mem, len |-> Top.len]
    BY <1>2, MovedShape
  <2>2. Fits(moved)
    BY <1>2, <2>1, ActivationShape DEF Fits
  <2> HIDE DEF moved
  <2>3. QED
    BY <1>2, <2>1, <2>2, ActivationShape, MovedTypes
<1>4. frames' = Callers \o <<moved, BlockFrame(Top.node.else_block)>>
      /\ UNCHANGED <<todo, flag, lbl, base, runs>>
  BY DEF IfElseBlock
<1> HIDE DEF moved
<1>5. frames' \in Seq(Activations)
  BY <1>2, <1>3, <1>4, PushTwo
<1>6. QED
  BY <1>4, <1>5, Counted, StatementKeeps

LEMMA IfEndTypes ==
    ASSUME TypeInv, IfEnd
    PROVE  TypeInv'
<1>1. frames' = Callers /\ frames # <<>> /\ UNCHANGED <<todo, flag, lbl, base, runs>>
  BY DEF IfEnd, InIf, Running
<1>2. QED
  BY <1>1, TopFacts, Counted, StatementKeeps

LEMMA visit_whileTypes ==
    ASSUME TypeInv, visit_while
    PROVE  TypeInv'
<1>1. AtStmt({"WHILE"})
  BY DEF visit_while
<1>2. NextStmt \in Nodes /\ NextStmt.type = "WHILE"
  BY <1>1, CallTypes DEF Node, Null
<1>3. "mem_loop_num" \in LblNames /\ "loop_num" \in FlagNames
  BY DEF LblNames, FlagNames
<1>4. NextLoop \in Nat /\ lbl' \in [LblNames -> Nat]
  BY <1>3, Counted DEF NextLoop, visit_while
<1>5. flag' \in [FlagNames -> Int]
  <2>1. flag' = [flag EXCEPT !.loop_num = NextLoop] /\ flag \in [FlagNames -> Int] /\ NextLoop \in Int
    BY <1>4, Counted DEF visit_while
  <2>2. QED
    BY <1>3, <2>1
<1>6. Frame("while", NextStmt, "body", NextLoop) \in Activations
  BY <1>2, <1>4, FrameTypes DEF Takes
<1>7. BlockFrame(NextStmt.block) \in Activations
  BY <1>2, MembersOfNode, BlockFrameTypes
<1>8. frames' \in Seq(Activations)
  BY <1>1, <1>6, <1>7, CallTwo DEF visit_while
<1>9. UNCHANGED <<todo, base, runs>>
  BY DEF visit_while
<1>10. QED
  BY <1>4, <1>5, <1>8, <1>9, Counted, StatementKeeps

LEMMA WhileCondTypes ==
    ASSUME TypeInv, WhileCond
    PROVE  TypeInv'
<1>1. frames # <<>> /\ Top.h = "while"
  BY DEF WhileCond, Running
<1>2. Top \in Activations /\ Callers \in Seq(Activations)
  BY <1>1, TopFacts
<1>3. Top.node.expr \in Node
  BY <1>1, <1>2, ActivationShape, MembersOfNode DEF Takes
<1>4. "from_loop" \in FlagNames
  BY DEF FlagNames
<1>5. ItemsOK(todo)'
  BY <1>3, OneVisit DEF WhileCond
<1>6. flag' \in [FlagNames -> Int] /\ lbl' \in [LblNames -> Nat]
  BY <1>4, Counted DEF WhileCond
<1>7. QED
  BY <1>2, <1>5, <1>6, StatementKeeps DEF WhileCond

LEMMA visit_scopeTypes ==
    ASSUME TypeInv, visit_scope
    PROVE  TypeInv'
<1>1. AtStmt({"SCOPE"})
  BY DEF visit_scope
<1>2. NextStmt \in Nodes /\ NextStmt.type = "SCOPE"
  BY <1>1, CallTypes DEF Node, Null
<1>3. "scope" \in FlagNames
  BY DEF FlagNames
<1>4. flag' \in [FlagNames -> Int] /\ lbl' \in [LblNames -> Nat]
  BY <1>3, Counted DEF visit_scope
<1>5. Frame("scope", NextStmt, "body", 0) \in Activations
  BY <1>2, FrameTypes DEF Takes
<1>6. BlockFrame(NextStmt.block) \in Activations
  BY <1>2, MembersOfNode, BlockFrameTypes
<1>7. frames' \in Seq(Activations)
  BY <1>1, <1>5, <1>6, CallTwo DEF visit_scope
<1>8. UNCHANGED <<todo, base, runs>>
  BY DEF visit_scope
<1>9. QED
  BY <1>4, <1>7, <1>8, Counted, StatementKeeps

LEMMA visit_functionTypes ==
    ASSUME TypeInv, visit_function
    PROVE  TypeInv'
<1>1. AtStmt({"FUNCTION"})
  BY DEF visit_function
<1>2. NextStmt \in Nodes /\ NextStmt.type = "FUNCTION"
  BY <1>1, CallTypes DEF Node, Null
<1>3. "from_func" \in FlagNames
  BY DEF FlagNames
<1>4. flag' \in [FlagNames -> Int] /\ lbl' \in [LblNames -> Nat]
  BY <1>3, Counted DEF visit_function
<1>5. Frame("function", NextStmt, "body", 0) \in Activations
  BY <1>2, FrameTypes DEF Takes
<1>6. BlockFrame(NextStmt.block) \in Activations
  BY <1>2, MembersOfNode, BlockFrameTypes
<1>7. frames' \in Seq(Activations)
  BY <1>1, <1>5, <1>6, CallTwo DEF visit_function
<1>8. ItemsOK(todo)'
  <2>1. ItemsOK(<<Params(NextStmt.params)>>)
    BY <1>2, MembersOfNode, ItemFacts, OneOK
  <2>2. todo' = <<Params(NextStmt.params)>>
    BY DEF visit_function
  <2>3. QED
    BY <2>1, <2>2
<1>9. UNCHANGED <<base, runs>>
  BY DEF visit_function
<1>10. QED
  BY <1>4, <1>7, <1>8, <1>9, StatementKeeps

LEMMA EndTypes ==
    ASSUME TypeInv, ScopeEnd \/ FunctionEnd \/ GenEnd
    PROVE  TypeInv'
<1>1. frames' = Callers /\ frames # <<>> /\ UNCHANGED <<todo, lbl, base, runs>>
  BY DEF ScopeEnd, FunctionEnd, GenEnd, Running
<1>2. "scope" \in FlagNames /\ "from_func" \in FlagNames
  BY DEF FlagNames
<1>3. flag' \in [FlagNames -> Int]
  BY <1>2, Counted DEF ScopeEnd, FunctionEnd, GenEnd
<1>4. QED
  BY <1>1, <1>3, TopFacts, Counted, StatementKeeps

LEMMA ifj17_genTypes ==
    ASSUME TypeInv, ifj17_gen
    PROVE  TypeInv'
<1>1. PICK p \in Programs : GenBegin(p)
  BY DEF ifj17_gen
<1>2. p \in OfType(Nodes, "BLOCK")
  BY ProgramsAssumption
<1>3. Frame("gen", p, "body", 0) \in Activations /\ BlockFrame(p) \in Activations
  BY <1>2, FrameTypes, BlockFrameTypes DEF OfType, Takes
<1> DEFINE a == Frame("gen", p, "body", 0)
           b == BlockFrame(p)
<1>4. frames' = <<a, b>>
  BY <1>1 DEF GenBegin
<1> HIDE DEF a, b
<1>5. frames' \in Seq(Activations)
  BY <1>3, <1>4 DEF a, b
<1>6. base' \in Nat /\ runs' \in 0 .. MaxRuns /\ UNCHANGED <<todo, flag, lbl>>
  <2>1. "else_if_num" \in LblNames
    BY DEF LblNames
  <2>2. QED
    BY <1>1, <2>1, MaxRunsNat DEF GenBegin, TypeInv
<1>7. QED
  BY <1>5, <1>6 DEF TypeInv

-----------------------------------------------------------------------------
(* The theorem.                                                            *)

LEMMA InitTypes == Init => TypeInv
<1>1. SUFFICES ASSUME Init PROVE TypeInv
  OBVIOUS
<1>2. <<>> \in Seq(Activations)
  OBVIOUS
<1>3. QED
  BY <1>1, <1>2, NoneOK, MaxRunsNat DEF Init, TypeInv

LEMMA TypesKept == TypeInv /\ [Next]_vars => TypeInv'
<1>1. SUFFICES ASSUME TypeInv, [Next]_vars PROVE TypeInv'
  OBVIOUS
<1>2. CASE ifj17_gen
  BY <1>1, <1>2, ifj17_genTypes
<1>3. CASE ExpressionStep
  BY <1>1, <1>3, ExpressionTypes
<1>4. CASE StatementStep
  BY <1>1, <1>4, visit_blockTypes, visit_ifTypes, IfElseIfCondTypes, IfBlockTypes, IfElseIfBlockTypes,
     IfElseBlockTypes, IfEndTypes, visit_whileTypes, WhileCondTypes, visit_scopeTypes,
     visit_functionTypes, EndTypes DEF StatementStep
<1>5. CASE UNCHANGED vars
  BY <1>1, <1>5 DEF vars, TypeInv
<1>6. QED
  BY <1>1, <1>2, <1>3, <1>4, <1>5 DEF Next

\* Whatever the parser built: every activation of the generator stands somewhere
\* in its handler, its counters count up from 0, and its flags stay ints.
THEOREM Types == Spec => []TypeOK
<1>1. TypeInv => TypeOK
  <2>1. SUFFICES ASSUME TypeInv PROVE TypeOK
    OBVIOUS
  <2>2. frames \in Seq(Elements(frames)) /\ \A f \in Elements(frames) : f \in Activations
    <3>1. frames \in Seq(Activations)
      BY <2>1 DEF TypeInv
    <3>2. QED
      BY <3>1, OwnElements, ElementOfSeq, LenProperties DEF Elements
  <2>3. ASSUME NEW f \in Activations
        PROVE  f \in [h : {"gen", "block", "if", "while", "scope", "function"}, node : {f.node},
                      pc : {"body", "conds", "blocks", "else"}, i : Nat \ {0}, mem : Nat, len : Nat]
    BY <2>3, ActivationShape
  <2>4. QED
    BY <2>1, <2>2, <2>3 DEF TypeOK, TypeInv
<1>2. QED
  BY <1>1, InitTypes, TypesKept, PTL DEF Spec

-----------------------------------------------------------------------------
(* Where loops close, for every set of programs with chained loops.         *)

\* The activations after a step of the innermost one.
LEMMA Stacked ==
    ASSUME TypeInv, frames # <<>>, NEW T, NEW t \in Seq(T), frames' = Callers \o t
    PROVE  /\ Len(frames) \in Nat \ {0} /\ Len(t) \in Nat
           /\ Len(frames') = Len(frames) - 1 + Len(t)
           /\ \A p \in 1 .. Len(frames) - 1 : frames'[p] = frames[p]
           /\ \A j \in 1 .. Len(t) : frames'[Len(frames) - 1 + j] = t[j]
<1>1. frames \in Seq(Activations) /\ Len(frames) \in Nat \ {0}
  BY EmptySeq, LenProperties DEF TypeInv
<1>2. /\ Callers \in Seq(Activations) /\ Len(Callers) = Len(frames) - 1
      /\ \A p \in 1 .. Len(frames) - 1 : Callers[p] = frames[p]
  <2>1. Callers \in Seq(Activations)
    BY TopFacts
  <2> DEFINE n == Len(frames) - 1
             c == SubSeq(frames, 1, n)
  <2>2. n \in Nat /\ n <= Len(frames)
    BY <1>1
  <2> HIDE DEF n
  <2>3. Len(c) = n /\ \A p \in 1 .. n : c[p] = frames[p]
    BY <1>1, <2>2
  <2> HIDE DEF c
  <2>4. Callers = c
    BY DEF Callers, c, n
  <2>5. QED
    BY <2>1, <2>3, <2>4 DEF n
<1> DEFINE c == Callers
<1> HIDE DEF c
<1>3. c \in Seq(Activations) /\ frames' = c \o t /\ Len(c) = Len(frames) - 1
      /\ \A p \in 1 .. Len(frames) - 1 : c[p] = frames[p]
  BY <1>2 DEF c
<1>4. /\ Len(t) \in Nat /\ DOMAIN c = 1 .. Len(c) /\ DOMAIN t = 1 .. Len(t)
      /\ Len(c \o t) = Len(c) + Len(t)
      /\ \A i \in DOMAIN c : (c \o t)[i] = c[i]
      /\ \A i \in DOMAIN t : (c \o t)[Len(c) + i] = t[i]
  BY <1>3, CatFacts
<1>5. QED
  BY <1>1, <1>3, <1>4

\* The slots an activation of visit_if has still to visit.
Due(f, j) == f.pc = "conds" \/ (f.pc = "blocks" /\ (j >= f.i \/ j > Len(f.node.else_ifs)))

\* What is left of an activation holds no loop.
Spent(f, Free) ==
    /\ f.h = "block" => \A j \in DOMAIN f.node.stmts :
                           j >= f.i => LoopFree(f.node.stmts[j], Free)
    /\ f.h = "if"    => \A j \in Slots(f.node) :
                           Due(f, j) => Branch(f.node, j) \in Free \cup {Null}

\* An activation holds one loop at most.
Single(f, Free, One) ==
    /\ f.h = "block" => f.node \in One
    /\ f.h = "if"    => OneLoop(f.node, Free, One)

\* Activation p is that of the innermost loop around activation j.
Encloses(s, p, j) == s[p].h = "while" /\ p < j /\ \A q \in p + 1 .. j - 1 : s[q].h # "while"

\* What the activations s inside the loops are, if the loops so far are numbered up
\* to top: the loops on the stack are numbered one by one, and where one was closed
\* inside another, nothing is left that holds a loop.
Chain(s, top, Free, One) ==
    /\ \A p \in 1 .. Len(s) : s[p].h = "while" => s[p].mem <= top
    /\ \A p, q \in 1 .. Len(s) :
         p < q /\ s[p].h = "while" /\ s[q].h = "while" => s[p].mem < s[q].mem
    /\ \A p, j \in 1 .. Len(s) : Encloses(s, p, j) =>
         /\ Single(s[j], Free, One)
         /\ s[j].h = "while" => s[j].mem = s[p].mem + 1
         /\ s[p].mem # top => Spent(s[j], Free)
         /\ \A l \in 1 .. Len(s) :
              Encloses(s, p, l) /\ l # j => Spent(s[j], Free) \/ Spent(s[l], Free)

\* cur is the number of the innermost loop.
Numbered(s, cur) == \A p \in 1 .. Len(s) : Encloses(s, p, Len(s) + 1) => cur = s[p].mem

\* loop_num, when the label that a waiting `==' will print is counted off.
Current == flag.loop_num - flag.from_loop

\* What prints that label.
Closes(x) == \/ x.k = "looptarget"
             \/ x.k = "visit" /\ x.node.type = "BINARY_OP" /\ x.node.op = "OP_EQ"

Waiting ==
    /\ flag.from_loop \in {0, 1}
    /\ flag.from_loop = 1 => \E i \in DOMAIN todo : Closes(todo[i])

Looping(Free, One) ==
    /\ Chain(frames, lbl.mem_loop_num, Free, One)
    /\ Numbered(frames, Current)
    /\ Waiting

\* The numbers are ints.
LEMMA LoopNumbers ==
    ASSUME TypeInv
    PROVE  /\ lbl.mem_loop_num \in Nat /\ flag.loop_num \in Int /\ flag.from_loop \in Int
           /\ Current \in Int
           /\ \A p \in 1 .. Len(frames) : frames[p] \in Activations /\ frames[p].mem \in Nat
           /\ Len(frames) \in Nat
<1>1. /\ frames \in Seq(Activations) /\ flag \in [FlagNames -> Int] /\ lbl \in [LblNames -> Nat]
  BY DEF TypeInv
<1>2. {"loop_num", "from_loop"} \subseteq FlagNames /\ "mem_loop_num" \in LblNames
  BY DEF FlagNames, LblNames
<1>3. lbl.mem_loop_num \in Nat /\ flag.loop_num \in Int /\ flag.from_loop \in Int
  BY <1>1, <1>2
<1>4. Len(frames) \in Nat /\ \A p \in 1 .. Len(frames) : frames[p] \in Activations
  BY <1>1, LenProperties, ElementOfSeq
<1>5. \A p \in 1 .. Len(frames) : frames[p].mem \in Nat
  BY <1>4, ActivationShape
<1>6. QED
  BY <1>3, <1>4, <1>5 DEF Current

\* A step in which no loop begins or ends.
LEMMA ChainStays ==
    ASSUME TypeInv, frames # <<>>, NEW Free, NEW One, NEW top, Chain(frames, top, Free, One),
           NEW cur, Numbered(frames, cur), Top.h # "while",
           NEW T, NEW t \in Seq(T), frames' = Callers \o t,
           \A j \in 1 .. Len(t) : t[j].h # "while",
           Single(Top, Free, One) =>
             /\ \A j \in 1 .. Len(t) : Single(t[j], Free, One)
             /\ Spent(Top, Free) => \A j \in 1 .. Len(t) : Spent(t[j], Free)
             /\ \A j, l \in 1 .. Len(t) : j # l => Spent(t[j], Free) \/ Spent(t[l], Free)
    PROVE  Chain(frames', top, Free, One) /\ Numbered(frames', cur)
<1> DEFINE n == Len(frames)
           k == Len(t)
           s == frames
           r == frames'
<1>1. /\ n \in Nat \ {0} /\ k \in Nat
      /\ Len(r) = n - 1 + k
      /\ \A p \in 1 .. n - 1 : r[p] = s[p]
      /\ \A j \in 1 .. k : r[n - 1 + j] = t[j]
  BY Stacked
<1>2. s[n] = Top
  BY DEF Top
<1>3. Chain(s, top, Free, One) /\ Numbered(s, cur)
  OBVIOUS
<1>4. Len(s) = n
  OBVIOUS
<1> HIDE DEF n, k, s, r
<1>5. ASSUME NEW p \in 1 .. n - 1 + k
      PROVE  p \in 1 .. n - 1 \/ (p >= n /\ \E j \in 1 .. k : p = n - 1 + j /\ r[p] = t[j])
  <2>1. CASE p <= n - 1
    BY <1>1, <2>1
  <2>2. CASE p > n - 1
    <3>1. p - (n - 1) \in 1 .. k /\ p = n - 1 + (p - (n - 1)) /\ p >= n
      BY <1>1, <2>2
    <3>2. QED
      BY <1>1, <3>1
  <2>3. QED
    BY <1>1, <2>1, <2>2
<1>6. \A p \in 1 .. n - 1 + k : r[p].h = "while" => p \in 1 .. n - 1 /\ s[p].h = "while"
  BY <1>1, <1>5 DEF k
\* The loop around an activation is the one it was, and that around a new one the
\* one around the innermost.
<1>7. ASSUME NEW p \in 1 .. n - 1 + k, NEW j \in 1 .. n - 1 + k + 1, Encloses(r, p, j)
      PROVE  /\ p \in 1 .. n - 1 /\ r[p] = s[p]
             /\ j <= n - 1 => Encloses(s, p, j)
             /\ j >= n => Encloses(s, p, n) /\ Encloses(s, p, n + 1)
  <2>1. r[p].h = "while" /\ p < j /\ \A q \in p + 1 .. j - 1 : r[q].h # "while"
    BY <1>7 DEF Encloses
  <2>2. p \in 1 .. n - 1 /\ r[p] = s[p] /\ s[p].h = "while"
    BY <1>1, <1>6, <2>1
  <2>3. j <= n - 1 => Encloses(s, p, j)
    <3>1. ASSUME j <= n - 1, NEW q \in p + 1 .. j - 1 PROVE s[q].h # "while"
      <4>1. q \in 1 .. n - 1
        BY <1>1, <2>2, <3>1
      <4>2. QED
        BY <1>1, <2>1, <4>1
    <3>2. QED
      BY <2>1, <2>2, <3>1 DEF Encloses
  <2>4. ASSUME j >= n PROVE Encloses(s, p, n) /\ Encloses(s, p, n + 1)
    <3>1. ASSUME NEW q \in p + 1 .. n PROVE s[q].h # "while"
      <4>1. CASE q = n
        BY <1>2, <4>1
      <4>2. CASE q # n
        <5>1. q \in 1 .. n - 1 /\ q \in p + 1 .. j - 1
          BY <1>1, <2>2, <2>4, <4>2
        <5>2. QED
          BY <1>1, <2>1, <5>1
      <4>3. QED
        BY <4>1, <4>2
    <3>2. p < n /\ p < n + 1 /\ p + 1 .. n - 1 \subseteq p + 1 .. n
          /\ p + 1 .. (n + 1) - 1 = p + 1 .. n
      BY <1>1, <2>2
    <3>3. Encloses(s, p, n)
      BY <2>2, <3>1, <3>2, Zenon DEF Encloses
    <3>4. Encloses(s, p, n + 1)
      BY <2>2, <3>1, <3>2, Zenon DEF Encloses
    <3>5. QED
      BY <3>3, <3>4
  <2>5. QED
    BY <2>2, <2>3, <2>4
<1>8. n \in 1 .. n /\ 1 .. n - 1 \subseteq 1 .. n
  BY <1>1
<1>9. \A p, j \in 1 .. n : Encloses(s, p, j) =>
         /\ Single(s[j], Free, One)
         /\ s[j].h = "while" => s[j].mem = s[p].mem + 1
         /\ s[p].mem # top => Spent(s[j], Free)
         /\ \A l \in 1 .. n :
              Encloses(s, p, l) /\ l # j => Spent(s[j], Free) \/ Spent(s[l], Free)
  BY <1>3, <1>4 DEF Chain
<1>10. ASSUME NEW p \in 1 .. n - 1 + k, NEW j \in 1 .. n - 1 + k, Encloses(r, p, j)
       PROVE  /\ Single(r[j], Free, One)
              /\ r[j].h = "while" => r[j].mem = r[p].mem + 1
              /\ r[p].mem # top => Spent(r[j], Free)
              /\ \A l \in 1 .. n - 1 + k :
                   Encloses(r, p, l) /\ l # j => Spent(r[j], Free) \/ Spent(r[l], Free)
  <2>0. n - 1 + k \in Nat /\ 1 .. n - 1 + k \subseteq 1 .. n - 1 + k + 1
    BY <1>1
  <2>1. /\ p \in 1 .. n - 1 /\ r[p] = s[p]
        /\ \A l \in 1 .. n - 1 + k : Encloses(r, p, l) =>
             /\ l <= n - 1 => Encloses(s, p, l)
             /\ l >= n => Encloses(s, p, n)
    BY <1>7, <1>10, <2>0
  <2>2. p \in 1 .. n
    BY <1>8, <2>1
  <2>3. CASE j \in 1 .. n - 1
    <3>1. j \in 1 .. n /\ r[j] = s[j] /\ Encloses(s, p, j) /\ j <= n - 1
      BY <1>1, <1>8, <1>10, <2>1, <2>3
    <3>2. /\ Single(s[j], Free, One)
          /\ s[j].h = "while" => s[j].mem = s[p].mem + 1
          /\ s[p].mem # top => Spent(s[j], Free)
          /\ \A l \in 1 .. n :
               Encloses(s, p, l) /\ l # j => Spent(s[j], Free) \/ Spent(s[l], Free)
      BY <1>9, <2>2, <3>1
    <3>3. ASSUME NEW l \in 1 .. n - 1 + k, Encloses(r, p, l), l # j
          PROVE  Spent(r[j], Free) \/ Spent(r[l], Free)
      <4>1. CASE l \in 1 .. n - 1
        <5>1. l \in 1 .. n /\ l <= n - 1 /\ r[l] = s[l]
          BY <1>1, <1>8, <4>1
        <5>2. Encloses(s, p, l)
          BY <2>1, <3>3, <5>1
        <5>3. QED
          BY <3>1, <3>2, <3>3, <5>1, <5>2
      <4>2. CASE l >= n /\ \E i \in 1 .. k : l = n - 1 + i /\ r[l] = t[i]
        <5>1. Encloses(s, p, n) /\ n # j
          BY <1>1, <2>1, <2>3, <3>3, <4>2
        <5>2. Spent(s[j], Free) \/ Spent(s[n], Free)
          BY <1>8, <3>2, <5>1
        <5>3. Single(s[n], Free, One)
          BY <1>8, <1>9, <2>2, <5>1
        <5>4. Spent(s[n], Free) => \A i \in 1 .. k : Spent(t[i], Free)
          BY <1>2, <5>3 DEF k
        <5>5. QED
          BY <3>1, <4>2, <5>2, <5>4
      <4>3. QED
        BY <1>5, <4>1, <4>2
    <3>4. QED
      BY <2>1, <3>1, <3>2, <3>3
  <2>4. CASE j >= n /\ \E i \in 1 .. k : j = n - 1 + i /\ r[j] = t[i]
    <3>1. PICK i \in 1 .. k : j = n - 1 + i /\ r[j] = t[i]
      BY <2>4
    <3>2. Encloses(s, p, n)
      BY <1>10, <2>1, <2>4
    <3>3. /\ Single(s[n], Free, One)
          /\ s[p].mem # top => Spent(s[n], Free)
          /\ \A l \in 1 .. n : Encloses(s, p, l) /\ l # n => Spent(s[n], Free) \/ Spent(s[l], Free)
      BY <1>8, <1>9, <2>2, <3>2
    <3>4. /\ \A m \in 1 .. k : Single(t[m], Free, One)
          /\ Spent(s[n], Free) => \A m \in 1 .. k : Spent(t[m], Free)
          /\ \A m, l \in 1 .. k : m # l => Spent(t[m], Free) \/ Spent(t[l], Free)
      BY <1>2, <3>3 DEF k
    <3>5. t[i].h # "while"
      BY DEF k
    <3>6. ASSUME NEW l \in 1 .. n - 1 + k, Encloses(r, p, l), l # j
          PROVE  Spent(r[j], Free) \/ Spent(r[l], Free)
      <4>1. CASE l \in 1 .. n - 1
        <5>1. l \in 1 .. n /\ l <= n - 1 /\ r[l] = s[l] /\ l # n
          BY <1>1, <1>8, <4>1
        <5>2. Encloses(s, p, l)
          BY <2>1, <3>6, <5>1
        <5>3. QED
          BY <3>1, <3>3, <3>4, <5>1, <5>2
      <4>2. CASE l >= n /\ \E m \in 1 .. k : l = n - 1 + m /\ r[l] = t[m]
        <5>1. PICK m \in 1 .. k : l = n - 1 + m /\ r[l] = t[m]
          BY <4>2
        <5>2. m # i
          BY <3>1, <3>6, <5>1
        <5>3. QED
          BY <3>1, <3>4, <5>1, <5>2
      <4>3. QED
        BY <1>5, <4>1, <4>2
    <3>7. QED
      BY <2>1, <3>1, <3>3, <3>4, <3>5, <3>6
  <2>5. QED
    BY <1>5, <2>3, <2>4
<1>11. ASSUME NEW p \in 1 .. n - 1 + k, r[p].h = "while" PROVE r[p].mem <= top
  <2>1. p \in 1 .. n - 1 /\ s[p].h = "while" /\ r[p] = s[p] /\ p \in 1 .. n
    BY <1>1, <1>6, <1>8, <1>11
  <2>2. QED
    BY <1>3, <1>4, <2>1 DEF Chain
<1>12. ASSUME NEW p \in 1 .. n - 1 + k, NEW q \in 1 .. n - 1 + k,
              p < q, r[p].h = "while", r[q].h = "while"
       PROVE  r[p].mem < r[q].mem
  <2>1. /\ p \in 1 .. n - 1 /\ s[p].h = "while" /\ r[p] = s[p] /\ p \in 1 .. n
        /\ q \in 1 .. n - 1 /\ s[q].h = "while" /\ r[q] = s[q] /\ q \in 1 .. n
    BY <1>1, <1>6, <1>8, <1>12
  <2>2. QED
    BY <1>3, <1>4, <1>12, <2>1 DEF Chain
<1>13. Chain(r, top, Free, One)
  BY <1>1, <1>10, <1>11, <1>12 DEF Chain
<1>14. ASSUME NEW p \in 1 .. n - 1 + k, Encloses(r, p, n - 1 + k + 1) PROVE cur = r[p].mem
  <2>1. n - 1 + k + 1 \in 1 .. n - 1 + k + 1 /\ n - 1 + k + 1 >= n
    BY <1>1
  <2>2. p \in 1 .. n - 1 /\ r[p] = s[p] /\ Encloses(s, p, n + 1)
    BY <1>7, <1>14, <2>1
  <2>3. QED
    BY <1>3, <1>4, <1>8, <2>2 DEF Numbered
<1>15. Numbered(r, cur)
  BY <1>1, <1>14 DEF Numbered
<1>16. QED
  BY <1>13, <1>15 DEF r

\* A loop is entered: it is the one that the loop around it may hold.
LEMMA ChainLonger ==
    ASSUME TypeInv, frames # <<>>, NEW Free, NEW One, NEW top \in Nat, Chain(frames, top, Free, One),
           Top.h # "while", ~Spent(Top, Free),
           NEW m, NEW w, NEW b, frames' = Callers \o <<m, w, b>>,
           m.h # "while", w.h = "while", b.h # "while", w.mem = top + 1,
           Single(Top, Free, One) => Single(m, Free, One) /\ Spent(m, Free),
           Single(b, Free, One)
    PROVE  Chain(frames', top + 1, Free, One) /\ Numbered(frames', top + 1)
<1> DEFINE n == Len(frames)
           s == frames
           r == frames'
           t == <<m, w, b>>
<1>1. t \in Seq({m, w, b}) /\ Len(t) = 3 /\ t[1] = m /\ t[2] = w /\ t[3] = b /\ frames' = Callers \o t
  OBVIOUS
<1> HIDE DEF t
<1>2. /\ n \in Nat \ {0}
      /\ Len(r) = n - 1 + 3
      /\ \A p \in 1 .. n - 1 : r[p] = s[p]
      /\ \A j \in 1 .. 3 : r[n - 1 + j] = t[j]
  BY <1>1, Stacked, ZenonT(30)
<1>3. s[n] = Top /\ Len(s) = n
  BY DEF Top
<1>4. Chain(s, top, Free, One)
  OBVIOUS
<1>5. \A p \in 1 .. n : s[p].mem \in Nat
  BY LoopNumbers
<1> HIDE DEF n, s, r
<1>6. Len(r) = n + 2 /\ r[n] = m /\ r[n + 1] = w /\ r[n + 2] = b
  <2>1. n - 1 + 1 = n /\ n - 1 + 2 = n + 1 /\ n - 1 + 3 = n + 2
    BY <1>2, SMTT(30)
  <2>2. r[n - 1 + 1] = t[1] /\ r[n - 1 + 2] = t[2] /\ r[n - 1 + 3] = t[3]
    BY <1>2
  <2>3. QED
    BY <1>1, <1>2, <2>1, <2>2
<1>7. \A p \in 1 .. n + 2 : p \in 1 .. n - 1 \/ p = n \/ p = n + 1 \/ p = n + 2
  BY <1>2
<1>8. ASSUME NEW p \in 1 .. n + 2, r[p].h = "while"
      PROVE  p = n + 1 \/ (p \in 1 .. n - 1 /\ p \in 1 .. n /\ r[p] = s[p] /\ s[p].h = "while")
  <2>1. p \in 1 .. n - 1 => p \in 1 .. n
    BY <1>2
  <2>2. p # n /\ p # n + 2
    BY <1>6, <1>8
  <2>3. QED
    BY <1>2, <1>7, <1>8, <2>1, <2>2
<1>9. \A p, j \in 1 .. n : Encloses(s, p, j) =>
         /\ Single(s[j], Free, One)
         /\ s[j].h = "while" => s[j].mem = s[p].mem + 1
         /\ s[p].mem # top => Spent(s[j], Free)
         /\ \A l \in 1 .. n :
              Encloses(s, p, l) /\ l # j => Spent(s[j], Free) \/ Spent(s[l], Free)
  BY <1>3, <1>4 DEF Chain
<1>10. /\ \A p \in 1 .. n : s[p].h = "while" => s[p].mem <= top
       /\ \A p, q \in 1 .. n :
            p < q /\ s[p].h = "while" /\ s[q].h = "while" => s[p].mem < s[q].mem
  BY <1>3, <1>4 DEF Chain
<1>11. n \in 1 .. n /\ 1 .. n - 1 \subseteq 1 .. n
  BY <1>2, SMTT(30)
\* Where the innermost activation is in a loop, nothing was closed in that loop.
<1>12. ASSUME NEW p \in 1 .. n, Encloses(s, p, n)
       PROVE  s[p].mem = top /\ Single(Top, Free, One)
  BY <1>3, <1>9, <1>11, <1>12
\* And nothing else in the loops around holds a loop.
<1>13. ASSUME NEW p \in 1 .. n - 1, NEW j \in 1 .. n - 1, Encloses(s, p, j)
       PROVE  Spent(s[j], Free)
  <2>1. p \in 1 .. n /\ j \in 1 .. n /\ j # n /\ s[p].h = "while"
    BY <1>2, <1>11, <1>13 DEF Encloses
  <2>2. CASE Encloses(s, p, n)
    BY <1>3, <1>9, <1>11, <1>13, <2>1, <2>2
  <2>3. CASE ~Encloses(s, p, n)
    <3>1. p < n
      BY <1>2
    <3>2. PICK q \in p + 1 .. n - 1 : s[q].h = "while"
      BY <2>1, <2>3, <3>1 DEF Encloses
    <3>3. q \in 1 .. n /\ p < q
      BY <1>2, <2>1
    <3>4. s[p].mem < s[q].mem /\ s[q].mem <= top /\ s[p].mem \in Nat /\ s[q].mem \in Nat
      BY <1>5, <1>10, <2>1, <3>2, <3>3
    <3>5. s[p].mem # top
      BY <3>4, SMTT(30)
    <3>6. QED
      BY <1>9, <1>13, <2>1, <3>5
  <2>4. QED
    BY <2>2, <2>3
<1>14. ASSUME NEW p \in 1 .. n + 2, NEW j \in 1 .. n + 2, Encloses(r, p, j)
       PROVE  \/ p = n + 1 /\ j = n + 2
              \/ /\ p \in 1 .. n - 1 /\ p \in 1 .. n /\ r[p] = s[p] /\ s[p].h = "while"
                 /\ \/ j \in 1 .. n - 1 /\ Encloses(s, p, j)
                    \/ j \in {n, n + 1} /\ Encloses(s, p, n)
  <2>1. r[p].h = "while" /\ p < j /\ \A q \in p + 1 .. j - 1 : r[q].h # "while"
    BY <1>14 DEF Encloses
  <2>2. CASE p = n + 1
    BY <1>2, <2>1, <2>2
  <2>3. CASE p # n + 1
    <3>1. p \in 1 .. n - 1 /\ p \in 1 .. n /\ r[p] = s[p] /\ s[p].h = "while"
      BY <1>8, <2>1, <2>3
    <3>2. j # n + 2
      <4>1. SUFFICES ASSUME j = n + 2 PROVE FALSE
        OBVIOUS
      <4>2. n + 1 \in p + 1 .. j - 1
        BY <1>2, <3>1, <4>1
      <4>3. r[n + 1].h # "while"
        BY <2>1, <4>2
      <4>4. QED
        BY <1>6, <4>3
    <3>3. ASSUME NEW l \in 1 .. n, l <= j, p < l PROVE Encloses(s, p, l)
      <4>1. ASSUME NEW q \in p + 1 .. l - 1 PROVE s[q].h # "while"
        <5>1. q \in 1 .. n - 1 /\ q \in p + 1 .. j - 1
          BY <1>2, <3>1, <3>3
        <5>2. QED
          BY <1>2, <2>1, <5>1
      <4>2. QED
        BY <3>1, <3>3, <4>1 DEF Encloses
    <3>4. CASE j \in 1 .. n - 1
      <4>1. j \in 1 .. n /\ j <= j
        BY <1>2, <3>4
      <4>2. QED
        BY <2>1, <3>1, <3>3, <3>4, <4>1
    <3>5. CASE j \in {n, n + 1}
      <4>1. n \in 1 .. n /\ n <= j /\ p < n
        BY <1>2, <3>1, <3>5
      <4>2. QED
        BY <3>1, <3>3, <3>5, <4>1
    <3>6. QED
      BY <1>7, <3>2, <3>4, <3>5
  <2>4. QED
    BY <2>2, <2>3
<1>15. Spent(w, Free) /\ Single(w, Free, One)
  BY DEF Spent, Single
<1>16. ASSUME NEW p \in 1 .. n + 2, NEW j \in 1 .. n + 2, Encloses(r, p, j)
       PROVE  /\ Single(r[j], Free, One)
              /\ r[j].h = "while" => r[j].mem = r[p].mem + 1
              /\ p # n + 1 => Spent(r[j], Free)
  <2>1. CASE p = n + 1 /\ j = n + 2
    BY <1>6, <2>1
  <2>2. CASE p # n + 1 /\ j \in 1 .. n - 1
    <3>1. p \in 1 .. n - 1 /\ p \in 1 .. n /\ r[p] = s[p] /\ Encloses(s, p, j)
      BY <1>2, <1>14, <1>16, <2>2
    <3>2. j \in 1 .. n /\ r[j] = s[j]
      BY <1>2, <2>2, <1>11
    <3>3. Spent(s[j], Free)
      BY <1>13, <2>2, <3>1
    <3>4. QED
      BY <1>9, <3>1, <3>2, <3>3
  <2>3. CASE p # n + 1 /\ j = n
    <3>1. p \in 1 .. n /\ Encloses(s, p, n)
      BY <1>2, <1>14, <1>16, <2>3
    <3>2. QED
      BY <1>6, <1>12, <2>3, <3>1
  <2>4. CASE p # n + 1 /\ j = n + 1
    <3>1. p \in 1 .. n /\ Encloses(s, p, n) /\ r[p] = s[p]
      BY <1>2, <1>14, <1>16, <2>4
    <3>2. s[p].mem = top
      BY <1>12, <3>1
    <3>3. QED
      BY <1>6, <1>15, <2>4, <3>1, <3>2
  <2>5. QED
    <3>1. CASE p = n + 1
      <4>1. ~(p \in 1 .. n)
        BY <1>2, <3>1
      <4>2. j = n + 2
        BY <1>14, <1>16, <4>1
      <4>3. QED
        BY <2>1, <3>1, <4>2
    <3>2. CASE p # n + 1
      <4>1. j \in 1 .. n - 1 \/ j = n \/ j = n + 1
        BY <1>14, <1>16, <3>2
      <4>2. QED
        BY <2>2, <2>3, <2>4, <3>2, <4>1
    <3>3. QED
      BY <3>1, <3>2
<1>17. ASSUME NEW p \in 1 .. n + 2, r[p].h = "while"
       PROVE  /\ r[p].mem <= top + 1
              /\ p # n + 1 => r[p].mem < top + 1 /\ p < n + 1 /\ p \in 1 .. n /\ r[p] = s[p]
              /\ p = n + 1 => r[p].mem = top + 1
  <2>1. CASE p = n + 1
    BY <1>6, <2>1
  <2>2. CASE p # n + 1
    <3>1. p \in 1 .. n - 1 /\ p \in 1 .. n /\ r[p] = s[p] /\ s[p].h = "while"
      BY <1>8, <1>17, <2>2
    <3>2. s[p].mem <= top /\ s[p].mem \in Nat
      BY <1>5, <1>10, <3>1
    <3>3. p < n + 1
      BY <1>2, <3>1
    <3>4. QED
      BY <2>2, <3>1, <3>2, <3>3
  <2>3. QED
    BY <2>1, <2>2
<1>18. ASSUME NEW p \in 1 .. n + 2, NEW q \in 1 .. n + 2, p < q, r[p].h = "while", r[q].h = "while"
       PROVE  r[p].mem < r[q].mem
  <2>1. p # n + 1
    <3>1. q # n + 1 => q < n + 1
      BY <1>17, <1>18
    <3>2. QED
      BY <1>2, <1>18, <3>1
  <2>2. CASE q = n + 1
    BY <1>17, <1>18, <2>1, <2>2
  <2>3. CASE q # n + 1
    <3>1. p \in 1 .. n /\ q \in 1 .. n /\ r[p] = s[p] /\ r[q] = s[q]
      BY <1>17, <1>18, <2>1, <2>3
    <3>2. QED
      BY <1>10, <1>18, <3>1
  <2>4. QED
    BY <2>2, <2>3
<1>19. ASSUME NEW p \in 1 .. n + 2, NEW j \in 1 .. n + 2, Encloses(r, p, j)
       PROVE  /\ Single(r[j], Free, One)
              /\ r[j].h = "while" => r[j].mem = r[p].mem + 1
              /\ r[p].mem # top + 1 => Spent(r[j], Free)
              /\ \A l \in 1 .. n + 2 :
                   Encloses(r, p, l) /\ l # j => Spent(r[j], Free) \/ Spent(r[l], Free)
  <2>1. r[p].h = "while"
    BY <1>19 DEF Encloses
  <2>2. r[p].mem # top + 1 => p # n + 1
    BY <1>17, <2>1
  <2>3. ASSUME NEW l \in 1 .. n + 2, Encloses(r, p, l), l # j
        PROVE  Spent(r[j], Free) \/ Spent(r[l], Free)
    <3>1. CASE p # n + 1
      BY <1>16, <1>19, <3>1
    <3>2. CASE p = n + 1
      <4>1. ~(p \in 1 .. n)
        BY <1>2, <3>2
      <4>2. j = n + 2 /\ l = n + 2
        BY <1>14, <1>19, <2>3, <4>1
      <4>3. QED
        BY <2>3, <4>2
    <3>3. QED
      BY <3>1, <3>2
  <2>4. QED
    BY <1>16, <1>19, <2>2, <2>3
<1>20. Chain(r, top + 1, Free, One)
  <2> DEFINE k == n + 2
  <2>1. k = Len(r)
    BY <1>6
  <2>2. \A p \in 1 .. k : r[p].h = "while" => r[p].mem <= top + 1
    BY <1>17
  <2>3. \A p, q \in 1 .. k : p < q /\ r[p].h = "while" /\ r[q].h = "while" => r[p].mem < r[q].mem
    BY <1>18
  <2>4. \A p, j \in 1 .. k : Encloses(r, p, j) =>
          /\ Single(r[j], Free, One)
          /\ r[j].h = "while" => r[j].mem = r[p].mem + 1
          /\ r[p].mem # top + 1 => Spent(r[j], Free)
          /\ \A l \in 1 .. k :
               Encloses(r, p, l) /\ l # j => Spent(r[j], Free) \/ Spent(r[l], Free)
    BY <1>19
  <2> HIDE DEF k
  <2>5. QED
    BY <2>1, <2>2, <2>3, <2>4 DEF Chain
<1>21. ASSUME NEW p \in 1 .. n + 2, NEW k, k = n + 3, Encloses(r, p, k) PROVE top + 1 = r[p].mem
  <2>1. r[p].h = "while" /\ \A q \in p + 1 .. k - 1 : r[q].h # "while"
    BY <1>21 DEF Encloses
  <2>2. CASE p = n + 1
    BY <1>17, <2>1, <2>2
  <2>3. CASE p # n + 1
    <3>1. p < n + 1
      BY <1>17, <2>1, <2>3
    <3>2. n + 1 \in p + 1 .. k - 1
      BY <1>2, <1>21, <3>1
    <3>3. r[n + 1].h # "while"
      BY <2>1, <3>2
    <3>4. QED
      BY <1>6, <3>3
  <2>4. QED
    BY <2>2, <2>3
<1>22. Numbered(r, top + 1)
  <2> DEFINE k == n + 2
             l == k + 1
  <2>0. l = n + 3
    BY <1>2
  <2> HIDE DEF l
  <2>1. k = Len(r) /\ \A p \in 1 .. k : Encloses(r, p, l) => top + 1 = r[p].mem
    BY <1>6, <1>21, <2>0
  <2> HIDE DEF k
  <2>2. QED
    BY <2>1 DEF Numbered, l
<1>23. QED
  BY <1>20, <1>22 DEF r

\* A loop is left: the one around it is its number less one.
LEMMA ChainShorter ==
    ASSUME TypeInv, frames # <<>>, NEW Free, NEW One, NEW top, Chain(frames, top, Free, One),
           NEW cur, Numbered(frames, cur), Top.h = "while", frames' = Callers
    PROVE  Chain(frames', top, Free, One) /\ Numbered(frames', cur - 1)
<1> DEFINE n == Len(frames)
           s == frames
           r == frames'
           t == <<>>
<1>1. t \in Seq({}) /\ Len(t) = 0 /\ frames' = Callers \o t
  <2>1. Callers \in Seq(Activations)
    BY TopFacts
  <2>2. Callers \o <<>> = Callers
    BY <2>1, ConcatProperties
  <2>3. QED
    BY <2>2
<1> HIDE DEF t
<1>2. /\ n \in Nat \ {0} /\ Len(r) = n - 1 + 0
      /\ \A p \in 1 .. n - 1 : r[p] = s[p]
  BY <1>1, Stacked
<1>3. s[n] = Top /\ Len(s) = n
  BY DEF Top
<1>4. Chain(s, top, Free, One) /\ Numbered(s, cur)
  OBVIOUS
<1>5. \A p \in 1 .. n : s[p].mem \in Nat
  BY LoopNumbers
<1> HIDE DEF n, s, r
<1>6. Len(r) = n - 1 /\ n \in 1 .. n /\ 1 .. n - 1 \subseteq 1 .. n
  BY <1>2
<1>7. ASSUME NEW p \in 1 .. n - 1, NEW j \in 1 .. n, Encloses(r, p, j)
      PROVE  Encloses(s, p, j)
  <2>1. r[p].h = "while" /\ p < j /\ \A q \in p + 1 .. j - 1 : r[q].h # "while"
    BY <1>7 DEF Encloses
  <2>2. ASSUME NEW q \in p + 1 .. j - 1 PROVE s[q].h # "while"
    <3>1. q \in 1 .. n - 1
      BY <1>2
    <3>2. QED
      BY <1>2, <2>1, <3>1
  <2>3. QED
    BY <1>2, <2>1, <2>2 DEF Encloses
<1>8. Chain(r, top, Free, One)
  <2>1. ASSUME NEW p \in 1 .. n - 1, NEW j \in 1 .. n - 1, Encloses(r, p, j)
        PROVE  /\ Single(r[j], Free, One)
               /\ r[j].h = "while" => r[j].mem = r[p].mem + 1
               /\ r[p].mem # top => Spent(r[j], Free)
               /\ \A l \in 1 .. n - 1 :
                    Encloses(r, p, l) /\ l # j => Spent(r[j], Free) \/ Spent(r[l], Free)
    <3>1. /\ p \in 1 .. n /\ j \in 1 .. n /\ r[p] = s[p] /\ r[j] = s[j]
          /\ \A l \in 1 .. n - 1 : l \in 1 .. n /\ r[l] = s[l]
      BY <1>2, <1>6
    <3>2. /\ Encloses(s, p, j)
          /\ \A l \in 1 .. n - 1 : Encloses(r, p, l) => Encloses(s, p, l)
      BY <1>7, <2>1, <3>1
    <3>3. /\ Single(s[j], Free, One)
          /\ s[j].h = "while" => s[j].mem = s[p].mem + 1
          /\ s[p].mem # top => Spent(s[j], Free)
          /\ \A l \in 1 .. n :
               Encloses(s, p, l) /\ l # j => Spent(s[j], Free) \/ Spent(s[l], Free)
      BY <1>3, <1>4, <3>1, <3>2 DEF Chain
    <3>4. QED
      BY <3>1, <3>2, <3>3
  <2>2. /\ \A p \in 1 .. n - 1 : r[p].h = "while" => r[p].mem <= top
        /\ \A p, q \in 1 .. n - 1 :
             p < q /\ r[p].h = "while" /\ r[q].h = "while" => r[p].mem < r[q].mem
    BY <1>2, <1>3, <1>4, <1>6 DEF Chain
  <2>3. QED
    BY <1>6, <2>1, <2>2 DEF Chain
<1>9. ASSUME NEW p \in 1 .. n - 1, Encloses(r, p, n) PROVE cur - 1 = r[p].mem
  <2>1. p \in 1 .. n /\ r[p] = s[p] /\ Encloses(s, p, n)
    BY <1>2, <1>6, <1>7, <1>9
  <2>2. s[n].mem = s[p].mem + 1
    BY <1>3, <1>4, <1>6, <2>1 DEF Chain
  <2>3. Encloses(s, n, n + 1)
    <3>1. n < n + 1 /\ n + 1 .. n + 1 - 1 = {}
      BY <1>2
    <3>2. QED
      BY <1>3, <3>1 DEF Encloses
  <2>4. cur = s[n].mem
    BY <1>3, <1>4, <1>6, <2>3 DEF Numbered
  <2>5. QED
    BY <1>5, <2>1, <2>2, <2>4
<1>10. Numbered(r, cur - 1)
  <2>1. n - 1 + 1 = n
    BY <1>2
  <2>2. QED
    BY <1>6, <1>9, <2>1 DEF Numbered
<1>11. QED
  BY <1>8, <1>10 DEF r

-----------------------------------------------------------------------------
(* Expressions: a waiting label is printed.                                 *)

Shows(s) == \E i \in DOMAIN s : Closes(s[i])

\* Of two lists, one is enough,
LEMMA ShowsCat ==
    ASSUME NEW s, NEW t, ItemsOK(s), ItemsOK(t), Shows(s) \/ Shows(t)
    PROVE  Shows(s \o t)
<1>1. s \in Seq(Elements(s)) /\ t \in Seq(Elements(t))
  BY DEF ItemsOK
<1> DEFINE S == Elements(s)
           T == Elements(t)
<1>2. s \in Seq(S) /\ t \in Seq(T)
  BY <1>1
<1> HIDE DEF S, T
<1>3. /\ DOMAIN s = 1 .. Len(s) /\ DOMAIN t = 1 .. Len(t)
      /\ DOMAIN (s \o t) = 1 .. (Len(s) + Len(t)) /\ Len(s) \in Nat /\ Len(t) \in Nat
      /\ \A i \in DOMAIN s : (s \o t)[i] = s[i]
      /\ \A i \in DOMAIN t : (s \o t)[Len(s) + i] = t[i]
  BY <1>2, CatFacts
<1> DEFINE r == s \o t
<1> HIDE DEF r
<1>4. /\ DOMAIN r = 1 .. (Len(s) + Len(t))
      /\ \A i \in DOMAIN s : r[i] = s[i]
      /\ \A i \in DOMAIN t : r[Len(s) + i] = t[i]
  BY <1>3 DEF r
<1>5. CASE Shows(s)
  <2>1. PICK i \in DOMAIN s : Closes(s[i])
    BY <1>5 DEF Shows
  <2>2. i \in DOMAIN r /\ Closes(r[i])
    BY <1>3, <1>4, <2>1
  <2>3. QED
    BY <2>2 DEF Shows, r
<1>6. CASE Shows(t)
  <2>1. PICK i \in DOMAIN t : Closes(t[i])
    BY <1>6 DEF Shows
  <2>2. Len(s) + i \in DOMAIN r /\ Closes(r[Len(s) + i])
    BY <1>3, <1>4, <2>1
  <2>3. QED
    BY <2>2 DEF Shows, r
<1>7. QED
  BY <1>5, <1>6

\* and an item that is not the one leaves it behind.
LEMMA ShowsTail ==
    ASSUME NEW s, ItemsOK(s), s # <<>>, Shows(s), ~Closes(Head(s))
    PROVE  Shows(Tail(s))
<1> DEFINE S == Elements(s)
           r == Tail(s)
<1>1. s \in Seq(S)
  BY DEF ItemsOK
<1> HIDE DEF S
<1>2. /\ DOMAIN s = 1 .. Len(s) /\ Len(s) \in Nat /\ Head(s) = s[1]
      /\ DOMAIN r = 1 .. Len(r) /\ Len(r) = Len(s) - 1
      /\ \A i \in 1 .. Len(r) : r[i] = s[i + 1]
  <2>1. r \in Seq(S) /\ Len(r) = Len(s) - 1 /\ \A i \in 1 .. Len(s) - 1 : r[i] = s[i + 1]
    BY <1>1, HeadTailProperties
  <2>2. QED
    BY <1>1, <2>1, LenProperties
<1> HIDE DEF r
<1>3. PICK i \in DOMAIN s : Closes(s[i])
  BY DEF Shows
<1>4. i # 1
  BY <1>2, <1>3
<1>5. i - 1 \in DOMAIN r /\ r[i - 1] = s[i]
  <2>1. i - 1 \in 1 .. Len(r) /\ (i - 1) + 1 = i
    BY <1>2, <1>4
  <2>2. QED
    BY <1>2, <2>1
<1>6. QED
  BY <1>3, <1>5 DEF Shows, r

\* What is left behind tokens still shows it.
LEMMA ShowsPart ==
    ASSUME NEW s, ItemsOK(s), Shows(s), NEW n \in 1 .. Len(s),
           \A i \in 1 .. n : s[i].k \in Plain
    PROVE  Shows(SubSeq(s, n + 1, Len(s)))
<1> DEFINE S == Elements(s)
           r == SubSeq(s, n + 1, Len(s))
<1>1. s \in Seq(S)
  BY DEF ItemsOK
<1> HIDE DEF S
<1>2. DOMAIN s = 1 .. Len(s) /\ Len(s) \in Nat
  BY <1>1, LenProperties
<1>3. Len(r) = Len(s) - n /\ DOMAIN r = 1 .. Len(s) - n /\ \A i \in 1 .. Len(s) - n : r[i] = s[n + i]
  <2> DEFINE m == n + 1
             k == Len(s)
  <2>1. m \in Int /\ k \in Int /\ k \in Nat /\ \A i \in m .. k : s[i] \in S
    BY <1>1, <1>2, ElementOfSeq
  <2>2. r = SubSeq(s, m, k)
    OBVIOUS
  <2>3. /\ n <= k
        /\ m <= k => k - m + 1 = k - n
        /\ ~(m <= k) => k - n = 0
        /\ k - m + 1 = k - n
        /\ \A i \in 1 .. k - n : m + i - 1 = n + i
    <3>1. ASSUME NEW z \in Nat, NEW x \in 1 .. z
          PROVE  /\ x <= z
                 /\ x + 1 <= z => z - (x + 1) + 1 = z - x
                 /\ ~(x + 1 <= z) => z - x = 0
                 /\ z - (x + 1) + 1 = z - x
                 /\ \A i \in 1 .. z - x : x + 1 + i - 1 = x + i
      BY SMT
    <3>2. n \in 1 .. k
      OBVIOUS
    <3> HIDE DEF k
    <3>3. QED
      BY <2>1, <3>1, <3>2
  <2> HIDE DEF m, k, r
  <2>4. /\ r \in Seq(S)
        /\ Len(r) = IF m <= k THEN k - m + 1 ELSE 0
        /\ \A i \in 1 .. k - m + 1 : r[i] = s[m + i - 1]
    BY <2>1, <2>2, SubSeqProperties
  <2>5. Len(r) = k - n /\ \A i \in 1 .. k - n : r[i] = s[n + i]
    BY <2>3, <2>4
  <2>6. DOMAIN r = 1 .. Len(r)
    BY <2>4, LenProperties
  <2>7. QED
    BY <2>5, <2>6 DEF k
<1> HIDE DEF r
<1>4. PICK i \in DOMAIN s : Closes(s[i])
  BY DEF Shows
<1>5. ~(i <= n)
  <2>1. SUFFICES ASSUME i <= n PROVE FALSE
    OBVIOUS
  <2>2. i \in 1 .. n
    BY <1>2, <2>1
  <2>3. s[i].k \in Plain
    BY <2>2
  <2>4. QED
    BY <1>4, <2>3 DEF Closes, Plain
<1>6. i - n \in 1 .. Len(s) - n /\ n + (i - n) = i
  BY <1>2, <1>5
<1>7. i - n \in DOMAIN r /\ r[i - n] = s[i]
  BY <1>3, <1>6
<1>8. QED
  BY <1>4, <1>7 DEF Shows, r

\* `==' prints its label in the end.
LEMMA EqualShows ==
    ASSUME NEW n, n.type = "BINARY_OP", n.op = "OP_EQ", Visitable(n.left), Visitable(n.right)
    PROVE  Shows(emit_op(n))
<1> DEFINE t == <<Op("JUMPIFEQ"), IfTarget, LoopTarget>>
<1>1. emit_op(n) = TypeCheck(n) \o t
  BY DEF emit_op
<1>2. ItemsOK(t)
  BY ItemFacts, ThreeOK
<1>3. ItemsOK(TypeCheck(n))
  BY TypeCheckOK
<1>4. Shows(t)
  <2>1. 3 \in DOMAIN t /\ t[3] = LoopTarget
    OBVIOUS
  <2>2. Closes(t[3])
    BY <2>1 DEF Closes, LoopTarget
  <2>3. QED
    BY <2>1, <2>2 DEF Shows
<1> HIDE DEF t
<1>5. QED
  BY <1>1, <1>2, <1>3, <1>4, ShowsCat

\* Only the label of `==' moves what counts the loops.
LEMMA LoopFlagsStay ==
    ASSUME TypeInv, ExpressionStep, ~PrintLoopTarget
    PROVE  flag'.loop_num = flag.loop_num /\ flag'.from_loop = flag.from_loop
<1>1. /\ ItemsOK(todo) /\ flag \in [FlagNames -> Int]
      /\ {"loop_num", "from_loop"} \subseteq FlagNames
  BY DEF TypeInv, FlagNames
<1>2. CASE Assign
  <2>1. todo # <<>> /\ Head(todo).k \in {"add", "set"}
    BY <1>2 DEF Assign, Doing
  <2>2. Head(todo).s # "loop_num" /\ Head(todo).s # "from_loop"
    BY <1>1, <2>1, RestOK DEF ItemOK, LoopFlags
  <2>3. QED
    BY <1>1, <1>2, <2>2 DEF Assign
<1>3. CASE PrintTokens \/ PrintTypeGuard \/ PrintIfTarget \/ PrintResIfRef \/ PrintDivLabel
  <2>1. UNCHANGED flag \/ flag' = [flag EXCEPT !.from_if = @ - 1]
    BY <1>3 DEF PrintTokens, PrintTypeGuard, PrintIfTarget, PrintResIfRef, PrintDivLabel
  <2>2. QED
    BY <1>1, <2>1
<1>4. CASE \/ visit_number \/ visit_string \/ visit_id \/ visit_decl \/ visit_unary_op
           \/ visit_binary_op \/ visit_call \/ visit_dim \/ visit_return \/ visit_silent
           \/ visit_params
  BY <1>4 DEF visit_number, visit_string, visit_id, visit_decl, visit_unary_op,
     visit_binary_op, visit_call, visit_dim, visit_return, visit_silent, visit_params
<1>5. QED
  BY <1>2, <1>3, <1>4 DEF ExpressionStep

\* No expression changes the number of the loop it is in, when the label that a
\* waiting `==' will print is counted off.
LEMMA ExpressionLoops ==
    ASSUME TypeInv, Waiting, ExpressionStep
    PROVE  Waiting' /\ Current' = Current
<1>1. ItemsOK(todo) /\ flag \in [FlagNames -> Int]
  BY DEF TypeInv
<1>2. flag.loop_num \in Int /\ flag.from_loop \in {0, 1}
  BY LoopNumbers DEF Waiting
<1>3. flag.from_loop = 1 => Shows(todo)
  BY DEF Waiting, Shows
<1>4. SUFFICES /\ flag'.loop_num - flag'.from_loop = flag.loop_num - flag.from_loop
               /\ flag'.from_loop \in {0, 1} /\ (flag'.from_loop = 1 => Shows(todo'))
  BY DEF Current, Waiting, Shows
<1>5. CASE PrintTokens
  <2>1. PICK n \in 1 .. Len(todo) : /\ \A i \in 1 .. n : todo[i].k \in Plain
                                    /\ todo' = SubSeq(todo, n + 1, Len(todo))
    BY <1>5 DEF PrintTokens
  <2>2. UNCHANGED flag
    BY <1>5 DEF PrintTokens
  <2>3. Shows(todo) => Shows(todo')
    BY <1>1, <2>1, ShowsPart
  <2>4. QED
    BY <1>2, <1>3, <2>2, <2>3
<1>6. ASSUME todo # <<>>, todo' = <<>> \o Tail(todo), ~Closes(Head(todo)), Shows(todo)
      PROVE  Shows(todo')
  <2>1. Shows(Tail(todo))
    BY <1>1, <1>6, ShowsTail
  <2>2. ItemsOK(Tail(todo)) /\ ItemsOK(<<>>)
    BY <1>1, <1>6, RestOK, NoneOK
  <2>3. Shows(<<>> \o Tail(todo))
    BY <2>1, <2>2, ShowsCat
  <2>4. QED
    BY <1>6, <2>3
<1>7. CASE Assign
  <2>1. todo # <<>> /\ todo' = <<>> \o Tail(todo) /\ Head(todo).k \in {"add", "set"}
    BY <1>7 DEF Assign, Doing, Do
  <2>2. Head(todo).s \notin LoopFlags
    BY <1>1, <2>1, RestOK DEF ItemOK
  <2>3. flag'.loop_num = flag.loop_num /\ flag'.from_loop = flag.from_loop
    <3>1. {"loop_num", "from_loop"} \subseteq FlagNames
      BY DEF FlagNames
    <3>2. Head(todo).s # "loop_num" /\ Head(todo).s # "from_loop"
      BY <2>2 DEF LoopFlags
    <3>3. QED
      BY <1>1, <1>7, <3>1, <3>2 DEF Assign
  <2>4. ~Closes(Head(todo))
    BY <2>1 DEF Closes
  <2>5. QED
    BY <1>2, <1>3, <1>6, <2>1, <2>3, <2>4
<1>8. CASE PrintLoopTarget
  <2>1. todo # <<>> /\ {"loop_num", "from_loop"} \subseteq FlagNames
    BY <1>8 DEF PrintLoopTarget, Doing, FlagNames
  <2>2. CASE flag.from_loop = 1
    <3>1. flag' = [flag EXCEPT !.loop_num = @ - 1, !.from_loop = @ - 1]
      BY <1>8, <2>2 DEF PrintLoopTarget
    <3>2. flag'.loop_num = flag.loop_num - 1 /\ flag'.from_loop = 0
      BY <1>1, <2>1, <2>2, <3>1
    <3>3. QED
      BY <1>2, <2>2, <3>2
  <2>3. CASE flag.from_loop # 1
    BY <1>2, <1>8, <2>3 DEF PrintLoopTarget
  <2>4. QED
    BY <2>2, <2>3
<1>9. CASE PrintTypeGuard \/ PrintIfTarget \/ PrintResIfRef \/ PrintDivLabel
  <2>1. todo # <<>> /\ todo' = <<>> \o Tail(todo)
        /\ Head(todo).k \in {"typeguard", "iftarget", "resifref", "divref", "divdef"}
    BY <1>9 DEF PrintTypeGuard, PrintIfTarget, PrintResIfRef, PrintDivLabel, Doing, Do
  <2>2. ~Closes(Head(todo))
    BY <2>1 DEF Closes
  <2>3. flag'.loop_num = flag.loop_num /\ flag'.from_loop = flag.from_loop
    <3>1. UNCHANGED flag \/ flag' = [flag EXCEPT !.from_if = @ - 1]
      BY <1>9 DEF PrintTypeGuard, PrintIfTarget, PrintResIfRef, PrintDivLabel
    <3>2. {"loop_num", "from_loop"} \subseteq FlagNames
      BY DEF FlagNames
    <3>3. QED
      BY <1>1, <3>1, <3>2
  <2>4. QED
    BY <1>2, <1>3, <1>6, <2>1, <2>2, <2>3
<1>10. CASE visit_number \/ visit_string \/ visit_id \/ visit_decl \/ visit_unary_op \/ visit_binary_op
            \/ visit_call \/ visit_dim \/ visit_return \/ visit_silent \/ visit_params
  <2>1. Puts
    BY <1>1, <1>10, visit_numberPuts, visit_stringPuts, visit_idPuts, visit_declPuts,
       visit_unary_opPuts, visit_binary_opPuts, visit_callPuts, visit_dimPuts, visit_returnPuts,
       visit_silentPuts, visit_paramsPuts
  <2>2. UNCHANGED flag /\ todo # <<>>
    BY <1>10, <2>1 DEF Puts, visit_number, visit_string, visit_id, visit_decl, visit_unary_op,
       visit_binary_op, visit_call, visit_dim, visit_return, visit_silent, visit_params, Visiting, Doing
  <2>3. ItemsOK(Tail(todo))
    BY <1>1, <2>2, RestOK
  <2>4. ASSUME Shows(todo) PROVE Shows(todo')
    <3>1. CASE Closes(Head(todo))
      <4>1. Head(todo).k \in {"visit", "params"}
        BY <1>10 DEF visit_number, visit_string, visit_id, visit_decl, visit_unary_op,
           visit_binary_op, visit_call, visit_dim, visit_return, visit_silent, visit_params,
           Visiting, Doing
      <4>2. Head(todo).k = "visit" /\ node.type = "BINARY_OP" /\ node.op = "OP_EQ"
        BY <3>1, <4>1 DEF Closes, node
      <4>3. visit_binary_op
        BY <1>10, <4>2 DEF visit_number, visit_string, visit_id, visit_decl, visit_unary_op,
           visit_call, visit_dim, visit_return, visit_silent, visit_params, Visiting, Doing, Silent,
           node
      <4> DEFINE e == emit_op(node)
                 o == <<Visit(node.left), Visit(node.right), NL>>
      <4>4. todo' = (e \o o) \o Tail(todo)
        BY <4>2, <4>3 DEF visit_binary_op, Do, Arithmetic
      <4>5. Visitable(node.left) /\ Visitable(node.right)
        <5>1. Visitable(node)
          BY <1>1, <2>2, <4>2, Visited1 DEF Doing
        <5>2. QED
          BY <4>2, <5>1, MembersOfVisited
      <4>6. Shows(e)
        BY <4>2, <4>5, EqualShows
      <4>7. ItemsOK(e)
        BY <4>2, <4>5, emit_opOK
      <4>8. ItemsOK(o)
        BY <4>5, ItemFacts, ThreeOK
      <4> HIDE DEF e, o
      <4>9. Shows(e \o o) /\ ItemsOK(e \o o)
        BY <4>6, <4>7, <4>8, ShowsCat, CatOK
      <4>10. Shows((e \o o) \o Tail(todo))
        BY <2>3, <4>9, ShowsCat
      <4>11. QED
        BY <4>4, <4>10
    <3>2. CASE ~Closes(Head(todo))
      <4>1. Shows(Tail(todo))
        BY <1>1, <2>2, <2>4, <3>2, ShowsTail
      <4>2. PICK s : ItemsOK(s) /\ todo' = s \o Tail(todo)
        BY <2>1 DEF Puts
      <4>3. Shows(s \o Tail(todo))
        BY <2>3, <4>1, <4>2, ShowsCat
      <4>4. QED
        BY <4>2, <4>3
    <3>3. QED
      BY <3>1, <3>2
  <2>5. QED
    BY <1>2, <1>3, <2>2, <2>4
<1>11. QED
  BY <1>5, <1>7, <1>8, <1>9, <1>10 DEF ExpressionStep

-----------------------------------------------------------------------------
(* Statements: which activations hold loops.                                *)

\* The innermost activation returns,
LEMMA ChainPops ==
    ASSUME TypeInv, frames # <<>>, NEW Free, NEW One, NEW top, Chain(frames, top, Free, One),
           NEW cur, Numbered(frames, cur), Top.h # "while", frames' = Callers
    PROVE  Chain(frames', top, Free, One) /\ Numbered(frames', cur)
<1> DEFINE t == <<>>
<1>1. t \in Seq({}) /\ Len(t) = 0 /\ frames' = Callers \o t
  <2>1. Callers \in Seq(Activations)
    BY TopFacts
  <2>2. Callers \o <<>> = Callers
    BY <2>1, ConcatProperties
  <2>3. QED
    BY <2>2
<1>2. 1 .. Len(t) = {}
  BY <1>1
<1> HIDE DEF t
<1>3. QED
  BY <1>1, <1>2, ChainStays

\* goes on,
LEMMA ChainMoves ==
    ASSUME TypeInv, frames # <<>>, NEW Free, NEW One, NEW top, Chain(frames, top, Free, One),
           NEW cur, Numbered(frames, cur), Top.h # "while",
           NEW m, frames' = Callers \o <<m>>, m.h # "while",
           Single(Top, Free, One) => /\ Single(m, Free, One)
                                     /\ Spent(Top, Free) => Spent(m, Free)
    PROVE  Chain(frames', top, Free, One) /\ Numbered(frames', cur)
<1> DEFINE t == <<m>>
<1>1. t \in Seq({m}) /\ Len(t) = 1 /\ frames' = Callers \o t /\ t[1] = m
  OBVIOUS
<1> HIDE DEF t
<1>2. \A j \in 1 .. Len(t) : j = 1 /\ t[j] = m
  BY <1>1
<1>3. QED
  BY <1>1, <1>2, ChainStays

\* calls a handler,
LEMMA ChainCalls ==
    ASSUME TypeInv, frames # <<>>, NEW Free, NEW One, NEW top, Chain(frames, top, Free, One),
           NEW cur, Numbered(frames, cur), Top.h # "while",
           NEW m, NEW x, frames' = Callers \o <<m, x>>, m.h # "while", x.h # "while",
           Single(Top, Free, One) => /\ Single(m, Free, One) /\ Single(x, Free, One)
                                     /\ Spent(Top, Free) => Spent(m, Free) /\ Spent(x, Free)
                                     /\ Spent(m, Free) \/ Spent(x, Free)
    PROVE  Chain(frames', top, Free, One) /\ Numbered(frames', cur)
<1> DEFINE t == <<m, x>>
<1>1. t \in Seq({m, x}) /\ Len(t) = 2 /\ frames' = Callers \o t /\ t[1] = m /\ t[2] = x
  OBVIOUS
<1> HIDE DEF t
<1>2. \A j \in 1 .. Len(t) : (j = 1 /\ t[j] = m) \/ (j = 2 /\ t[j] = x)
  BY <1>1
<1>3. QED
  BY <1>1, <1>2, ChainStays

\* or calls a handler that calls that of its block.
LEMMA ChainCallsTwo ==
    ASSUME TypeInv, frames # <<>>, NEW Free, NEW One, NEW top, Chain(frames, top, Free, One),
           NEW cur, Numbered(frames, cur), Top.h # "while",
           NEW m, NEW x, NEW y, frames' = Callers \o <<m, x, y>>,
           m.h # "while", x.h # "while", y.h # "while",
           Spent(x, Free), Single(x, Free, One),
           Single(Top, Free, One) => /\ Single(m, Free, One) /\ Single(y, Free, One)
                                     /\ Spent(Top, Free) => Spent(m, Free) /\ Spent(y, Free)
                                     /\ Spent(m, Free) \/ Spent(y, Free)
    PROVE  Chain(frames', top, Free, One) /\ Numbered(frames', cur)
<1> DEFINE t == <<m, x, y>>
<1>1. /\ t \in Seq({m, x, y}) /\ Len(t) = 3 /\ frames' = Callers \o t
      /\ t[1] = m /\ t[2] = x /\ t[3] = y
  OBVIOUS
<1> HIDE DEF t
<1>2. \A j \in 1 .. Len(t) : \/ j = 1 /\ t[j] = m
                             \/ j = 2 /\ t[j] = x
                             \/ j = 3 /\ t[j] = y
  BY <1>1
<1>3. QED
  BY <1>1, <1>2, ChainStays

\* A step that leaves the counters alone.
LEMMA LoopsKept ==
    ASSUME NEW Free, NEW One, Looping(Free, One), todo = <<>>,
           flag'.loop_num = flag.loop_num, flag'.from_loop = flag.from_loop,
           lbl'.mem_loop_num = lbl.mem_loop_num,
           Chain(frames', lbl.mem_loop_num, Free, One), Numbered(frames', Current)
    PROVE  Looping(Free, One)'
<1>1. Current' = Current
  BY DEF Current
<1>2. Waiting /\ DOMAIN todo = {}
  BY DEF Looping
<1>3. Waiting'
  BY <1>2 DEF Waiting
<1>4. Numbered(frames', Current')
  BY <1>1
<1>5. QED
  BY <1>3, <1>4 DEF Looping

\* The activation of a block that holds no loop, or one at most.
LEMMA BlockLoops ==
    ASSUME NEW Free, NEW One, LoopsChained(Free, One), NEW b
    PROVE  /\ BlockFrame(b).h = "block"
           /\ b \in One => Single(BlockFrame(b), Free, One)
           /\ b \in Free => Spent(BlockFrame(b), Free)
<1> DEFINE f == BlockFrame(b)
<1>1. f.h = "block" /\ f.node = b
  BY DEF BlockFrame, Frame
<1> HIDE DEF f
<1>2. b \in One => Single(f, Free, One)
  BY <1>1 DEF Single
<1>3. b \in Free => Spent(f, Free)
  BY <1>1 DEF Spent, LoopsChained
<1>4. QED
  BY <1>1, <1>2, <1>3 DEF f

\* A block moves on to its next statement.
LEMMA StatementLoops ==
    ASSUME TypeInv, NEW Free, NEW One, LoopsChained(Free, One), NEW T, AtStmt(T),
           NEW m, m.h = Top.h, m.node = Top.node, m.i = Top.i + 1
    PROVE  /\ Top.h = "block" /\ m.h = "block"
           /\ Spent(Top, Free) => Spent(m, Free) /\ LoopFree(NextStmt, Free)
           /\ Single(Top, Free, One) => /\ Single(m, Free, One) /\ OneLoop(NextStmt, Free, One)
                                        /\ Spent(m, Free) \/ LoopFree(NextStmt, Free)
<1>1. frames # <<>> /\ Top.h = "block" /\ Top.i <= Len(Top.node.stmts)
  BY DEF AtStmt, Running
<1>2. Top \in Activations
  BY <1>1, TopFacts
<1>3. Top.node \in Nodes /\ Top.node.type = "BLOCK" /\ Top.i \in Nat \ {0}
  BY <1>1, <1>2 DEF Activations, Takes
<1>4. /\ DOMAIN Top.node.stmts = 1 .. Len(Top.node.stmts) /\ Len(Top.node.stmts) \in Nat
      /\ Top.i \in DOMAIN Top.node.stmts
  BY <1>1, <1>3, MembersOfNode, LenProperties
<1>5. \A j \in DOMAIN Top.node.stmts : /\ j >= m.i => j >= Top.i /\ j # Top.i
                                       /\ Top.i >= Top.i
  BY <1>3, <1>4
<1>6. Spent(Top, Free) => Spent(m, Free) /\ LoopFree(NextStmt, Free)
  BY <1>1, <1>4, <1>5 DEF Spent, NextStmt
<1>7. ASSUME Single(Top, Free, One)
      PROVE  /\ Single(m, Free, One) /\ OneLoop(NextStmt, Free, One)
             /\ Spent(m, Free) \/ LoopFree(NextStmt, Free)
  <2>1. Top.node \in One
    BY <1>1, <1>7 DEF Single
  <2>2. Single(m, Free, One)
    BY <1>1, <2>1 DEF Single
  <2>3. /\ OneLoop(NextStmt, Free, One)
        /\ \A j \in DOMAIN Top.node.stmts :
             Top.i # j => LoopFree(NextStmt, Free) \/ LoopFree(Top.node.stmts[j], Free)
    BY <1>4, <2>1 DEF LoopsChained, NextStmt
  <2>4. ASSUME ~LoopFree(NextStmt, Free) PROVE Spent(m, Free)
    BY <1>1, <1>5, <2>3, <2>4 DEF Spent
  <2>5. QED
    BY <2>2, <2>3, <2>4
<1>8. QED
  BY <1>1, <1>6, <1>7

\* visit_if visits one of its blocks.
LEMMA BranchLoops ==
    ASSUME TypeInv, NEW Free, NEW One, LoopsChained(Free, One), NEW p, InIf(p),
           NEW m, m.h = Top.h, m.node = Top.node,
           NEW c \in Slots(Top.node), Due(Top, c), Branch(Top.node, c) # Null,
           \A j \in Slots(Top.node) : Due(m, j) => Due(Top, j) /\ j # c,
           NEW x, x = BlockFrame(Branch(Top.node, c))
    PROVE  /\ Top.h = "if" /\ m.h = "if" /\ x.h = "block"
           /\ Single(Top, Free, One) => /\ Single(m, Free, One) /\ Single(x, Free, One)
                                        /\ Spent(Top, Free) => Spent(m, Free) /\ Spent(x, Free)
                                        /\ Spent(m, Free) \/ Spent(x, Free)
<1> DEFINE b == Branch(Top.node, c)
<1>1. Top.h = "if"
  BY DEF InIf, Running
<1>2. x.h = "block" /\ (b \in One => Single(x, Free, One)) /\ (b \in Free => Spent(x, Free))
  BY BlockLoops
<1> HIDE DEF b
<1>3. ASSUME Single(Top, Free, One)
      PROVE  /\ Single(m, Free, One) /\ Single(x, Free, One)
             /\ Spent(Top, Free) => Spent(m, Free) /\ Spent(x, Free)
             /\ Spent(m, Free) \/ Spent(x, Free)
  <2>1. OneLoop(Top.node, Free, One) /\ Top.node.type = "IF"
    BY <1>1, <1>3, IfFacts DEF Single
  <2>2. Single(m, Free, One)
    BY <1>1, <2>1 DEF Single
  <2>3. /\ b \in One
        /\ \A j \in Slots(Top.node) : j # c =>
             Branch(Top.node, j) \in Free \cup {Null} \/ b \in Free
    BY <2>1 DEF OneLoop, b
  <2>4. Spent(Top, Free) => Spent(m, Free) /\ b \in Free
    BY <1>1 DEF Spent, b
  <2>5. b \notin Free => Spent(m, Free)
    BY <1>1, <2>3 DEF Spent
  <2>6. QED
    BY <1>2, <2>2, <2>3, <2>4, <2>5
<1>4. QED
  BY <1>1, <1>2, <1>3

-----------------------------------------------------------------------------
(* The handlers that visit blocks, one by one.                              *)

\* What is needed of a step of one of them.
Stays(Free, One) == Chain(frames', lbl.mem_loop_num, Free, One) /\ Numbered(frames', Current)

\* What holds before the step.
LEMMA LoopsHere ==
    ASSUME NEW Free, NEW One, Looping(Free, One)
    PROVE  Chain(frames, lbl.mem_loop_num, Free, One) /\ Numbered(frames, Current)
BY DEF Looping

\* The block that calls, with its statement counted.
LEMMA Moved ==
    ASSUME TypeInv, frames # <<>>
    PROVE  LET m == [Top EXCEPT !.i = @ + 1]
           IN  m.h = Top.h /\ m.node = Top.node /\ m.i = Top.i + 1 /\ m.pc = Top.pc
<1>1. Top \in Activations
  BY TopFacts
<1>2. QED
  BY <1>1, ActivationShape

\* A statement is visited, or the block is left.
LEMMA visit_blockLoops ==
    ASSUME TypeInv, NEW Free, NEW One, LoopsChained(Free, One), Looping(Free, One), visit_block
    PROVE  Looping(Free, One)'
<1>1. frames # <<>> /\ Top.h = "block" /\ todo = <<>> /\ UNCHANGED <<flag, lbl>>
  BY DEF visit_block, Running
<1>2. Top.h # "while"
  BY <1>1
<1>3. CASE /\ Top.i <= Len(Top.node.stmts)
           /\ NextStmt.type \notin Composite
           /\ CallFromBlock(<<>>)
  <2> DEFINE m == [Top EXCEPT !.i = @ + 1]
  <2>1. frames' = Callers \o (<<m>> \o <<>>)
    BY <1>3 DEF CallFromBlock
  <2>2. m.h = Top.h /\ m.node = Top.node /\ m.i = Top.i + 1
    BY <1>1, Moved
  <2> HIDE DEF m
  <2>3. frames' = Callers \o <<m>>
    BY <2>1
  <2>4. AtStmt({NextStmt.type})
    BY <1>1, <1>3 DEF AtStmt, Running
  <2>5. /\ m.h # "while"
        /\ Single(Top, Free, One) => /\ Single(m, Free, One)
                                     /\ Spent(Top, Free) => Spent(m, Free)
    BY <1>2, <2>2, <2>4, StatementLoops
  <2>6. Stays(Free, One)
    BY <1>1, <1>2, <2>3, <2>5, LoopsHere, ChainMoves DEF Stays
  <2>7. QED
    BY <1>1, <2>6, LoopsKept DEF Stays
<1>4. CASE frames' = Callers
  <2>1. Stays(Free, One)
    BY <1>1, <1>2, <1>4, LoopsHere, ChainPops DEF Stays
  <2>2. QED
    BY <1>1, <2>1, LoopsKept DEF Stays
<1>5. QED
  BY <1>3, <1>4 DEF visit_block

\* An if takes over what its block may still hold.
LEMMA visit_ifLoops ==
    ASSUME TypeInv, NEW Free, NEW One, LoopsChained(Free, One), Looping(Free, One), visit_if
    PROVE  Looping(Free, One)'
<1> DEFINE m == [Top EXCEPT !.i = @ + 1]
           x == Frame("if", NextStmt, "conds", lbl.else_if_num)
<1>1. AtStmt({"IF"}) /\ CallFromBlock(<<x>>)
  BY DEF visit_if
<1>2. frames # <<>> /\ Top.h = "block" /\ todo = <<>> /\ NextStmt.type = "IF"
  BY <1>1 DEF AtStmt, Running
<1>3. m.h = Top.h /\ m.node = Top.node /\ m.i = Top.i + 1
  BY <1>2, Moved
<1>4. x.h = "if" /\ x.node = NextStmt
  BY DEF Frame
<1>5. frames' = Callers \o (<<m>> \o <<x>>)
  BY <1>1 DEF CallFromBlock
<1> HIDE DEF m, x
<1>6. frames' = Callers \o <<m, x>>
  BY <1>5
<1>7. /\ m.h = "block"
      /\ Spent(Top, Free) => Spent(m, Free) /\ LoopFree(NextStmt, Free)
      /\ Single(Top, Free, One) => /\ Single(m, Free, One) /\ OneLoop(NextStmt, Free, One)
                                   /\ Spent(m, Free) \/ LoopFree(NextStmt, Free)
  BY <1>1, <1>3, StatementLoops
<1>8. /\ OneLoop(NextStmt, Free, One) => Single(x, Free, One)
      /\ LoopFree(NextStmt, Free) => Spent(x, Free)
  BY <1>2, <1>4 DEF Single, Spent, LoopFree
<1>9. /\ m.h # "while" /\ x.h # "while" /\ Top.h # "while"
      /\ Single(Top, Free, One) => /\ Single(m, Free, One) /\ Single(x, Free, One)
                                   /\ Spent(Top, Free) => Spent(m, Free) /\ Spent(x, Free)
                                   /\ Spent(m, Free) \/ Spent(x, Free)
  BY <1>2, <1>4, <1>7, <1>8
<1>10. Stays(Free, One)
  BY <1>2, <1>6, <1>9, LoopsHere, ChainCalls DEF Stays
<1>11. /\ flag'.loop_num = flag.loop_num /\ flag'.from_loop = flag.from_loop
       /\ lbl'.mem_loop_num = lbl.mem_loop_num
  BY DEF visit_if, TypeInv, FlagNames, LblNames
<1>12. QED
  BY <1>2, <1>10, <1>11, LoopsKept DEF Stays

\* Its conditions are not its branches.
LEMMA IfElseIfCondLoops ==
    ASSUME TypeInv, NEW Free, NEW One, LoopsChained(Free, One), Looping(Free, One), IfElseIfCond
    PROVE  Looping(Free, One)'
<1> DEFINE m == [Top EXCEPT !.i = @ + 1]
<1>1. frames # <<>> /\ Top.h = "if" /\ Top.pc = "conds" /\ todo = <<>>
      /\ frames' = Callers \o <<m>>
  BY DEF IfElseIfCond, InIf, Running
<1>2. m.h = Top.h /\ m.node = Top.node /\ m.pc = Top.pc
  BY <1>1, Moved
<1> HIDE DEF m
<1>3. /\ m.h # "while" /\ Top.h # "while"
      /\ Single(Top, Free, One) => /\ Single(m, Free, One)
                                   /\ Spent(Top, Free) => Spent(m, Free)
  BY <1>1, <1>2 DEF Single, Spent, Due
<1>4. Stays(Free, One)
  BY <1>1, <1>3, LoopsHere, ChainMoves DEF Stays
<1>5. /\ flag'.loop_num = flag.loop_num /\ flag'.from_loop = flag.from_loop
      /\ lbl'.mem_loop_num = lbl.mem_loop_num
  BY DEF IfElseIfCond, TypeInv, FlagNames, LblNames
<1>6. QED
  BY <1>1, <1>4, <1>5, LoopsKept DEF Stays

\* An if visits its block, the block of an elseif, that of its else.
LEMMA IfBlockLoops ==
    ASSUME TypeInv, NEW Free, NEW One, LoopsChained(Free, One), Looping(Free, One), IfBlock
    PROVE  Looping(Free, One)'
<1> DEFINE m == [Top EXCEPT !.pc = "blocks", !.i = 1, !.mem = @ + 1, !.len = Top.i - 1]
           x == BlockFrame(Top.node.block)
<1>1. InIf("conds") /\ frames' = Callers \o <<m, x>> /\ UNCHANGED <<todo, flag>>
  BY DEF IfBlock
<1>2. frames # <<>> /\ Top.h = "if" /\ Top.pc = "conds" /\ todo = <<>>
  BY <1>1 DEF InIf, Running
<1>3. m.h = Top.h /\ m.node = Top.node /\ m.pc = "blocks" /\ m.i = 1
  <2>1. Top \in Activations
    BY <1>2, TopFacts
  <2>2. m = [h |-> Top.h, node |-> Top.node, pc |-> "blocks", i |-> 1, mem |-> Top.mem + 1, len |-> Top.i - 1]
    BY <2>1, MovedShape
  <2>3. QED
    BY <2>2
<1> HIDE DEF m
<1>4. /\ ElseIfs \in Seq(OfType(Nodes, "IF")) /\ Top.node.block \in OfType(Nodes, "BLOCK")
  BY <1>1, IfFacts
<1>5. Len(Top.node.else_ifs) \in Nat
  BY <1>4, LenProperties DEF ElseIfs
<1>6. 0 \in Slots(Top.node) /\ Branch(Top.node, 0) = Top.node.block /\ Due(Top, 0)
  BY <1>2, <1>5 DEF Slots, Branch, Due
<1>7. Top.node.block # Null
  BY <1>4 DEF OfType, Null
<1>8. \A j \in Slots(Top.node) : Due(m, j) => Due(Top, j) /\ j # 0
  BY <1>2, <1>3, <1>5 DEF Slots, Due
<1>9. x = BlockFrame(Branch(Top.node, 0)) /\ Branch(Top.node, 0) # Null
  BY <1>6, <1>7
<1> HIDE DEF x
<1>10. /\ m.h = "if" /\ x.h = "block"
       /\ Single(Top, Free, One) => /\ Single(m, Free, One) /\ Single(x, Free, One)
                                    /\ Spent(Top, Free) => Spent(m, Free) /\ Spent(x, Free)
                                    /\ Spent(m, Free) \/ Spent(x, Free)
  BY <1>1, <1>3, <1>6, <1>8, <1>9, BranchLoops
<1>11. m.h # "while" /\ x.h # "while" /\ Top.h # "while"
  BY <1>2, <1>10
<1>12. Stays(Free, One)
  BY <1>1, <1>2, <1>10, <1>11, LoopsHere, ChainCalls DEF Stays
<1>13. lbl'.mem_loop_num = lbl.mem_loop_num
  BY DEF IfBlock, TypeInv, LblNames
<1>14. QED
  BY <1>1, <1>2, <1>12, <1>13, LoopsKept DEF Stays

LEMMA IfElseIfBlockLoops ==
    ASSUME TypeInv, NEW Free, NEW One, LoopsChained(Free, One), Looping(Free, One), IfElseIfBlock
    PROVE  Looping(Free, One)'
<1> DEFINE m == [Top EXCEPT !.i = @ + 1, !.mem = @ + 1]
           x == BlockFrame(ElseIfs[Top.i].block)
           c == Top.i
<1>1. InIf("blocks") /\ Top.i <= Top.len /\ frames' = Callers \o <<m, x>> /\ UNCHANGED <<todo, flag, lbl>>
  BY DEF IfElseIfBlock
<1>2. frames # <<>> /\ Top.h = "if" /\ Top.pc = "blocks" /\ todo = <<>>
  BY <1>1 DEF InIf, Running
<1>3. Top \in Activations
  BY <1>2, TopFacts
<1>4. m.h = Top.h /\ m.node = Top.node /\ m.pc = "blocks" /\ m.i = Top.i + 1
  <2>1. m = [h |-> Top.h, node |-> Top.node, pc |-> Top.pc, i |-> Top.i + 1, mem |-> Top.mem + 1, len |-> Top.len]
    BY <1>3, MovedShape
  <2>2. QED
    BY <1>2, <2>1
<1> HIDE DEF m
<1>5. /\ Len(Top.node.else_ifs) \in Nat /\ c \in Nat \ {0} /\ c <= Len(Top.node.else_ifs)
      /\ ElseIfs[c] \in Nodes /\ ElseIfs[c].type = "IF"
  <2>1. ElseIfs \in Seq(OfType(Nodes, "IF"))
    BY <1>1, IfFacts
  <2>2. Len(Top.node.else_ifs) \in Nat
    BY <2>1, LenProperties DEF ElseIfs
  <2>3. Top.len <= Len(Top.node.else_ifs) /\ Top.len \in Nat /\ c \in Nat \ {0}
    BY <1>2, <1>3, ActivationShape DEF Fits
  <2>4. c <= Len(Top.node.else_ifs)
    BY <1>1, <2>2, <2>3
  <2>5. QED
    BY <1>1, <2>2, <2>3, <2>4, IfFacts DEF ElseIfs
<1> HIDE DEF c
<1>6. c \in Slots(Top.node) /\ Branch(Top.node, c) = ElseIfs[c].block /\ Due(Top, c)
  <2>1. c >= c
    BY <1>5
  <2>2. QED
    BY <1>2, <1>5, <2>1 DEF Slots, Branch, Due, ElseIfs, c
<1>7. ElseIfs[c].block # Null
  <2>1. ElseIfs[c].block \in OfType(Nodes, "BLOCK")
    BY <1>5, MembersOfNode
  <2>2. QED
    BY <2>1 DEF OfType, Null
<1>8. \A j \in Slots(Top.node) : Due(m, j) => Due(Top, j) /\ j # c
  <2>1. SUFFICES ASSUME NEW j \in Slots(Top.node), Due(m, j) PROVE Due(Top, j) /\ j # c
    OBVIOUS
  <2>2. j \in Nat /\ (j >= c + 1 \/ j > Len(Top.node.else_ifs))
    BY <1>4, <1>5, <2>1 DEF Due, Slots, c
  <2>3. (j >= c \/ j > Len(Top.node.else_ifs)) /\ j # c
    BY <1>5, <2>2
  <2>4. QED
    BY <1>2, <2>3 DEF Due, c
<1>9. x = BlockFrame(Branch(Top.node, c)) /\ Branch(Top.node, c) # Null
  BY <1>6, <1>7 DEF c
<1> HIDE DEF x
<1>10. /\ m.h = "if" /\ x.h = "block"
       /\ Single(Top, Free, One) => /\ Single(m, Free, One) /\ Single(x, Free, One)
                                    /\ Spent(Top, Free) => Spent(m, Free) /\ Spent(x, Free)
                                    /\ Spent(m, Free) \/ Spent(x, Free)
  BY <1>1, <1>4, <1>6, <1>8, <1>9, BranchLoops
<1>11. m.h # "while" /\ x.h # "while" /\ Top.h # "while"
  BY <1>2, <1>10
<1>12. Stays(Free, One)
  BY <1>1, <1>2, <1>10, <1>11, LoopsHere, ChainCalls DEF Stays
<1>13. QED
  BY <1>1, <1>2, <1>12, LoopsKept DEF Stays

LEMMA IfElseBlockLoops ==
    ASSUME TypeInv, NEW Free, NEW One, LoopsChained(Free, One), Looping(Free, One), IfElseBlock
    PROVE  Looping(Free, One)'
<1> DEFINE m == [Top EXCEPT !.pc = "else"]
           x == BlockFrame(Top.node.else_block)
           c == Len(Top.node.else_ifs) + 1
<1>1. InIf("blocks") /\ Top.node.else_block # Null /\ frames' = Callers \o <<m, x>>
      /\ UNCHANGED <<todo, flag, lbl>>
  BY DEF IfElseBlock
<1>2. frames # <<>> /\ Top.h = "if" /\ Top.pc = "blocks" /\ todo = <<>>
  BY <1>1 DEF InIf, Running
<1>3. m.h = Top.h /\ m.node = Top.node /\ m.pc = "else"
  <2>1. Top \in Activations
    BY <1>2, TopFacts
  <2>2. m = [h |-> Top.h, node |-> Top.node, pc |-> "else", i |-> Top.i, mem |-> Top.mem, len |-> Top.len]
    BY <2>1, MovedShape
  <2>3. QED
    BY <2>2
<1> HIDE DEF m
<1>4. Len(Top.node.else_ifs) \in Nat
  <2>1. ElseIfs \in Seq(OfType(Nodes, "IF"))
    BY <1>1, IfFacts
  <2>2. QED
    BY <2>1, LenProperties DEF ElseIfs
<1>5. c \in Slots(Top.node) /\ Branch(Top.node, c) = Top.node.else_block /\ Due(Top, c)
  <2>1. c > Len(Top.node.else_ifs) /\ c # 0 /\ ~(c <= Len(Top.node.else_ifs)) /\ c \in Slots(Top.node)
    BY <1>4 DEF Slots
  <2> HIDE DEF c
  <2>2. QED
    BY <1>2, <2>1 DEF Branch, Due
<1>6. \A j \in Slots(Top.node) : Due(m, j) => Due(Top, j) /\ j # c
  BY <1>3 DEF Due
<1> HIDE DEF c
<1>7. x = BlockFrame(Branch(Top.node, c)) /\ Branch(Top.node, c) # Null
  BY <1>1, <1>5
<1> HIDE DEF x
<1>8. /\ m.h = "if" /\ x.h = "block"
      /\ Single(Top, Free, One) => /\ Single(m, Free, One) /\ Single(x, Free, One)
                                   /\ Spent(Top, Free) => Spent(m, Free) /\ Spent(x, Free)
                                   /\ Spent(m, Free) \/ Spent(x, Free)
  BY <1>1, <1>3, <1>5, <1>6, <1>7, BranchLoops
<1>9. m.h # "while" /\ x.h # "while" /\ Top.h # "while"
  BY <1>2, <1>8
<1>10. Stays(Free, One)
  BY <1>1, <1>2, <1>8, <1>9, LoopsHere, ChainCalls DEF Stays
<1>11. QED
  BY <1>1, <1>2, <1>10, LoopsKept DEF Stays

\* The handlers that return.
LEMMA EndLoops ==
    ASSUME TypeInv, NEW Free, NEW One, Looping(Free, One), IfEnd \/ ScopeEnd \/ FunctionEnd \/ GenEnd
    PROVE  Looping(Free, One)'
<1>1. frames # <<>> /\ Top.h # "while" /\ todo = <<>> /\ frames' = Callers /\ UNCHANGED lbl
  BY DEF IfEnd, ScopeEnd, FunctionEnd, GenEnd, InIf, Running
<1>2. Stays(Free, One)
  BY <1>1, LoopsHere, ChainPops DEF Stays
<1>3. flag'.loop_num = flag.loop_num /\ flag'.from_loop = flag.from_loop
  <2>1. \/ UNCHANGED flag
        \/ flag' = [flag EXCEPT !.scope = @ - 1]
        \/ flag' = [flag EXCEPT !.from_func = @ - 1]
    BY DEF IfEnd, ScopeEnd, FunctionEnd, GenEnd
  <2>2. flag \in [FlagNames -> Int] /\ {"loop_num", "from_loop"} \subseteq FlagNames
    BY DEF TypeInv, FlagNames
  <2>3. QED
    BY <2>1, <2>2
<1>4. QED
  BY <1>1, <1>2, <1>3, LoopsKept DEF Stays

\* The handlers that call that of their block.
LEMMA EnterLoops ==
    ASSUME TypeInv, NEW Free, NEW One, LoopsChained(Free, One), Looping(Free, One),
           visit_scope \/ visit_function
    PROVE  Looping(Free, One)'
<1> DEFINE m == [Top EXCEPT !.i = @ + 1]
           y == BlockFrame(NextStmt.block)
<1>1. PICK h \in {"scope", "function"} : \E T \in {{"SCOPE"}, {"FUNCTION"}} :
        AtStmt(T) /\ CallFromBlock(<<Frame(h, NextStmt, "body", 0), y>>)
  BY DEF visit_scope, visit_function
<1>2. PICK T \in {{"SCOPE"}, {"FUNCTION"}} :
        AtStmt(T) /\ CallFromBlock(<<Frame(h, NextStmt, "body", 0), y>>)
  BY <1>1
<1> DEFINE x == Frame(h, NextStmt, "body", 0)
<1>3. frames # <<>> /\ Top.h = "block" /\ todo = <<>> /\ NextStmt.type \in {"SCOPE", "FUNCTION"}
  BY <1>2 DEF AtStmt, Running
<1>4. m.h = Top.h /\ m.node = Top.node /\ m.i = Top.i + 1
  BY <1>3, Moved
<1>5. x.h = h
  BY DEF Frame
<1>6. frames' = Callers \o (<<m>> \o <<x, y>>)
  BY <1>2 DEF CallFromBlock
<1>7. /\ y.h = "block"
      /\ NextStmt.block \in One => Single(y, Free, One)
      /\ NextStmt.block \in Free => Spent(y, Free)
  BY BlockLoops
<1> HIDE DEF m, x, y
<1>8. frames' = Callers \o <<m, x, y>>
  BY <1>6
<1>9. /\ m.h = "block"
      /\ Spent(Top, Free) => Spent(m, Free) /\ LoopFree(NextStmt, Free)
      /\ Single(Top, Free, One) => /\ Single(m, Free, One) /\ OneLoop(NextStmt, Free, One)
                                   /\ Spent(m, Free) \/ LoopFree(NextStmt, Free)
  BY <1>2, <1>4, StatementLoops
<1>10. Single(x, Free, One) /\ Spent(x, Free)
  BY <1>5 DEF Single, Spent
<1>11. /\ OneLoop(NextStmt, Free, One) => Single(y, Free, One)
       /\ LoopFree(NextStmt, Free) => Spent(y, Free)
  BY <1>3, <1>7 DEF OneLoop, LoopFree
<1>12. m.h # "while" /\ x.h # "while" /\ y.h # "while" /\ Top.h # "while"
  BY <1>3, <1>5, <1>7, <1>9
<1>13. Single(Top, Free, One) => /\ Single(m, Free, One) /\ Single(y, Free, One)
                                 /\ Spent(Top, Free) => Spent(m, Free) /\ Spent(y, Free)
                                 /\ Spent(m, Free) \/ Spent(y, Free)
  BY <1>9, <1>11
<1>14. Stays(Free, One)
  BY <1>3, <1>8, <1>10, <1>12, <1>13, LoopsHere, ChainCallsTwo DEF Stays
<1>15. flag'.loop_num = flag.loop_num /\ flag'.from_loop = flag.from_loop /\ UNCHANGED lbl
  <2>1. \/ flag' = [flag EXCEPT !.scope = @ + 1]
        \/ flag' = [flag EXCEPT !.from_func = @ + 1]
    BY DEF visit_scope, visit_function
  <2>2. flag \in [FlagNames -> Int] /\ {"loop_num", "from_loop"} \subseteq FlagNames
    BY DEF TypeInv, FlagNames
  <2>3. UNCHANGED lbl
    BY DEF visit_scope, visit_function
  <2>4. QED
    BY <2>1, <2>2, <2>3
<1>16. QED
  BY <1>3, <1>14, <1>15, LoopsKept DEF Stays

\* A loop takes the next number.
LEMMA visit_whileLoops ==
    ASSUME TypeInv, NEW Free, NEW One, LoopsChained(Free, One), Looping(Free, One), visit_while
    PROVE  Looping(Free, One)'
<1> DEFINE m == [Top EXCEPT !.i = @ + 1]
           w == Frame("while", NextStmt, "body", NextLoop)
           b == BlockFrame(NextStmt.block)
           top == lbl.mem_loop_num
<1>1. AtStmt({"WHILE"}) /\ CallFromBlock(<<w, b>>) /\ todo' = todo
  BY DEF visit_while
<1>2. frames # <<>> /\ Top.h = "block" /\ todo = <<>> /\ NextStmt.type = "WHILE"
  BY <1>1 DEF AtStmt, Running
<1>3. NextStmt \in OfType(Nodes, "WHILE")
  BY <1>1, <1>2, CallTypes DEF OfType, Node, Null
<1>4. NextStmt.block \in One
  BY <1>3 DEF LoopsChained
<1>5. m.h = Top.h /\ m.node = Top.node /\ m.i = Top.i + 1
  BY <1>2, Moved
<1>6. w.h = "while" /\ w.mem = top + 1
  BY DEF Frame, NextLoop
<1>7. frames' = Callers \o (<<m>> \o <<w, b>>)
  BY <1>1 DEF CallFromBlock
<1>8. b.h = "block" /\ Single(b, Free, One)
  BY <1>4, BlockLoops
<1> HIDE DEF m, w, b
<1>9. frames' = Callers \o <<m, w, b>>
  BY <1>7
<1>10. /\ m.h = "block"
       /\ Spent(Top, Free) => LoopFree(NextStmt, Free)
       /\ Single(Top, Free, One) => /\ Single(m, Free, One)
                                    /\ Spent(m, Free) \/ LoopFree(NextStmt, Free)
  BY <1>1, <1>5, StatementLoops
<1>11. ~LoopFree(NextStmt, Free)
  BY <1>2 DEF LoopFree
<1>12. top \in Nat
  BY LoopNumbers
<1>13. Chain(frames, top, Free, One)
  BY LoopsHere
<1> HIDE DEF top
<1>14. m.h # "while" /\ b.h # "while" /\ Top.h # "while" /\ ~Spent(Top, Free)
       /\ (Single(Top, Free, One) => Single(m, Free, One) /\ Spent(m, Free))
  BY <1>2, <1>8, <1>10, <1>11
<1>15. Chain(frames', top + 1, Free, One) /\ Numbered(frames', top + 1)
  BY <1>2, <1>6, <1>8, <1>9, <1>12, <1>13, <1>14, ChainLonger
<1>16. flag.from_loop = 0
  <2>1. Waiting /\ DOMAIN todo = {}
    BY <1>2 DEF Looping
  <2>2. QED
    BY <2>1 DEF Waiting
<1>17. lbl'.mem_loop_num = top + 1 /\ flag'.loop_num = top + 1 /\ flag'.from_loop = 0
  <2>1. flag \in [FlagNames -> Int] /\ {"loop_num", "from_loop"} \subseteq FlagNames
        /\ lbl \in [LblNames -> Nat] /\ "mem_loop_num" \in LblNames
    BY DEF TypeInv, FlagNames, LblNames
  <2>2. flag' = [flag EXCEPT !.loop_num = NextLoop] /\ lbl' = [lbl EXCEPT !.mem_loop_num = @ + 1]
    BY DEF visit_while
  <2>3. QED
    BY <1>16, <2>1, <2>2 DEF NextLoop, top
<1>18. Current' = top + 1
  BY <1>12, <1>17 DEF Current
<1>19. Waiting'
  BY <1>17 DEF Waiting
<1>20. QED
  BY <1>15, <1>17, <1>18, <1>19 DEF Looping

\* A loop ends: its `==' will count loop_num down.
LEMMA WhileCondLoops ==
    ASSUME TypeInv, NEW Free, NEW One, LoopsChained(Free, One), Looping(Free, One), WhileCond
    PROVE  Looping(Free, One)'
<1>1. frames # <<>> /\ Top.h = "while" /\ todo = <<>> /\ frames' = Callers /\ UNCHANGED lbl
      /\ todo' = <<Visit(Top.node.expr)>>
  BY DEF WhileCond, Running
<1>2. Chain(frames', lbl.mem_loop_num, Free, One) /\ Numbered(frames', Current - 1)
  BY <1>1, LoopsHere, ChainShorter
<1>3. flag.from_loop = 0
  <2>1. Waiting /\ DOMAIN todo = {}
    BY <1>1 DEF Looping
  <2>2. QED
    BY <2>1 DEF Waiting
<1>4. flag'.loop_num = flag.loop_num /\ flag'.from_loop = 1
  <2>1. flag \in [FlagNames -> Int] /\ {"loop_num", "from_loop"} \subseteq FlagNames
    BY DEF TypeInv, FlagNames
  <2>2. flag' = [flag EXCEPT !.from_loop = @ + 1]
    BY DEF WhileCond
  <2>3. QED
    BY <1>3, <2>1, <2>2
<1>5. Current' = Current - 1
  BY <1>3, <1>4, LoopNumbers DEF Current
<1>6. Waiting'
  <2>1. Top \in Activations
    BY <1>1, TopFacts
  <2>2. Top.node \in OfType(Nodes, "WHILE")
    BY <1>1, <2>1, ActivationShape DEF OfType, Takes
  <2>3. Top.node.expr.type = "BINARY_OP" /\ Top.node.expr.op = "OP_EQ"
    BY <2>2 DEF LoopsChained
  <2>4. 1 \in DOMAIN todo' /\ todo'[1] = Visit(Top.node.expr)
    BY <1>1
  <2>5. Closes(todo'[1])
    BY <2>3, <2>4 DEF Closes, Visit
  <2>6. QED
    BY <1>4, <2>4, <2>5 DEF Waiting
<1>7. Numbered(frames', Current')
  BY <1>2, <1>5
<1>8. QED
  BY <1>1, <1>2, <1>6, <1>7 DEF Looping

\* A call of ifj17_gen begins with no loop around it.
LEMMA ifj17_genLoops ==
    ASSUME TypeInv, NEW Free, NEW One, Looping(Free, One), ifj17_gen
    PROVE  Looping(Free, One)'
<1>1. PICK p \in Programs : GenBegin(p)
  BY DEF ifj17_gen
<1> DEFINE a == Frame("gen", p, "body", 0)
           b == BlockFrame(p)
<1>2. frames' = <<a, b>> /\ a.h = "gen" /\ b.h = "block" /\ UNCHANGED <<todo, flag, lbl>>
  BY <1>1 DEF GenBegin, Frame, BlockFrame
<1> HIDE DEF a, b
<1>3. Len(frames') = 2 /\ frames'[1] = a /\ frames'[2] = b
  BY <1>2
<1>4. \A q \in 1 .. Len(frames') : frames'[q].h # "while"
  <2>1. \A q \in 1 .. 2 : q = 1 \/ q = 2
    OBVIOUS
  <2>2. QED
    BY <1>2, <1>3, <2>1
<1>5. Chain(frames', lbl'.mem_loop_num, Free, One)
  BY <1>4 DEF Chain, Encloses
<1>6. Numbered(frames', Current')
  BY <1>4 DEF Numbered, Encloses
<1>7. Waiting'
  BY <1>2 DEF Looping, Waiting
<1>8. QED
  BY <1>5, <1>6, <1>7 DEF Looping

\* A loop is the innermost around what comes behind it.
LEMMA LoopsItself ==
    ASSUME NEW s, NEW n \in Nat, s[n].h = "while"
    PROVE  Encloses(s, n, n + 1)
<1>1. n < n + 1 /\ n + 1 .. n + 1 - 1 = {}
  OBVIOUS
<1>2. QED
  BY <1>1 DEF Encloses

\* The invariant holds initially,
LEMMA LoopingInit ==
    ASSUME NEW Free, NEW One, Init
    PROVE  Looping(Free, One)
<1>1. frames = <<>> /\ Len(frames) = 0 /\ flag.from_loop = 0
  BY DEF Init, FlagNames
<1>2. Chain(frames, lbl.mem_loop_num, Free, One) /\ Numbered(frames, Current)
  BY <1>1 DEF Chain, Numbered
<1>3. Waiting
  BY <1>1 DEF Waiting
<1>4. QED
  BY <1>2, <1>3 DEF Looping

\* and every step keeps it.
LEMMA LoopingNext ==
    ASSUME TypeInv, NEW Free, NEW One, LoopsChained(Free, One), Looping(Free, One), [Next]_vars
    PROVE  Looping(Free, One)'
<1>1. CASE ifj17_gen
  BY <1>1, ifj17_genLoops
<1>2. CASE ExpressionStep
  <2>1. Waiting' /\ Current' = Current
    BY <1>2, ExpressionLoops DEF Looping
  <2>2. frames' = frames /\ lbl' = lbl
    BY <1>2, ExpressionLeaves
  <2>3. Chain(frames', lbl'.mem_loop_num, Free, One) /\ Numbered(frames', Current')
    BY <2>1, <2>2, LoopsHere
  <2>4. QED
    BY <2>1, <2>3 DEF Looping
<1>3. CASE StatementStep
  BY <1>3, visit_blockLoops, visit_ifLoops, IfElseIfCondLoops, IfBlockLoops, IfElseIfBlockLoops,
     IfElseBlockLoops, EndLoops, EnterLoops, visit_whileLoops, WhileCondLoops DEF StatementStep
<1>4. CASE UNCHANGED vars
  BY <1>4 DEF vars, Looping, Waiting, Current
<1>5. QED
  BY <1>1, <1>2, <1>3, <1>4 DEF Next

\* Programs whose loops stand one inside the other, each closed by `==': when the
\* condition of a loop is about to be visited, loop_num is that loop's own label,
\* however deep the loops are and whatever ifs, scopes, functions and statements
\* stand between them.
THEOREM LoopsRouted ==
    ASSUME NEW Free, NEW One, LoopsChained(Free, One)
    PROVE  Spec => []LoopRouting
<1>1. ASSUME TypeInv, Looping(Free, One) PROVE LoopRouting
  <2>1. SUFFICES ASSUME Running("while") PROVE flag.loop_num = Top.mem
    BY DEF LoopRouting
  <2>2. frames # <<>> /\ Top.h = "while" /\ todo = <<>>
    BY <2>1 DEF Running
  <2> DEFINE n == Len(frames)
  <2>3. n \in Nat \ {0}
    BY <1>1, <2>2, LoopNumbers
  <2>4. Top = frames[n]
    BY DEF Top
  <2>5. Numbered(frames, Current)
    BY <1>1 DEF Looping
  <2>6. \A p \in 1 .. n : Encloses(frames, p, n + 1) => Current = frames[p].mem
    BY <2>5 DEF Numbered
  <2> HIDE DEF n
  <2>7. Encloses(frames, n, n + 1)
    <3>1. frames[n].h = "while"
      BY <2>2, <2>4
    <3>2. QED
      BY <2>3, <3>1, LoopsItself
  <2>8. Current = Top.mem
    BY <2>3, <2>4, <2>6, <2>7
  <2>9. flag.from_loop = 0
    <3>1. Waiting /\ DOMAIN todo = {}
      BY <1>1, <2>2 DEF Looping
    <3>2. QED
      BY <3>1 DEF Waiting
  <2>10. QED
    BY <1>1, <2>8, <2>9, LoopNumbers DEF Current
<1>2. Init => TypeInv /\ Looping(Free, One)
  BY InitTypes, LoopingInit
<1>3. TypeInv /\ Looping(Free, One) /\ [Next]_vars => (TypeInv /\ Looping(Free, One))'
  BY TypesKept, LoopingNext
<1>4. TypeInv /\ Looping(Free, One) => LoopRouting
  BY <1>1
<1>5. QED
  BY <1>2, <1>3, <1>4, PTL DEF Spec

-----------------------------------------------------------------------------
(* Every loop repeats.                                                      *)

\* Behind the label of a loop there is its jump,
Closed(i) == \E j \in Refs("LOOP") : j > i /\ out[j].n = out[i].n

\* its activation is still to visit the condition, or the condition's `==' is
\* still to print the jump.
Open(i) ==
    \/ \E p \in 1 .. Len(frames) : frames[p].h = "while" /\ frames[p].mem = out[i].n
    \/ flag.from_loop = 1 /\ flag.loop_num = out[i].n

Repeating == \A i \in Defs("LOOP") : Closed(i) \/ Open(i)

\* What is closed stays closed.
LEMMA ClosedStays ==
    ASSUME Appended, NEW i \in DOMAIN out, Closed(i)
    PROVE  Closed(i)'
<1>1. PICK j \in Refs("LOOP") : j > i /\ out[j].n = out[i].n
  BY DEF Closed
<1>2. j \in DOMAIN out /\ out'[j] = out[j] /\ j \in DOMAIN out' /\ out'[i] = out[i]
  BY <1>1 DEF Appended, Refs
<1>3. j \in Refs("LOOP")'
  BY <1>1, <1>2 DEF Refs
<1>4. QED
  BY <1>1, <1>2, <1>3 DEF Closed

\* A step that prints no LOOP label, if it closes what it does not leave open.
LEMMA RepeatKeeps ==
    ASSUME Repeating, Appended, NoNew("LOOP"),
           \A i \in Defs("LOOP") : Open(i) => Open(i)' \/ Closed(i)'
    PROVE  Repeating'
<1>1. Defs("LOOP")' = Defs("LOOP")
  BY DEF NoNew
<1>2. ASSUME NEW i \in Defs("LOOP") PROVE Closed(i)' \/ Open(i)'
  <2>1. i \in DOMAIN out /\ (Closed(i) \/ Open(i))
    BY <1>2 DEF Repeating, Defs
  <2>2. Closed(i) => Closed(i)'
    BY <2>1, ClosedStays
  <2>3. QED
    BY <1>2, <2>1, <2>2
<1>3. QED
  BY <1>1, <1>2 DEF Repeating

\* What a statement leaves on the stack: all but the innermost activation.
LEMMA StatementStack ==
    ASSUME TypeInv, StatementStep
    PROVE  /\ todo = <<>> /\ frames # <<>>
           /\ \E T : \E t \in Seq(T) : frames' = Callers \o t
<1>1. todo = <<>> /\ frames # <<>>
  BY DEF StatementStep, visit_block, visit_if, IfElseIfCond, IfBlock, IfElseIfBlock, IfElseBlock,
     IfEnd, visit_while, WhileCond, visit_scope, ScopeEnd, visit_function, FunctionEnd, GenEnd,
     AtStmt, InIf, Running
<1>2. ASSUME frames' = Callers PROVE \E T : \E t \in Seq(T) : frames' = Callers \o t
  <2>1. Callers \in Seq(Activations)
    BY <1>1, TopFacts
  <2>2. Callers \o <<>> = Callers
    BY <2>1, ConcatProperties
  <2>3. <<>> \in Seq({})
    OBVIOUS
  <2>4. QED
    BY <1>2, <2>2, <2>3
<1>3. ASSUME NEW x, frames' = Callers \o <<x>>
      PROVE  \E T : \E t \in Seq(T) : frames' = Callers \o t
  <2>1. <<x>> \in Seq({x})
    OBVIOUS
  <2>2. QED
    BY <1>3, <2>1
<1>4. ASSUME NEW x, NEW y, frames' = Callers \o <<x, y>>
      PROVE  \E T : \E t \in Seq(T) : frames' = Callers \o t
  <2>1. <<x, y>> \in Seq({x, y})
    OBVIOUS
  <2>2. QED
    BY <1>4, <2>1
<1>5. ASSUME NEW S, NEW s \in Seq(S), CallFromBlock(s)
      PROVE  \E T : \E t \in Seq(T) : frames' = Callers \o t
  <2> DEFINE m == [Top EXCEPT !.i = @ + 1]
             o == <<m>>
  <2>1. o \in Seq({m})
    OBVIOUS
  <2>2. frames' = Callers \o (o \o s)
    BY <1>5 DEF CallFromBlock
  <2> HIDE DEF m, o
  <2>3. o \o s \in Seq({m} \cup S)
    BY <1>5, <2>1, CatFacts
  <2>4. QED
    BY <2>2, <2>3
<1>6. CASE WhileCond \/ IfEnd \/ ScopeEnd \/ FunctionEnd \/ GenEnd
  BY <1>1, <1>2, <1>6 DEF WhileCond, IfEnd, ScopeEnd, FunctionEnd, GenEnd
<1>7. CASE IfElseIfCond
  BY <1>1, <1>3, <1>7 DEF IfElseIfCond
<1>8. CASE IfBlock \/ IfElseIfBlock \/ IfElseBlock
  BY <1>1, <1>4, <1>8 DEF IfBlock, IfElseIfBlock, IfElseBlock
<1>9. CASE visit_block
  <2>1. CallFromBlock(<<>>) \/ frames' = Callers
    BY <1>9 DEF visit_block
  <2>2. <<>> \in Seq({})
    OBVIOUS
  <2>3. QED
    BY <1>1, <1>2, <1>5, <2>1, <2>2
<1>10. CASE visit_if
  <2> DEFINE f == Frame("if", NextStmt, "conds", lbl.else_if_num)
             s == <<f>>
  <2>1. CallFromBlock(s) /\ s \in Seq({f})
    BY <1>10 DEF visit_if
  <2> HIDE DEF s, f
  <2>2. QED
    BY <1>1, <1>5, <2>1
<1>11. CASE visit_while \/ visit_scope \/ visit_function
  <2>1. \E x, y : CallFromBlock(<<x, y>>)
    BY <1>11 DEF visit_while, visit_scope, visit_function
  <2>2. PICK x, y : CallFromBlock(<<x, y>>)
    BY <2>1
  <2> DEFINE s == <<x, y>>
  <2>3. CallFromBlock(s) /\ s \in Seq({x, y})
    BY <2>2
  <2> HIDE DEF s
  <2>4. QED
    BY <1>1, <1>5, <2>3
<1>12. QED
  BY <1>6, <1>7, <1>8, <1>9, <1>10, <1>11 DEF StatementStep

\* A loop whose activation is not the innermost one stays open.
LEMMA StaysOpen ==
    ASSUME TypeInv, Waiting, StatementStep, NEW i \in DOMAIN out, Open(i), Appended
    PROVE  Open(i)' \/ (Top.h = "while" /\ Top.mem = out[i].n)
<1>1. todo = <<>> /\ frames # <<>> /\ \E T : \E t \in Seq(T) : frames' = Callers \o t
  BY StatementStack
<1>2. flag.from_loop = 0
  <2>1. DOMAIN todo = {}
    BY <1>1
  <2>2. QED
    BY <2>1 DEF Waiting
<1>3. PICK p \in 1 .. Len(frames) : frames[p].h = "while" /\ frames[p].mem = out[i].n
  BY <1>2 DEF Open
<1>4. CASE p = Len(frames)
  BY <1>3, <1>4 DEF Top
<1>5. CASE p # Len(frames)
  <2>1. PICK T : \E t \in Seq(T) : frames' = Callers \o t
    BY <1>1
  <2>2. PICK t \in Seq(T) : frames' = Callers \o t
    BY <2>1
  <2>3. /\ Len(frames) \in Nat \ {0} /\ Len(t) \in Nat
        /\ Len(frames') = Len(frames) - 1 + Len(t)
        /\ \A q \in 1 .. Len(frames) - 1 : frames'[q] = frames[q]
    BY <1>1, <2>2, Stacked
  <2>4. p \in 1 .. Len(frames) - 1 /\ p \in 1 .. Len(frames')
    BY <1>3, <1>5, <2>3
  <2>5. frames'[p] = frames[p] /\ out'[i] = out[i]
    BY <2>3, <2>4 DEF Appended
  <2>6. QED
    BY <1>3, <2>4, <2>5 DEF Open
<1>6. QED
  BY <1>4, <1>5

\* One more token.
LEMMA LastToken ==
    ASSUME LabelTypeOK, NEW x, out' = out \o <<x>>
    PROVE  /\ Len(out) \in Nat /\ DOMAIN out = 1 .. Len(out)
           /\ Len(out) + 1 \in DOMAIN out' /\ out'[Len(out) + 1] = x
<1> DEFINE t == <<x>>
           T == {x}
           S == Elements(out)
<1>1. t \in Seq(T) /\ Len(t) = 1 /\ t[1] = x /\ out' = out \o t
  OBVIOUS
<1>2. out \in Seq(S)
  BY DEF LabelTypeOK
<1> HIDE DEF t, T, S
<1>3. /\ Len(out) \in Nat /\ DOMAIN out = 1 .. Len(out) /\ DOMAIN t = 1 .. Len(t)
      /\ DOMAIN (out \o t) = 1 .. (Len(out) + Len(t))
      /\ \A j \in DOMAIN t : (out \o t)[Len(out) + j] = t[j]
  BY <1>1, <1>2, CatFacts
<1>4. QED
  BY <1>1, <1>3

\* A loop is closed by its `=='.
LEMMA LoopTargetCloses ==
    ASSUME LabelTypeOK, PrintLoopTarget, flag.from_loop = 1, Appended,
           NEW i \in DOMAIN out, flag.loop_num = out[i].n
    PROVE  Closed(i)'
<1> DEFINE x == Ref("LOOP", flag.loop_num)
           j == Len(out) + 1
<1>1. out' = out \o <<x>>
  BY DEF PrintLoopTarget
<1>2. x.k = "ref" /\ x.s = "LOOP" /\ x.n = flag.loop_num
  BY DEF Ref, Tok
<1> HIDE DEF x
<1>3. j \in DOMAIN out' /\ out'[j] = x /\ j > i
  BY <1>1, LastToken
<1> HIDE DEF j
<1>4. j \in Refs("LOOP")'
  BY <1>2, <1>3 DEF Refs
<1>5. out'[i] = out[i]
  BY DEF Appended
<1>6. QED
  BY <1>2, <1>3, <1>4, <1>5 DEF Closed

\* Expressions close loops,
LEMMA RepeatExpression ==
    ASSUME IInv, TypeInv, Repeating, ExpressionStep
    PROVE  Repeating'
<1>1. LabelTypeOK
  BY DEF IInv
<1>2. frames' = frames /\ Appended /\ NoNew("LOOP")
  <2>1. frames' = frames /\ \E T : \E t \in Seq(T) : out' = out \o t /\ Harmless(t, lbl.else_if_num)
    BY <1>1, ExpressionOutput
  <2>2. QED
    BY <1>1, <2>1, HarmlessOutput
<1>3. ASSUME NEW i \in Defs("LOOP"), Open(i) PROVE Open(i)' \/ Closed(i)'
  <2>1. i \in DOMAIN out /\ out'[i] = out[i]
    BY <1>2, <1>3 DEF Defs, Appended
  <2>2. CASE \E p \in 1 .. Len(frames) : frames[p].h = "while" /\ frames[p].mem = out[i].n
    BY <1>2, <2>1, <2>2 DEF Open
  <2>3. CASE flag.from_loop = 1 /\ flag.loop_num = out[i].n /\ PrintLoopTarget
    BY <1>1, <1>2, <2>1, <2>3, LoopTargetCloses
  <2>4. CASE flag.from_loop = 1 /\ flag.loop_num = out[i].n /\ ~PrintLoopTarget
    <3>1. flag'.loop_num = flag.loop_num /\ flag'.from_loop = flag.from_loop
      BY <2>4, LoopFlagsStay
    <3>2. QED
      BY <2>1, <2>4, <3>1 DEF Open
  <2>5. QED
    BY <1>3, <2>2, <2>3, <2>4 DEF Open
<1>4. QED
  BY <1>2, <1>3, RepeatKeeps

\* statements hand them on to their conditions,
LEMMA RepeatStatement ==
    ASSUME IInv, TypeInv, Waiting, LoopRouting, Repeating, StatementStep, ~visit_while
    PROVE  Repeating'
<1>1. Appended /\ NoNew("LOOP")
  BY NoLoopPrinted DEF IInv
<1>2. ASSUME NEW i \in Defs("LOOP"), Open(i) PROVE Open(i)' \/ Closed(i)'
  <2>1. i \in DOMAIN out /\ out'[i] = out[i]
    BY <1>1, <1>2 DEF Defs, Appended
  <2>2. Open(i)' \/ (Top.h = "while" /\ Top.mem = out[i].n)
    BY <1>1, <1>2, <2>1, StaysOpen
  <2>3. ASSUME Top.h = "while", Top.mem = out[i].n PROVE Open(i)'
    <3>1. WhileCond
      BY <2>3 DEF StatementStep, visit_block, visit_if, IfElseIfCond, IfBlock, IfElseIfBlock,
         IfElseBlock, IfEnd, visit_scope, ScopeEnd, visit_function, FunctionEnd, GenEnd,
         AtStmt, InIf, Running
    <3>2. Running("while") /\ flag' = [flag EXCEPT !.from_loop = @ + 1]
      BY <3>1 DEF WhileCond
    <3>3. flag.loop_num = out[i].n
      BY <2>3, <3>2 DEF LoopRouting
    <3>4. flag.from_loop = 0
      <4>1. DOMAIN todo = {}
        BY <3>2 DEF Running
      <4>2. QED
        BY <4>1 DEF Waiting
    <3>5. flag \in [FlagNames -> Int] /\ {"loop_num", "from_loop"} \subseteq FlagNames
      BY DEF TypeInv, FlagNames
    <3>6. flag'.from_loop = 1 /\ flag'.loop_num = flag.loop_num
      BY <3>2, <3>4, <3>5
    <3>7. QED
      BY <2>1, <3>3, <3>6 DEF Open
  <2>4. QED
    BY <2>2, <2>3
<1>3. QED
  BY <1>1, <1>2, RepeatKeeps

\* and visit_while opens them.
LEMMA Repeat_visit_while ==
    ASSUME IInv, TypeInv, Waiting, Repeating, visit_while
    PROVE  Repeating'
<1>1. Appended /\ New("LOOP", NextLoop)
  BY visit_whilePrints DEF IInv
<1>2. PICK d \in DOMAIN out' :
        d \notin DOMAIN out /\ Defs("LOOP")' = Defs("LOOP") \cup {d} /\ out'[d].n = NextLoop
  BY <1>1 DEF New
<1>3. ASSUME NEW i \in Defs("LOOP") PROVE Closed(i)' \/ Open(i)'
  <2>1. i \in DOMAIN out /\ (Closed(i) \/ Open(i))
    BY <1>3 DEF Repeating, Defs
  <2>2. Top.h # "while" /\ StatementStep
    BY DEF visit_while, AtStmt, Running, StatementStep
  <2>3. QED
    BY <1>1, <2>1, <2>2, ClosedStays, StaysOpen
<1>4. Open(d)'
  <2> DEFINE m == [Top EXCEPT !.i = @ + 1]
             w == Frame("while", NextStmt, "body", NextLoop)
             b == BlockFrame(NextStmt.block)
             t == <<m, w, b>>
  <2>1. frames' = Callers \o (<<m>> \o <<w, b>>) /\ frames # <<>>
    BY DEF visit_while, CallFromBlock, AtStmt, Running
  <2>2. w.h = "while" /\ w.mem = NextLoop
    BY DEF Frame
  <2> HIDE DEF m, w, b
  <2>3. t \in Seq({m, w, b}) /\ Len(t) = 3 /\ t[2] = w /\ frames' = Callers \o t
    BY <2>1
  <2> HIDE DEF t
  <2>4. /\ Len(frames) \in Nat \ {0}
        /\ Len(frames') = Len(frames) - 1 + 3
        /\ \A j \in 1 .. 3 : frames'[Len(frames) - 1 + j] = t[j]
    BY <2>1, <2>3, Stacked
  <2> DEFINE p == Len(frames) - 1 + 2
  <2>5. p \in 1 .. Len(frames') /\ frames'[p] = w
    BY <2>3, <2>4
  <2> HIDE DEF p
  <2>6. QED
    BY <1>2, <2>2, <2>5 DEF Open
<1>5. QED
  BY <1>2, <1>3, <1>4 DEF Repeating

\* Initially and when a run begins nothing is printed but the first line.
LEMMA RepeatBegins ==
    ASSUME IInv, ifj17_gen
    PROVE  Repeating'
<1>1. Defs("LOOP")' = {}
  BY ifj17_genPrints
<1>2. QED
  BY <1>1 DEF Repeating

\* Programs with chained loops: when a run ends, each loop has a jump back to its
\* label behind it.  No loop is printed that never repeats.
THEOREM EachLoopRepeats ==
    ASSUME NEW Free, NEW One, LoopsChained(Free, One)
    PROVE  Spec => [](Finished => LoopsRepeat)
<1> DEFINE All == IInv /\ TypeInv /\ Looping(Free, One) /\ LoopRouting /\ Repeating
<1>1. Init => Repeating
  <2>1. Init => DOMAIN out = {}
    BY DEF Init
  <2>2. QED
    BY <2>1 DEF Repeating, Defs
<1>2. ASSUME IInv, TypeInv, Looping(Free, One), LoopRouting, Repeating, [Next]_vars
      PROVE  Repeating'
  <2>1. Waiting
    BY <1>2 DEF Looping
  <2>2. CASE ifj17_gen
    BY <1>2, <2>2, RepeatBegins
  <2>3. CASE ExpressionStep
    BY <1>2, <2>3, RepeatExpression
  <2>4. CASE StatementStep
    BY <1>2, <2>1, <2>4, RepeatStatement, Repeat_visit_while
  <2>5. CASE UNCHANGED vars
    BY <1>2, <2>5 DEF vars, Repeating, Closed, Open, Defs, Refs
  <2>6. QED
    BY <1>2, <2>2, <2>3, <2>4, <2>5 DEF Next
<1>3. ASSUME Looping(Free, One), Repeating, Finished PROVE LoopsRepeat
  <2>1. 1 .. Len(frames) = {} /\ DOMAIN todo = {}
    BY <1>3 DEF Finished, Idle
  <2>2. flag.from_loop # 1
    BY <1>3, <2>1 DEF Looping, Waiting
  <2>3. QED
    BY <1>3, <2>1, <2>2 DEF Repeating, Open, Closed, LoopsRepeat
<1>4. IInv /\ TypeInv /\ Looping(Free, One) /\ LoopRouting /\ Repeating /\ [Next]_vars => Repeating'
  BY <1>2
<1>5. Looping(Free, One) /\ Repeating => (Finished => LoopsRepeat)
  BY <1>3
<1>6. Spec => [](TypeInv /\ Looping(Free, One))
  <2>1. Init => TypeInv /\ Looping(Free, One)
    BY InitTypes, LoopingInit
  <2>2. TypeInv /\ Looping(Free, One) /\ [Next]_vars => (TypeInv /\ Looping(Free, One))'
    BY TypesKept, LoopingNext
  <2>3. QED
    BY <2>1, <2>2, PTL DEF Spec
<1>7. Spec => []LoopRouting
  BY LoopsRouted
<1>8. QED
  BY <1>1, <1>4, <1>5, <1>6, <1>7, Inductive, PTL DEF Spec

-----------------------------------------------------------------------------
(* Labels that do not meet: the activations.                               *)

\* There is an activation of visit_if below activation p.
Within(s, p) == \E q \in 1 .. p - 1 : s[q].h = "if"

\* Above it there is no other, and the blocks hold no if.
Inner(f, A) == f.h \notin {"if", "scope", "function"} /\ (f.h = "block" => f.node \in A)

\* The program is at the bottom, scope and functions are its own statements.
Stands(s, p, B, A) ==
    /\ s[p].h = "gen" <=> p = 1
    /\ p = 1 => s[p].node \in Programs
    /\ p = 2 => s[p].h = "block" /\ s[p].node = s[1].node
    /\ p > 2 /\ s[p].h = "block" => s[p].node \in B \cup A
    /\ s[p].h \in {"scope", "function"} => p = 3
    /\ s[p].h = "if" => \A j \in Slots(s[p].node) : Branch(s[p].node, j) \in A \cup {Null}
    /\ Within(s, p) => Inner(s[p], A)

Sheltered(s, B, A) == \A p \in 1 .. Len(s) : Stands(s, p, B, A)

\* A step of the innermost activation.
LEMMA ShelterStays ==
    ASSUME TypeInv, frames # <<>>, NEW B, NEW A, Sheltered(frames, B, A),
           NEW T, NEW t \in Seq(T), frames' = Callers \o t,
           Len(t) > 0 => t[1].h = Top.h /\ t[1].node = Top.node,
           Len(t) > 1 => Len(frames) > 1,
           \A j \in 2 .. Len(t) :
             /\ t[j].h # "gen"
             /\ t[j].h = "block" => t[j].node \in B \cup A
             /\ t[j].h \in {"scope", "function"} => j = 2 /\ Len(frames) = 2
             /\ t[j].h = "if" => \A l \in Slots(t[j].node) : Branch(t[j].node, l) \in A \cup {Null}
             /\ Within(frames, Len(frames)) \/ (\E l \in 1 .. j - 1 : t[l].h = "if") => Inner(t[j], A)
    PROVE  Sheltered(frames', B, A)
<1> DEFINE n == Len(frames)
           r == frames'
<1>1. /\ n \in Nat \ {0} /\ Len(t) \in Nat /\ Len(r) = n - 1 + Len(t)
      /\ \A p \in 1 .. n - 1 : r[p] = frames[p]
      /\ \A j \in 1 .. Len(t) : r[n - 1 + j] = t[j]
  BY Stacked
<1>2. Top = frames[n]
  BY DEF Top
<1>3. \A p \in 1 .. n : Stands(frames, p, B, A)
  BY DEF Sheltered
<1> HIDE DEF n, r
<1>4. \A p \in 1 .. n : p <= Len(r) => r[p].h = frames[p].h /\ r[p].node = frames[p].node
  <2>1. SUFFICES ASSUME NEW p \in 1 .. n, p <= Len(r)
                 PROVE  r[p].h = frames[p].h /\ r[p].node = frames[p].node
    OBVIOUS
  <2>2. CASE p = n
    <3>1. Len(t) > 0 /\ 1 \in 1 .. Len(t) /\ n - 1 + 1 = n
      BY <1>1, <2>1, <2>2
    <3>2. r[n] = t[1]
      BY <1>1, <3>1
    <3>3. QED
      BY <1>2, <2>2, <3>1, <3>2
  <2>3. CASE p # n
    BY <1>1, <2>3
  <2>4. QED
    BY <2>2, <2>3
<1>5. ASSUME NEW p \in 1 .. n, p <= Len(r) PROVE Stands(r, p, B, A)
  <2>1. Stands(frames, p, B, A)
    BY <1>3, <1>5
  <2>2. \A q \in 1 .. p - 1 : q \in 1 .. n /\ q <= Len(r)
    BY <1>1, <1>5
  <2>3. Within(r, p) <=> Within(frames, p)
    BY <1>4, <2>2 DEF Within
  <2>4. r[p].h = frames[p].h /\ r[p].node = frames[p].node
    BY <1>4, <1>5
  <2>5. p = 2 => r[1].node = frames[1].node
    BY <1>4, <2>2
  <2>6. QED
    BY <2>1, <2>3, <2>4, <2>5 DEF Stands, Inner
<1>6. ASSUME NEW p \in 1 .. Len(r), ~(p <= n) PROVE Stands(r, p, B, A)
  <2> DEFINE j == p - n + 1
  <2>1. j \in 2 .. Len(t) /\ p = n - 1 + j /\ Len(t) > 1 /\ j \in 1 .. Len(t)
    BY <1>1, <1>6, SMTT(30)
  <2>2. r[p] = t[j] /\ n > 1 /\ p > 2
    <3>1. n > 1
      BY <2>1 DEF n
    <3>2. QED
      BY <1>1, <1>6, <2>1, <3>1
  <2>3. ASSUME Within(r, p) PROVE Inner(r[p], A)
    <3>1. PICK q \in 1 .. p - 1 : r[q].h = "if"
      BY <2>3 DEF Within
    <3>2. CASE q \in 1 .. n - 1
      <4>1. frames[q].h = "if"
        BY <1>1, <3>1, <3>2
      <4>2. Within(frames, n)
        BY <3>2, <4>1 DEF Within
      <4>3. QED
        BY <2>1, <2>2, <4>2 DEF n
    <3>3. CASE q \notin 1 .. n - 1
      <4> DEFINE l == q - n + 1
      <4>1. l \in 1 .. j - 1 /\ q = n - 1 + l /\ l \in 1 .. Len(t)
        BY <1>1, <1>6, <2>1, <3>1, <3>3
      <4>2. t[l].h = "if"
        BY <1>1, <3>1, <4>1
      <4> HIDE DEF l
      <4>3. \E x \in 1 .. j - 1 : t[x].h = "if"
        BY <4>1, <4>2
      <4> HIDE DEF j
      <4>4. QED
        BY <2>1, <2>2, <4>3
    <3>4. QED
      BY <3>2, <3>3
  <2>4. r[p].h \in {"scope", "function"} => p = 3
    <3>1. t[j].h \in {"scope", "function"} => j = 2 /\ n = 2
      BY <2>1 DEF n
    <3>2. j = 2 /\ n = 2 => p = 3
      BY <2>1
    <3> HIDE DEF j
    <3>3. QED
      BY <2>2, <3>1, <3>2
  <2> HIDE DEF j
  <2>5. /\ r[p].h # "gen"
        /\ r[p].h = "block" => r[p].node \in B \cup A
        /\ r[p].h = "if" => \A l \in Slots(r[p].node) : Branch(r[p].node, l) \in A \cup {Null}
    BY <2>1, <2>2
  <2>6. QED
    BY <2>2, <2>3, <2>4, <2>5 DEF Stands
<1>7. QED
  <2>1. \A p \in 1 .. Len(r) : p <= n => p \in 1 .. n
    BY <1>1
  <2>2. QED
    BY <1>5, <1>6, <2>1 DEF Sheltered, r

-----------------------------------------------------------------------------
(* The labels still to come.                                               *)

IfOpen(s)    == \E p \in 1 .. Len(s) : s[p].h = "if"
ElseOpen(s)  == \E p \in 1 .. Len(s) :
    s[p].h = "if" /\ s[p].pc = "blocks" /\ s[p].node.else_block # Null
ScopeOpen(s) == Len(s) > 2 /\ s[3].h = "scope"

\* Statement x of the program is still to be visited.
Pending(s, x) == Len(s) > 1 /\ \E j \in DOMAIN s[2].node.stmts :
    j >= s[2].i /\ s[2].node.stmts[j] = x
ScopeDue(s) == \E x : Pending(s, x) /\ x.type = "SCOPE"
FunctionDue(s, name) == \E x : Pending(s, x) /\ x.type = "FUNCTION" /\ x.name = name

\* Label `name' with number n may still be printed, by the activations s with the
\* counters l.
ToCome(s, l, name, n) ==
    \/ name = "END_IF" /\ (n > l.end_if_num \/ (n = l.end_if_num /\ n > 0 /\ IfOpen(s)))
    \/ name = "END_IF" /\ n = 0 /\ (ScopeDue(s) \/ ScopeOpen(s))
    \/ name = "RES_ELSE" /\ (n > l.else_num \/ (n = l.else_num /\ ElseOpen(s)))
    \/ name = "Scope" /\ n = 0 /\ ScopeDue(s)
    \/ n = 0 /\ FunctionDue(s, name)

\* What a step of the innermost activation leaves to come.
LEMMA LessToCome ==
    ASSUME TypeInv, frames # <<>>,
           NEW T, NEW t \in Seq(T), frames' = Callers \o t,
           Len(t) > 0 => t[1].h = Top.h /\ t[1].node = Top.node,
           Len(t) > 0 /\ Top.h = "block" => t[1].i \in Nat /\ t[1].i >= Top.i,
           Len(frames) = 2 => Top.h = "block",
           Len(t) > 1 => Len(frames) > 1
    PROVE  /\ IfOpen(frames') => IfOpen(frames) \/ \E j \in 2 .. Len(t) : t[j].h = "if"
           /\ ElseOpen(frames') =>
                \/ ElseOpen(frames)
                \/ \E j \in 1 .. Len(t) :
                     t[j].h = "if" /\ t[j].pc = "blocks" /\ t[j].node.else_block # Null
           /\ ScopeOpen(frames') =>
                ScopeOpen(frames) \/ \E j \in 2 .. Len(t) : t[j].h = "scope"
           /\ \A x : Pending(frames', x) => Pending(frames, x)
<1> DEFINE n == Len(frames)
           r == frames'
<1>1. /\ n \in Nat \ {0} /\ Len(t) \in Nat /\ Len(r) = n - 1 + Len(t)
      /\ \A p \in 1 .. n - 1 : r[p] = frames[p]
      /\ \A j \in 1 .. Len(t) : r[n - 1 + j] = t[j]
  BY Stacked
<1>2. Top = frames[n]
  BY DEF Top
<1>3. Len(t) > 1 => n > 1
  OBVIOUS
<1>4. n = 2 => Top.h = "block"
  OBVIOUS
<1> HIDE DEF n, r
<1>5. \A p \in 1 .. Len(r) : \/ p \in 1 .. n - 1 /\ p \in 1 .. n /\ r[p] = frames[p]
                             \/ p = n /\ p \in 1 .. n /\ 1 \in 1 .. Len(t) /\ r[p] = t[1]
                             \/ \E j \in 2 .. Len(t) : j \in 1 .. Len(t) /\ p = n - 1 + j /\ r[p] = t[j]
  <2>1. SUFFICES ASSUME NEW p \in 1 .. Len(r), p \notin 1 .. n - 1
                 PROVE  \/ p = n /\ p \in 1 .. n /\ 1 \in 1 .. Len(t) /\ r[p] = t[1]
                        \/ \E j \in 2 .. Len(t) : j \in 1 .. Len(t) /\ p = n - 1 + j /\ r[p] = t[j]
    BY <1>1
  <2> DEFINE k == p - n + 1
  <2>2. k \in 1 .. Len(t) /\ p = n - 1 + k /\ r[p] = t[k]
    BY <1>1, <2>1
  <2>3. k = 1 => p = n /\ p \in 1 .. n
    BY <1>1
  <2>4. k # 1 => k \in 2 .. Len(t)
    BY <1>1, <2>2
  <2> HIDE DEF k
  <2>5. QED
    BY <2>2, <2>3, <2>4
<1>6. Len(t) > 0 => t[1].h = frames[n].h /\ t[1].node = frames[n].node
  BY <1>2
<1>7. 1 \in 1 .. Len(t) => Len(t) > 0
  BY <1>1
<1>8. n \in 1 .. n
  BY <1>1
<1>9. IfOpen(r) => IfOpen(frames) \/ \E j \in 2 .. Len(t) : t[j].h = "if"
  <2>1. SUFFICES ASSUME NEW p \in 1 .. Len(r), r[p].h = "if", ~\E j \in 2 .. Len(t) : t[j].h = "if"
                 PROVE  \E q \in 1 .. n : frames[q].h = "if"
    BY DEF IfOpen, n
  <2>2. QED
    BY <1>5, <1>6, <1>7, <2>1
<1>10. ElseOpen(r) => \/ ElseOpen(frames)
                      \/ \E j \in 1 .. Len(t) :
                           t[j].h = "if" /\ t[j].pc = "blocks" /\ t[j].node.else_block # Null
  <2>1. SUFFICES ASSUME NEW p \in 1 .. Len(r), r[p].h = "if", r[p].pc = "blocks", r[p].node.else_block # Null,
                        ~\E j \in 1 .. Len(t) :
                           t[j].h = "if" /\ t[j].pc = "blocks" /\ t[j].node.else_block # Null
                 PROVE  \E q \in 1 .. n : frames[q].h = "if" /\ frames[q].pc = "blocks" /\ frames[q].node.else_block # Null
    BY DEF ElseOpen, n
  <2>2. QED
    BY <1>5, <2>1
<1>11. ScopeOpen(r) => ScopeOpen(frames) \/ \E j \in 2 .. Len(t) : t[j].h = "scope"
  <2>1. SUFFICES ASSUME Len(r) > 2, r[3].h = "scope", ~\E j \in 2 .. Len(t) : t[j].h = "scope"
                 PROVE  n > 2 /\ frames[3].h = "scope"
    BY DEF ScopeOpen, n
  <2>2. 3 \in 1 .. Len(r)
    BY <1>1, <2>1
  <2>3. 3 \in 1 .. n => n > 2
    BY <1>1
  <2>4. QED
    BY <1>5, <1>6, <1>7, <2>1, <2>2, <2>3
<1>12. ASSUME NEW x, Pending(r, x) PROVE Pending(frames, x)
  <2>1. PICK j \in DOMAIN r[2].node.stmts : j >= r[2].i /\ r[2].node.stmts[j] = x
    BY <1>12 DEF Pending
  <2>2. Len(r) > 1
    BY <1>12 DEF Pending
  <2>3. CASE n > 2
    <3>1. r[2] = frames[2]
      BY <1>1, <2>3
    <3>2. n > 1
      BY <1>1, <2>3
    <3>3. QED
      BY <2>1, <3>1, <3>2 DEF Pending, n
  <2>4. CASE n = 2
    <3>1. Len(t) > 0 /\ r[2] = t[1]
      BY <1>1, <2>2, <2>4
    <3>2. r[2].node = frames[2].node /\ r[2].i >= frames[2].i /\ r[2].i \in Nat
      BY <1>2, <1>4, <1>6, <2>4, <3>1
    <3>3. frames[2] \in Activations
      BY <2>4, LoopNumbers DEF n
    <3>4. frames[2].i \in Nat /\ frames[2].node \in Nodes /\ frames[2].h = "block" /\ frames[2].node.type = "BLOCK"
      BY <1>2, <1>4, <2>4, <3>3, ActivationShape DEF Takes
    <3>5. j \in Nat
      <4>1. DOMAIN frames[2].node.stmts = 1 .. Len(frames[2].node.stmts)
        BY <3>4, MembersOfNode, LenProperties
      <4>2. QED
        BY <2>1, <3>2, <4>1
    <3>6. j >= frames[2].i
      BY <2>1, <3>2, <3>4, <3>5
    <3>7. n > 1
      BY <2>4
    <3>8. QED
      BY <2>1, <3>2, <3>6, <3>7 DEF Pending, n
  <2>5. CASE n = 1
    BY <1>1, <1>3, <2>2, <2>5
  <2>6. QED
    BY <1>1, <2>3, <2>4, <2>5
<1>13. QED
  BY <1>9, <1>10, <1>11, <1>12 DEF r

-----------------------------------------------------------------------------
(* The labels printed.                                                     *)

LabelOps == {i \in DOMAIN out : out[i] = Op("LABEL")}

\* A label whose number visit_if or visit_while hands out to one activation.
Counter(x) == x.k = "def" /\ x.s \in {"RES_IF", "LOOP"}

\* Every other label printed is the only one of its name and number, and will not
\* be printed again.
Fresh ==
    \A i \in LabelOps :
        /\ i + 1 \in DOMAIN out
        /\ out[i + 1].n \in Nat
        /\ \/ Counter(out[i + 1])
           \/ /\ out[i + 1].s \notin {"RES_IF", "LOOP"}
              /\ ~ToCome(frames, lbl, out[i + 1].s, out[i + 1].n)
              /\ \A j \in LabelOps :
                   out[j + 1].s = out[i + 1].s /\ out[j + 1].n = out[i + 1].n => j = i

NoLabel(t) == \A m \in DOMAIN t : t[m] # Op("LABEL")

\* One LABEL, of x.
OneLabel(t, x) ==
    \E k \in DOMAIN t : /\ k + 1 \in DOMAIN t /\ t[k] = Op("LABEL") /\ t[k + 1] = x
                        /\ \A m \in DOMAIN t : t[m] = Op("LABEL") => m = k

\* A step leaves no more labels to come,
Fewer == \A name : \A n \in Nat : ToCome(frames', lbl', name, n) => ToCome(frames, lbl, name, n)

\* and prints, in what it adds, none or one of them, which then no longer comes.
Prints(t) ==
    \/ NoLabel(t)
    \/ \E x : /\ OneLabel(t, x) /\ x.n \in Nat
              /\ \/ Counter(x)
                 \/ /\ x.s \notin {"RES_IF", "LOOP"}
                    /\ ToCome(frames, lbl, x.s, x.n)
                    /\ ~ToCome(frames', lbl', x.s, x.n)

\* What is new may be printed: a step that prints one LABEL at most.
LEMMA FreshKeeps ==
    ASSUME out \in Seq(Elements(out)), Fresh, NEW T, NEW t \in Seq(T), out' = out \o t,
           Fewer, Prints(t)
    PROVE  Fresh'
<1> DEFINE S == Elements(out)
           z == Len(out)
           r == out'
<1>1. out \in Seq(S)
  OBVIOUS
<1> HIDE DEF S
<1>2. /\ z \in Nat /\ DOMAIN out = 1 .. z /\ DOMAIN t = 1 .. Len(t) /\ Len(t) \in Nat
      /\ DOMAIN r = 1 .. (z + Len(t))
      /\ \A i \in DOMAIN out : r[i] = out[i]
      /\ \A i \in DOMAIN t : r[z + i] = t[i]
  BY <1>1, CatFacts
<1> HIDE DEF z, r
<1> DEFINE Old == {i \in DOMAIN out : out[i] = Op("LABEL")}
<1>3. Old = LabelOps /\ Old \subseteq DOMAIN out
  BY DEF LabelOps
<1>4. \A i \in Old : i + 1 \in DOMAIN out /\ i \in DOMAIN r /\ i + 1 \in DOMAIN r /\ r[i] = out[i] /\ r[i + 1] = out[i + 1]
  BY <1>2, <1>3 DEF Fresh
<1>5. \A i \in DOMAIN r : r[i] = Op("LABEL") => \/ i \in Old
                                              \/ \E m \in DOMAIN t : i = z + m /\ t[m] = Op("LABEL")
  <2>1. SUFFICES ASSUME NEW i \in DOMAIN r, r[i] = Op("LABEL"), i \notin Old
                 PROVE  \E m \in DOMAIN t : i = z + m /\ t[m] = Op("LABEL")
    OBVIOUS
  <2>2. i - z \in DOMAIN t /\ i = z + (i - z)
    BY <1>2, <2>1
  <2>3. QED
    BY <1>2, <2>1, <2>2
<1>6. ASSUME NEW i \in Old
      PROVE  /\ out[i + 1].n \in Nat
             /\ \/ Counter(out[i + 1])
                \/ /\ out[i + 1].s \notin {"RES_IF", "LOOP"}
                   /\ ~ToCome(frames, lbl, out[i + 1].s, out[i + 1].n)
                   /\ ~ToCome(frames', lbl', out[i + 1].s, out[i + 1].n)
                   /\ \A j \in Old : out[j + 1].s = out[i + 1].s /\ out[j + 1].n = out[i + 1].n => j = i
  BY <1>3, <1>4 DEF Fresh, Fewer
<1>7. CASE NoLabel(t)
  <2> HIDE DEF Old
  <2>1. LabelOps' = Old
    <3>1. \A i \in DOMAIN r : r[i] = Op("LABEL") => i \in Old
      BY <1>5, <1>7 DEF NoLabel
    <3>2. \A i \in Old : i \in DOMAIN r /\ r[i] = Op("LABEL")
      BY <1>4 DEF Old
    <3>3. {i \in DOMAIN r : r[i] = Op("LABEL")} = Old
      BY <3>1, <3>2
    <3>4. QED
      BY <3>3 DEF LabelOps, r
  <2>2. ASSUME NEW i \in Old
        PROVE  /\ i + 1 \in DOMAIN r /\ r[i + 1].n \in Nat
               /\ \/ Counter(r[i + 1])
                  \/ /\ r[i + 1].s \notin {"RES_IF", "LOOP"}
                     /\ ~ToCome(frames', lbl', r[i + 1].s, r[i + 1].n)
                     /\ \A j \in Old :
                          r[j + 1].s = r[i + 1].s /\ r[j + 1].n = r[i + 1].n => j = i
    BY <1>4, <1>6
  <2>3. QED
    BY <2>1, <2>2 DEF Fresh, r, Counter
<1>8. ASSUME NEW x, OneLabel(t, x), x.n \in Nat,
             \/ Counter(x)
             \/ /\ x.s \notin {"RES_IF", "LOOP"}
                /\ ToCome(frames, lbl, x.s, x.n)
                /\ ~ToCome(frames', lbl', x.s, x.n)
      PROVE  Fresh'
  <2>1. PICK k \in DOMAIN t : /\ k + 1 \in DOMAIN t /\ t[k] = Op("LABEL") /\ t[k + 1] = x
                              /\ \A m \in DOMAIN t : t[m] = Op("LABEL") => m = k
    BY <1>8 DEF OneLabel
  <2> DEFINE d == z + k
  <2>2. d \in DOMAIN r /\ r[d] = Op("LABEL") /\ d + 1 \in DOMAIN r /\ r[d + 1] = x /\ d \notin Old
    <3>1. k \in 1 .. Len(t) /\ k + 1 \in 1 .. Len(t)
      BY <1>2, <2>1
    <3>2. d + 1 = z + (k + 1) /\ d \in 1 .. (z + Len(t)) /\ d + 1 \in 1 .. (z + Len(t)) /\ d \notin 1 .. z
      <4>1. z \in Nat /\ Len(t) \in Nat
        BY <1>2
      <4>2. d + 1 = z + (k + 1)
        BY <3>1, <4>1
      <4>3. d \in 1 .. (z + Len(t))
        BY <3>1, <4>1
      <4>4. d + 1 \in 1 .. (z + Len(t))
        BY <3>1, <4>1
      <4>5. d \notin 1 .. z
        BY <3>1, <4>1
      <4>6. QED
        BY <4>2, <4>3, <4>4, <4>5
    <3>3. QED
      <4>1. r[z + k] = t[k] /\ r[z + (k + 1)] = t[k + 1]
        BY <1>2, <2>1
      <4>2. Old \subseteq 1 .. z
        BY <1>2, <1>3
      <4> HIDE DEF Old
      <4>3. QED
        BY <1>2, <2>1, <3>2, <4>1, <4>2
  <2>3. LabelOps' = Old \cup {d}
    <3>1. \A i \in DOMAIN r : r[i] = Op("LABEL") => i \in Old \cup {d}
      BY <1>5, <2>1
    <3>2. \A i \in Old \cup {d} : i \in DOMAIN r /\ r[i] = Op("LABEL")
      BY <1>4, <2>2
    <3> HIDE DEF Old, d
    <3>3. {i \in DOMAIN r : r[i] = Op("LABEL")} = Old \cup {d}
      BY <3>1, <3>2
    <3>4. QED
      BY <3>3 DEF LabelOps, r
  <2> HIDE DEF d, Old
  <2>4. ASSUME NEW i \in Old, ~Counter(out[i + 1])
        PROVE  ~(x.s = out[i + 1].s /\ x.n = out[i + 1].n)
    BY <1>6, <1>8, <2>4 DEF Counter
  <2>5. ASSUME NEW i \in Old
        PROVE  /\ i + 1 \in DOMAIN r /\ r[i + 1].n \in Nat
               /\ \/ Counter(r[i + 1])
                  \/ /\ r[i + 1].s \notin {"RES_IF", "LOOP"}
                     /\ ~ToCome(frames', lbl', r[i + 1].s, r[i + 1].n)
                     /\ \A j \in Old \cup {d} :
                          r[j + 1].s = r[i + 1].s /\ r[j + 1].n = r[i + 1].n => j = i
    BY <1>4, <1>6, <2>2, <2>4, SMTT(30)
  <2>6. \/ Counter(x)
        \/ /\ x.s \notin {"RES_IF", "LOOP"}
           /\ ~ToCome(frames', lbl', x.s, x.n)
           /\ \A j \in Old \cup {d} : r[j + 1].s = x.s /\ r[j + 1].n = x.n => j = d
    BY <1>4, <1>6, <1>8 DEF Counter
  <2>7. QED
    BY <1>8, <2>2, <2>3, <2>5, <2>6 DEF Fresh, r, Counter
<1>9. QED
  BY <1>7, <1>8 DEF Prints

-----------------------------------------------------------------------------
(* The lines printed.                                                      *)

LEMMA NoLabelTokens ==
    ASSUME NEW T, NEW t \in Seq(T), \A x \in T : x # Op("LABEL")
    PROVE  NoLabel(t)
BY ElementOfSeq, LenProperties DEF NoLabel

LEMMA NoLabelCat ==
    ASSUME NEW S, NEW T, NEW s \in Seq(S), NEW t \in Seq(T), NoLabel(s), NoLabel(t)
    PROVE  s \o t \in Seq(S \cup T) /\ NoLabel(s \o t)
<1> DEFINE r == s \o t
<1>1. /\ r \in Seq(S \cup T)
      /\ \A i \in DOMAIN r :
           (i \in DOMAIN s /\ r[i] = s[i]) \/ \E j \in DOMAIN t : r[i] = t[j]
  BY CatFacts, CatElements
<1> HIDE DEF r
<1>2. NoLabel(r)
  BY <1>1 DEF NoLabel
<1>3. QED
  BY <1>1, <1>2 DEF r

LEMMA OneLabelLater ==
    ASSUME NEW S, NEW T, NEW s \in Seq(S), NEW t \in Seq(T), NEW x, NoLabel(s), OneLabel(t, x)
    PROVE  s \o t \in Seq(S \cup T) /\ OneLabel(s \o t, x)
<1> DEFINE r == s \o t
<1>1. /\ r \in Seq(S \cup T)
      /\ Len(s) \in Nat /\ Len(t) \in Nat
      /\ DOMAIN s = 1 .. Len(s) /\ DOMAIN t = 1 .. Len(t)
      /\ DOMAIN r = 1 .. (Len(s) + Len(t))
      /\ \A i \in DOMAIN t : r[Len(s) + i] = t[i]
      /\ \A i \in DOMAIN r :
            \/ i \in DOMAIN s /\ r[i] = s[i]
            \/ i \in Int /\ i > Len(s) /\ i - Len(s) \in DOMAIN t /\ r[i] = t[i - Len(s)]
  BY CatFacts
<1> HIDE DEF r
<1>2. PICK k \in DOMAIN t : /\ k + 1 \in DOMAIN t /\ t[k] = Op("LABEL") /\ t[k + 1] = x
                            /\ \A m \in DOMAIN t : t[m] = Op("LABEL") => m = k
  BY DEF OneLabel
<1> DEFINE d == Len(s) + k
<1>3. d \in DOMAIN r /\ d + 1 \in DOMAIN r /\ d + 1 = Len(s) + (k + 1)
  BY <1>1, <1>2
<1>4. r[d] = Op("LABEL") /\ r[d + 1] = x
  BY <1>1, <1>2, <1>3
<1>5. ASSUME NEW m \in DOMAIN r, r[m] = Op("LABEL") PROVE m = d
  <2>1. m \in Int /\ m - Len(s) \in DOMAIN t /\ r[m] = t[m - Len(s)]
    BY <1>1, <1>5 DEF NoLabel
  <2>2. m - Len(s) = k
    BY <1>2, <1>5, <2>1
  <2>3. QED
    BY <1>1, <1>2, <2>1, <2>2
<1>6. OneLabel(r, x)
  BY <1>3, <1>4, <1>5 DEF OneLabel
<1>7. QED
  BY <1>1, <1>6 DEF r

LEMMA OneLabelFirst ==
    ASSUME NEW S, NEW T, NEW s \in Seq(S), NEW t \in Seq(T), NEW x, OneLabel(s, x), NoLabel(t)
    PROVE  s \o t \in Seq(S \cup T) /\ OneLabel(s \o t, x)
<1> DEFINE r == s \o t
<1>1. /\ r \in Seq(S \cup T)
      /\ \A i \in DOMAIN s : i \in DOMAIN r /\ r[i] = s[i]
      /\ \A i \in DOMAIN r :
           (i \in DOMAIN s /\ r[i] = s[i]) \/ \E j \in DOMAIN t : r[i] = t[j]
  BY CatFacts, CatElements
<1> HIDE DEF r
<1>2. OneLabel(r, x)
  BY <1>1 DEF NoLabel, OneLabel
<1>3. QED
  BY <1>1, <1>2 DEF r

LEMMA JumpNoLabel ==
    ASSUME NEW s, NEW n
    PROVE  JumpLine(s, n) \in Seq({Op("JUMP"), Ref(s, n), NL}) /\ NoLabel(JumpLine(s, n))
<1> DEFINE T == {Op("JUMP"), Ref(s, n), NL}
<1>1. JumpLine(s, n) \in Seq(T)
  BY DEF JumpLine
<1>2. \A x \in T : x # Op("LABEL")
  BY DEF Op, Ref, NL, Tok
<1> HIDE DEF T
<1>3. NoLabel(JumpLine(s, n))
  BY <1>1, <1>2, NoLabelTokens
<1>4. QED
  BY <1>1, <1>3 DEF T

LEMMA LineOneLabel ==
    ASSUME NEW x, x # Op("LABEL")
    PROVE  LET t == <<Op("LABEL"), x, NL>>
           IN  t \in Seq({Op("LABEL"), x, NL}) /\ OneLabel(t, x)
<1> DEFINE t == <<Op("LABEL"), x, NL>>
<1>1. t \in Seq({Op("LABEL"), x, NL}) /\ DOMAIN t = 1 .. 3 /\ t[1] = Op("LABEL") /\ t[2] = x /\ t[3] = NL
  OBVIOUS
<1> HIDE DEF t
<1>2. NL # Op("LABEL")
  BY DEF Op, NL, Tok
<1>3. \A m \in 1 .. 3 : m = 1 \/ m = 2 \/ m = 3
  OBVIOUS
<1>4. 1 + 1 = 2 /\ 1 \in 1 .. 3 /\ 2 \in 1 .. 3
  OBVIOUS
<1>5. OneLabel(t, x)
  BY <1>1, <1>2, <1>3, <1>4 DEF OneLabel
<1>6. QED
  BY <1>1, <1>5 DEF t

-----------------------------------------------------------------------------
(* The steps of the handlers.                                              *)

\* What holds between steps: the scope comes once, and an if that is open has
\* its END_IF label.
Apartness(B, A) ==
    /\ Sheltered(frames, B, A)
    /\ IfOpen(frames) => lbl.end_if_num > 0
    /\ ScopeOpen(frames) => ~ScopeDue(frames)
    /\ Fresh

\* The handler of activation f may be called here: B, A as in the class.
Called(f, B, A) ==
    /\ f.h # "gen"
    /\ f.h = "block" => f.node \in B \cup A
    /\ f.h \in {"scope", "function"} => Len(frames) = 2
    /\ f.h = "if" => \A l \in Slots(f.node) : Branch(f.node, l) \in A \cup {Null}
    /\ Within(frames, Len(frames)) => Inner(f, A)

HasElse(f) == f.h = "if" /\ f.pc = "blocks" /\ f.node.else_block # Null

\* An activation that is replaced by m.
MovesOn(m) == /\ m.h = Top.h /\ m.node = Top.node
              /\ Top.h = "block" => m.i \in Nat /\ m.i >= Top.i
              /\ HasElse(m) => HasElse(Top) \/ lbl'.else_num > lbl.else_num

CountsUp == /\ {lbl.end_if_num, lbl'.end_if_num, lbl.else_num, lbl'.else_num} \subseteq Nat
            /\ lbl'.end_if_num >= lbl.end_if_num /\ lbl'.else_num >= lbl.else_num

\* The program calls the first activation, and that one the handler of its block.
LEMMA Bottom ==
    ASSUME TypeInv, frames # <<>>, NEW B, NEW A, Sheltered(frames, B, A)
    PROVE  /\ Len(frames) \in Nat \ {0} /\ Top = frames[Len(frames)] /\ Top \in Activations
           /\ Len(frames) = 1 => Top.h = "gen"
           /\ Len(frames) # 1 => Len(frames) > 1
           /\ Len(frames) = 2 => Top.h = "block"
           /\ Stands(frames, Len(frames), B, A) /\ Stands(frames, 1, B, A)
<1> DEFINE n == Len(frames)
<1>1. n \in Nat \ {0}
  BY EmptySeq, LenProperties DEF TypeInv
<1>2. Top = frames[n] /\ Top \in Activations
  BY TopFacts DEF Top
<1>3. Stands(frames, n, B, A) /\ Stands(frames, 1, B, A)
  BY <1>1 DEF Sheltered
<1>4. n = 1 => Top.h = "gen"
  BY <1>2, <1>3 DEF Stands
<1>5. n = 2 => Top.h = "block"
  BY <1>2, <1>3 DEF Stands
<1>6. n # 1 => n > 1
  <2> HIDE DEF n
  <2>1. QED
    BY <1>1
<1>7. QED
  BY <1>1, <1>2, <1>3, <1>4, <1>5, <1>6

\* What comes after a step was to come before it.
LEMMA FewerToCome ==
    ASSUME CountsUp,
           IfOpen(frames') => IfOpen(frames) \/ lbl'.end_if_num > lbl.end_if_num,
           ElseOpen(frames') => ElseOpen(frames) \/ lbl'.else_num > lbl.else_num,
           ScopeOpen(frames') => ScopeOpen(frames) \/ ScopeDue(frames),
           \A x : Pending(frames', x) => Pending(frames, x)
    PROVE  Fewer
<1>1. ScopeDue(frames') => ScopeDue(frames)
  BY DEF ScopeDue
<1>2. \A name : FunctionDue(frames', name) => FunctionDue(frames, name)
  BY DEF FunctionDue
<1>3. SUFFICES ASSUME NEW name, NEW n \in Nat, ToCome(frames', lbl', name, n)
               PROVE  ToCome(frames, lbl, name, n)
  BY DEF Fewer
<1>4. CASE name = "END_IF" /\ (n > lbl'.end_if_num \/ (n = lbl'.end_if_num /\ n > 0 /\ IfOpen(frames')))
  <2>1. n > lbl.end_if_num \/ (n = lbl.end_if_num /\ n > 0 /\ IfOpen(frames))
    BY <1>4 DEF CountsUp
  <2>2. QED
    BY <1>4, <2>1 DEF ToCome
<1>5. CASE name = "END_IF" /\ n = 0 /\ (ScopeDue(frames') \/ ScopeOpen(frames'))
  BY <1>1, <1>5 DEF ToCome
<1>6. CASE name = "RES_ELSE" /\ (n > lbl'.else_num \/ (n = lbl'.else_num /\ ElseOpen(frames')))
  <2>1. n > lbl.else_num \/ (n = lbl.else_num /\ ElseOpen(frames))
    BY <1>6 DEF CountsUp
  <2>2. QED
    BY <1>6, <2>1 DEF ToCome
<1>7. CASE (name = "Scope" /\ n = 0 /\ ScopeDue(frames')) \/ (n = 0 /\ FunctionDue(frames', name))
  BY <1>1, <1>2, <1>7 DEF ToCome
<1>8. QED
  BY <1>3, <1>4, <1>5, <1>6, <1>7 DEF ToCome

\* A step of the innermost activation.
LEMMA ApartKeeps ==
    ASSUME TypeInv, out \in Seq(Elements(out)), frames # <<>>, NEW B, NEW A, Apartness(B, A), CountsUp,
           NEW T, NEW t \in Seq(T), frames' = Callers \o t,
           Len(t) > 0 => MovesOn(t[1]),
           Len(t) > 1 => Len(frames) > 1,
           \A j \in 2 .. Len(t) :
             /\ Called(t[j], B, A)
             /\ t[j].h \in {"scope", "function"} => j = 2
             /\ t[j].h = "scope" => ScopeDue(frames) /\ ~ScopeDue(frames')
             /\ t[j].h = "if" => lbl'.end_if_num > lbl.end_if_num /\ ~HasElse(t[j]) /\ Len(t) = 2
             /\ Top.h = "if" => Inner(t[j], A),
           NEW U, NEW u \in Seq(U), out' = out \o u, Prints(u)
    PROVE  Apartness(B, A)'
<1> DEFINE n == Len(frames)
<1>1. Sheltered(frames, B, A) /\ (IfOpen(frames) => lbl.end_if_num > 0)
      /\ (ScopeOpen(frames) => ~ScopeDue(frames)) /\ Fresh
  BY DEF Apartness
<1>2. /\ n \in Nat \ {0} /\ Top = frames[n] /\ Top \in Activations
      /\ n = 1 => Top.h = "gen"
      /\ n = 2 => Top.h = "block"
  BY <1>1, Bottom
<1>3. Len(t) \in Nat
  BY LenProperties
<1>4. Sheltered(frames', B, A)
  <2>1. Len(t) > 0 => t[1].h = Top.h /\ t[1].node = Top.node
    BY DEF MovesOn
  <2>2. ASSUME NEW j \in 2 .. Len(t)
        PROVE  /\ t[j].h # "gen"
               /\ t[j].h = "block" => t[j].node \in B \cup A
               /\ t[j].h \in {"scope", "function"} => j = 2 /\ Len(frames) = 2
               /\ t[j].h = "if" => \A l \in Slots(t[j].node) : Branch(t[j].node, l) \in A \cup {Null}
               /\ Within(frames, Len(frames)) \/ (\E l \in 1 .. j - 1 : t[l].h = "if") => Inner(t[j], A)
    <3>1. Called(t[j], B, A)
      BY <2>2
    <3>2. ASSUME NEW l \in 1 .. j - 1, t[l].h = "if" PROVE Inner(t[j], A)
      <4>1. l = 1 \/ l \in 2 .. Len(t)
        BY <1>3, <2>2
      <4>2. CASE l = 1
        <5>1. Top.h = "if"
          BY <1>3, <2>1, <2>2, <3>2, <4>2
        <5>2. QED
          BY <2>2, <5>1
      <4>3. CASE l \in 2 .. Len(t)
        <5>1. Len(t) = 2
          BY <3>2, <4>3
        <5>2. QED
          BY <2>2, <3>2, <4>3, <5>1
      <4>4. QED
        BY <4>1, <4>2, <4>3
    <3>3. QED
      BY <2>2, <3>1, <3>2 DEF Called
  <2>3. QED
    BY <1>1, <2>1, <2>2, ShelterStays
<1>5. /\ IfOpen(frames') => IfOpen(frames) \/ \E j \in 2 .. Len(t) : t[j].h = "if"
      /\ ElseOpen(frames') => ElseOpen(frames) \/ \E j \in 1 .. Len(t) : HasElse(t[j])
      /\ ScopeOpen(frames') => ScopeOpen(frames) \/ \E j \in 2 .. Len(t) : t[j].h = "scope"
      /\ \A x : Pending(frames', x) => Pending(frames, x)
  <2>1. Len(t) > 0 => t[1].h = Top.h /\ t[1].node = Top.node
    BY DEF MovesOn
  <2>2. Len(t) > 0 /\ Top.h = "block" => t[1].i \in Nat /\ t[1].i >= Top.i
    BY DEF MovesOn
  <2>3. QED
    BY <1>2, <2>1, <2>2, LessToCome DEF HasElse
<1>6. IfOpen(frames') => IfOpen(frames) \/ lbl'.end_if_num > lbl.end_if_num
  BY <1>5
<1>7. ElseOpen(frames') => ElseOpen(frames) \/ lbl'.else_num > lbl.else_num
  <2>1. SUFFICES ASSUME NEW j \in 1 .. Len(t), HasElse(t[j])
                 PROVE  ElseOpen(frames) \/ lbl'.else_num > lbl.else_num
    BY <1>5
  <2>2. j = 1
    <3>1. j \in 2 .. Len(t) => t[j].h # "if"
      BY <2>1
    <3>2. j = 1 \/ j \in 2 .. Len(t)
      BY <1>3
    <3>3. QED
      BY <2>1, <3>1, <3>2 DEF HasElse
  <2>3. MovesOn(t[1])
    BY <1>3, <2>1, <2>2
  <2>4. HasElse(Top) => ElseOpen(frames)
    <3>1. n \in 1 .. n
      BY <1>2
    <3>2. QED
      BY <1>2, <3>1 DEF HasElse, ElseOpen
  <2>5. QED
    BY <2>1, <2>2, <2>3, <2>4 DEF MovesOn
<1>8. ScopeOpen(frames') => ScopeOpen(frames) \/ (ScopeDue(frames) /\ ~ScopeDue(frames'))
  BY <1>5
<1>9. Fewer
  BY <1>5, <1>6, <1>7, <1>8, FewerToCome
<1>10. Fresh'
  BY <1>1, <1>9, FreshKeeps
<1>11. IfOpen(frames') => lbl'.end_if_num > 0
  BY <1>1, <1>6 DEF CountsUp
<1>12. ScopeOpen(frames') => ~ScopeDue(frames')
  <2>1. ScopeDue(frames') => ScopeDue(frames)
    BY <1>5 DEF ScopeDue
  <2>2. QED
    BY <1>1, <1>8, <2>1
<1>13. QED
  BY <1>4, <1>10, <1>11, <1>12 DEF Apartness

\* It returns, stays, or calls one handler or two.
LEMMA ApartReturns ==
    ASSUME TypeInv, out \in Seq(Elements(out)), frames # <<>>, NEW B, NEW A, Apartness(B, A), CountsUp,
           frames' = Callers, NEW U, NEW u \in Seq(U), out' = out \o u, Prints(u)
    PROVE  Apartness(B, A)'
<1> DEFINE t == <<>>
           T == {}
<1>1. t \in Seq(T) /\ Len(t) = 0
  OBVIOUS
<1>2. frames' = Callers \o t
  BY TopFacts, ConcatProperties
<1> HIDE DEF t, T
<1>3. ~(Len(t) > 0) /\ ~(Len(t) > 1)
  BY <1>1
<1>4. \A j \in 2 .. Len(t) :
        /\ Called(t[j], B, A)
        /\ t[j].h \in {"scope", "function"} => j = 2
        /\ t[j].h = "scope" => ScopeDue(frames) /\ ~ScopeDue(frames')
        /\ t[j].h = "if" => lbl'.end_if_num > lbl.end_if_num /\ ~HasElse(t[j]) /\ Len(t) = 2
        /\ Top.h = "if" => Inner(t[j], A)
  BY <1>1
<1>5. QED
  BY <1>1, <1>2, <1>3, <1>4, ApartKeeps

LEMMA ApartMoves ==
    ASSUME TypeInv, out \in Seq(Elements(out)), frames # <<>>, NEW B, NEW A, Apartness(B, A), CountsUp,
           NEW m, MovesOn(m), frames' = Callers \o <<m>>,
           NEW U, NEW u \in Seq(U), out' = out \o u, Prints(u)
    PROVE  Apartness(B, A)'
<1> DEFINE t == <<m>>
           T == {m}
<1>1. t \in Seq(T) /\ Len(t) = 1 /\ t[1] = m /\ frames' = Callers \o t
  OBVIOUS
<1> HIDE DEF t, T
<1>2. ~(Len(t) > 1)
  BY <1>1
<1>3. \A j \in 2 .. Len(t) :
        /\ Called(t[j], B, A)
        /\ t[j].h \in {"scope", "function"} => j = 2
        /\ t[j].h = "scope" => ScopeDue(frames) /\ ~ScopeDue(frames')
        /\ t[j].h = "if" => lbl'.end_if_num > lbl.end_if_num /\ ~HasElse(t[j]) /\ Len(t) = 2
        /\ Top.h = "if" => Inner(t[j], A)
  BY <1>1
<1>4. QED
  BY <1>1, <1>2, <1>3, ApartKeeps

LEMMA ApartCalls ==
    ASSUME TypeInv, out \in Seq(Elements(out)), frames # <<>>, NEW B, NEW A, Apartness(B, A), CountsUp,
           NEW m, MovesOn(m), NEW x, Called(x, B, A), frames' = Callers \o <<m, x>>, Len(frames) > 1,
           x.h # "scope",
           x.h = "if" => lbl'.end_if_num > lbl.end_if_num /\ ~HasElse(x),
           Top.h = "if" => Inner(x, A),
           NEW U, NEW u \in Seq(U), out' = out \o u, Prints(u)
    PROVE  Apartness(B, A)'
<1> DEFINE t == <<m, x>>
           T == {m, x}
<1>1. t \in Seq(T) /\ Len(t) = 2 /\ t[1] = m /\ t[2] = x /\ frames' = Callers \o t
  OBVIOUS
<1> HIDE DEF t, T
<1>2. \A j \in 2 .. Len(t) : j = 2
  BY <1>1
<1>3. QED
  BY <1>1, <1>2, ApartKeeps

LEMMA ApartCallsTwo ==
    ASSUME TypeInv, out \in Seq(Elements(out)), frames # <<>>, NEW B, NEW A, Apartness(B, A), CountsUp,
           NEW m, MovesOn(m), NEW x, Called(x, B, A), NEW y, Called(y, B, A),
           frames' = Callers \o <<m, x, y>>, Len(frames) > 1, Top.h = "block",
           x.h # "if", y.h = "block",
           x.h = "scope" => ScopeDue(frames) /\ ~ScopeDue(frames'),
           NEW U, NEW u \in Seq(U), out' = out \o u, Prints(u)
    PROVE  Apartness(B, A)'
<1> DEFINE t == <<m, x, y>>
           T == {m, x, y}
<1>1. t \in Seq(T) /\ Len(t) = 3 /\ t[1] = m /\ t[2] = x /\ t[3] = y /\ frames' = Callers \o t
  OBVIOUS
<1> HIDE DEF t, T
<1>2. \A j \in 2 .. Len(t) : j = 2 \/ j = 3
  BY <1>1
<1>3. QED
  BY <1>1, <1>2, ApartKeeps

\* What the class says of the statement visited next.
LEMMA StatementHere ==
    ASSUME TypeInv, NEW B, NEW A, LabelsApart(Programs, Nodes, B, A), Sheltered(frames, B, A),
           NEW T, AtStmt(T)
    PROVE  /\ frames # <<>> /\ Top.h = "block" /\ Len(frames) > 1 /\ NextStmt.type \in T
           /\ Top.i \in DOMAIN Top.node.stmts /\ Top.node.stmts[Top.i] = NextStmt
           /\ NextStmt.type = "IF" => \A l \in Slots(NextStmt) : Branch(NextStmt, l) \in A \cup {Null}
           /\ NextStmt.type = "WHILE" => NextStmt.block \in B \cup A
           /\ NextStmt.type \in {"SCOPE", "FUNCTION"} =>
                Len(frames) = 2 /\ Top.node \in Programs /\ NextStmt.block \in B
           /\ Within(frames, Len(frames)) =>
                /\ NextStmt.type \notin {"IF", "SCOPE", "FUNCTION"}
                /\ NextStmt.type = "WHILE" => NextStmt.block \in A
<1> DEFINE n == Len(frames)
           x == NextStmt
<1>1. frames # <<>> /\ Top.h = "block" /\ Top.i <= Len(Top.node.stmts) /\ x.type \in T
  BY DEF AtStmt, Running
<1>2. /\ n \in Nat \ {0} /\ Top = frames[n] /\ Top \in Activations /\ n # 1
      /\ Stands(frames, n, B, A) /\ Stands(frames, 1, B, A)
  BY <1>1, Bottom
<1>3. Top.i \in DOMAIN Top.node.stmts /\ Top.node.stmts[Top.i] = x
  <2>1. Top.node \in Nodes /\ Top.node.type = "BLOCK" /\ Top.i \in Nat \ {0}
    BY <1>1, <1>2, ActivationShape DEF Takes
  <2>2. Top.node.stmts \in Seq(Node)
    BY <2>1, MembersOfNode
  <2>3. DOMAIN Top.node.stmts = 1 .. Len(Top.node.stmts) /\ Len(Top.node.stmts) \in Nat
    BY <2>2, LenProperties
  <2>4. QED
    BY <1>1, <2>1, <2>3 DEF NextStmt
<1>4. CASE n = 2
  <2>1. Top.node \in Programs
    BY <1>2, <1>4 DEF Stands
  <2>2. /\ Apart(x, B, A)
        /\ x.type \in {"SCOPE", "FUNCTION"} => x.block \in B
    BY <1>3, <2>1 DEF LabelsApart
  <2>3. ~Within(frames, n)
    <3>1. \A q \in 1 .. n - 1 : q = 1
      BY <1>4
    <3>2. frames[1].h = "gen"
      BY <1>2 DEF Stands
    <3>3. QED
      BY <3>1, <3>2 DEF Within
  <2>4. QED
    BY <1>1, <1>2, <1>3, <1>4, <2>1, <2>2, <2>3 DEF Apart
<1>5. CASE n # 2
  <2>1. n > 2 /\ Top.node \in B \cup A /\ (Within(frames, n) => Top.node \in A)
    <3> HIDE DEF n
    <3>1. n > 2
      BY <1>2, <1>5
    <3>2. QED
      BY <1>1, <1>2, <3>1 DEF Stands, Inner
  <2>2. Top.node \in A => x.type \notin {"IF", "SCOPE", "FUNCTION"} /\ Apart(x, A, A)
    BY <1>3 DEF LabelsApart
  <2>3. Top.node \in B => x.type \notin {"SCOPE", "FUNCTION"} /\ Apart(x, B, A)
    BY <1>3 DEF LabelsApart
  <2>4. /\ x.type = "IF" => \A l \in Slots(x) : Branch(x, l) \in A \cup {Null}
        /\ x.type = "WHILE" => x.block \in B \cup A
        /\ x.type \notin {"SCOPE", "FUNCTION"}
    BY <2>1, <2>2, <2>3 DEF Apart
  <2>5. Within(frames, n) => /\ x.type \notin {"IF", "SCOPE", "FUNCTION"}
                             /\ x.type = "WHILE" => x.block \in A
    BY <2>1, <2>2 DEF Apart
  <2>6. QED
    BY <1>1, <1>2, <1>3, <2>1, <2>4, <2>5
<1>6. QED
  BY <1>4, <1>5

\* A step that leaves the counters or the output alone.
LEMMA NothingCounted ==
    ASSUME TypeInv, UNCHANGED lbl
    PROVE  CountsUp
BY DEF TypeInv, CountsUp, LblNames

LEMMA NothingPrinted ==
    ASSUME out \in Seq(Elements(out)), UNCHANGED out
    PROVE  <<>> \in Seq({}) /\ out' = out \o <<>> /\ Prints(<<>>)
<1>1. NoLabel(<<>>)
  BY DEF NoLabel
<1>2. out \o <<>> = out
  BY ConcatProperties
<1>3. QED
  BY <1>1, <1>2 DEF Prints

\* The block that calls.
LEMMA BlockMovesOn ==
    ASSUME TypeInv, frames # <<>>, Top.h = "block"
    PROVE  MovesOn([Top EXCEPT !.i = @ + 1])
<1> DEFINE m == [Top EXCEPT !.i = @ + 1]
<1>1. m.h = Top.h /\ m.node = Top.node /\ m.i = Top.i + 1
  BY Moved
<1>2. Top.i \in Nat
  BY TopFacts, ActivationShape
<1> HIDE DEF m
<1>3. MovesOn(m)
  BY <1>1, <1>2 DEF MovesOn, HasElse
<1>4. QED
  BY <1>3 DEF m

\* A line without labels, then a label.
LEMMA JumpThenLabel ==
    ASSUME out \in Seq(Elements(out)), NEW T, NEW s \in Seq(T), NoLabel(s), NEW name, NEW num,
           out' = (out \o s) \o LabelLine(name, num)
    PROVE  \E U : \E u \in Seq(U) : out' = out \o u /\ OneLabel(u, Def(name, num))
<1> DEFINE x == Def(name, num)
           t == <<Op("LABEL"), x, NL>>
           N == {Op("LABEL"), x, NL}
           O == Elements(out)
           u == s \o t
<1>1. x # Op("LABEL")
  BY DEF Def, Op, Tok
<1> HIDE DEF x
<1>2. t \in Seq(N) /\ OneLabel(t, x)
  BY <1>1, LineOneLabel
<1>3. LabelLine(name, num) = t
  BY DEF LabelLine, x
<1> HIDE DEF t, N
<1>4. u \in Seq(T \cup N) /\ OneLabel(u, x)
  BY <1>2, OneLabelLater
<1>5. (out \o s) \o t = out \o u
  <2> DEFINE R == O \cup T \cup N
  <2>1. out \in Seq(R) /\ s \in Seq(R) /\ t \in Seq(R)
    BY <1>2, SeqMonotonic
  <2> HIDE DEF R
  <2>2. QED
    BY <2>1, ConcatAssociative, SMTT(30)
<1> HIDE DEF u
<1>6. QED
  BY <1>3, <1>4, <1>5 DEF x

\* A label, then a line without.
LEMMA LabelThenLine ==
    ASSUME out \in Seq(Elements(out)), NEW T, NEW s \in Seq(T), NoLabel(s), NEW name, NEW num,
           out' = (out \o LabelLine(name, num)) \o s
    PROVE  \E U : \E u \in Seq(U) : out' = out \o u /\ OneLabel(u, Def(name, num))
<1> DEFINE x == Def(name, num)
           t == <<Op("LABEL"), x, NL>>
           N == {Op("LABEL"), x, NL}
           O == Elements(out)
           u == t \o s
<1>1. x # Op("LABEL")
  BY DEF Def, Op, Tok
<1> HIDE DEF x
<1>2. t \in Seq(N) /\ OneLabel(t, x)
  BY <1>1, LineOneLabel
<1>3. LabelLine(name, num) = t
  BY DEF LabelLine, x
<1> HIDE DEF t, N
<1>4. u \in Seq(N \cup T) /\ OneLabel(u, x)
  BY <1>2, OneLabelFirst
<1>5. (out \o t) \o s = out \o u
  <2> DEFINE R == O \cup T \cup N
  <2>1. out \in Seq(R) /\ s \in Seq(R) /\ t \in Seq(R)
    BY <1>2, SeqMonotonic
  <2> HIDE DEF R
  <2>2. QED
    BY <2>1, ConcatAssociative
<1> HIDE DEF u
<1>6. QED
  BY <1>3, <1>4, <1>5 DEF x

\* Only one.
LEMMA LabelAlone ==
    ASSUME out \in Seq(Elements(out)), NEW name, NEW num, out' = out \o LabelLine(name, num)
    PROVE  \E U : \E u \in Seq(U) : out' = out \o u /\ OneLabel(u, Def(name, num))
<1> DEFINE x == Def(name, num)
           t == <<Op("LABEL"), x, NL>>
           N == {Op("LABEL"), x, NL}
<1>1. x # Op("LABEL")
  BY DEF Def, Op, Tok
<1> HIDE DEF x
<1>2. t \in Seq(N) /\ OneLabel(t, x)
  BY <1>1, LineOneLabel
<1>3. LabelLine(name, num) = t
  BY DEF LabelLine, x
<1> HIDE DEF t, N
<1>4. QED
  BY <1>2, <1>3 DEF x

\* No handler of a function with one of the generator's own names is due.
LEMMA NoSuchFunction ==
    ASSUME TypeInv, frames # <<>>, NEW B, NEW A, LabelsApart(Programs, Nodes, B, A),
           Sheltered(frames, B, A),
           NEW name \in {"Scope", "END_IF", "RES_IF", "RES_ELSE", "LOOP"}
    PROVE  ~FunctionDue(frames, name)
<1>1. SUFFICES ASSUME NEW x, Pending(frames, x), x.type = "FUNCTION", x.name = name
               PROVE  FALSE
  BY DEF FunctionDue
<1>2. Len(frames) > 1 /\ Len(frames) \in Nat /\ Stands(frames, 1, B, A)
  BY <1>1, Bottom DEF Pending
<1>3. Stands(frames, 2, B, A)
  BY <1>2 DEF Sheltered
<1>4. frames[2].node \in Programs
  BY <1>2, <1>3 DEF Stands
<1>5. QED
  BY <1>1, <1>4 DEF Pending, LabelsApart

\* What is still to visit was to be visited.
LEMMA PendingTwo ==
    ASSUME TypeInv, frames # <<>>, NEW B, NEW A, Sheltered(frames, B, A),
           NEW m, NEW x, frames' = Callers \o <<m, x>>, MovesOn(m), Len(frames) > 1
    PROVE  \A y : Pending(frames', y) => Pending(frames, y)
<1> DEFINE t == <<m, x>>
           T == {m, x}
<1>1. t \in Seq(T) /\ Len(t) = 2 /\ t[1] = m /\ frames' = Callers \o t
  OBVIOUS
<1> HIDE DEF t, T
<1>2. Len(frames) = 2 => Top.h = "block"
  BY Bottom
<1>3. QED
  BY <1>1, <1>2, LessToCome DEF MovesOn

\* In a branch of an if there is no other if around.
LEMMA OneIf ==
    ASSUME TypeInv, frames # <<>>, NEW B, NEW A, Sheltered(frames, B, A), Top.h = "if",
           NEW T, NEW t \in Seq(T), frames' = Callers \o t
    PROVE  /\ ~Within(frames, Len(frames))
           /\ IfOpen(frames)
           /\ (\A j \in 1 .. Len(t) : t[j].h # "if") => ~IfOpen(frames')
           /\ (\A j \in 1 .. Len(t) : ~HasElse(t[j])) => ~ElseOpen(frames')
<1> DEFINE n == Len(frames)
           r == frames'
<1>1. n \in Nat \ {0} /\ Top = frames[n] /\ Stands(frames, n, B, A)
  BY Bottom
<1>2. ~Within(frames, n)
  BY <1>1 DEF Stands, Inner
<1>3. /\ Len(t) \in Nat /\ Len(r) = n - 1 + Len(t)
      /\ \A p \in 1 .. n - 1 : r[p] = frames[p]
      /\ \A j \in 1 .. Len(t) : r[n - 1 + j] = t[j]
  BY Stacked
<1> HIDE DEF r
<1>4. \A p \in 1 .. Len(r) : r[p].h # "if" \/ \E j \in 1 .. Len(t) : r[p] = t[j]
  <2>1. SUFFICES ASSUME NEW p \in 1 .. Len(r), p \notin 1 .. n - 1
                 PROVE  \E j \in 1 .. Len(t) : r[p] = t[j]
    BY <1>2, <1>3 DEF Within
  <2> DEFINE k == p - n + 1
  <2> HIDE DEF n
  <2>2. k \in 1 .. Len(t) /\ p = n - 1 + k
    BY <1>1, <1>3, <2>1
  <2> HIDE DEF k
  <2>3. QED
    BY <1>3, <2>2
<1>5. IfOpen(frames)
  <2>1. n \in 1 .. n
    BY <1>1
  <2>2. QED
    BY <1>1, <2>1 DEF IfOpen
<1>6. QED
  BY <1>2, <1>4, <1>5 DEF IfOpen, ElseOpen, HasElse, r

\* The branch that it visits.
LEMMA BranchHere ==
    ASSUME TypeInv, NEW B, NEW A, Sheltered(frames, B, A), NEW p, InIf(p),
           NEW c \in Slots(Top.node), NEW b, b = Branch(Top.node, c), b \in OfType(Nodes, "BLOCK"),
           NEW x, x = BlockFrame(b)
    PROVE  frames # <<>> /\ Len(frames) > 1 /\ Called(x, B, A) /\ Inner(x, A) /\ x.h = "block"
<1>1. frames # <<>> /\ Top.h = "if"
  BY DEF InIf, Running
<1>2. /\ Len(frames) \in Nat \ {0} /\ Top = frames[Len(frames)] /\ Len(frames) # 1
      /\ Len(frames) > 1
      /\ Stands(frames, Len(frames), B, A)
  BY <1>1, Bottom
<1>3. b \in A
  <2>1. b # Null
    BY DEF OfType, Null
  <2>2. QED
    BY <1>1, <1>2, <2>1 DEF Stands
<1>4. x.h = "block" /\ x.node = b
  BY DEF BlockFrame, Frame
<1>5. Inner(x, A) /\ Called(x, B, A)
  BY <1>3, <1>4 DEF Inner, Called
<1>6. QED
  BY <1>1, <1>2, <1>4, <1>5

-----------------------------------------------------------------------------
(* The handlers, one by one.                                               *)

LEMMA visit_blockApart ==
    ASSUME TypeInv, out \in Seq(Elements(out)), NEW B, NEW A, Apartness(B, A), visit_block
    PROVE  Apartness(B, A)'
<1>1. frames # <<>> /\ Top.h = "block" /\ UNCHANGED <<lbl, out>>
  BY DEF visit_block, Running
<1>2. CountsUp /\ <<>> \in Seq({}) /\ out' = out \o <<>> /\ Prints(<<>>)
  BY <1>1, NothingCounted, NothingPrinted
<1>3. CASE CallFromBlock(<<>>)
  <2> DEFINE m == [Top EXCEPT !.i = @ + 1]
  <2>1. frames' = Callers \o (<<m>> \o <<>>) /\ MovesOn(m)
    BY <1>1, <1>3, BlockMovesOn DEF CallFromBlock
  <2> HIDE DEF m
  <2>2. frames' = Callers \o <<m>>
    BY <2>1
  <2>3. QED
    BY <1>1, <1>2, <2>1, <2>2, ApartMoves
<1>4. CASE frames' = Callers
  BY <1>1, <1>2, <1>4, ApartReturns
<1>5. QED
  BY <1>3, <1>4 DEF visit_block

LEMMA visit_ifApart ==
    ASSUME TypeInv, out \in Seq(Elements(out)), NEW B, NEW A, LabelsApart(Programs, Nodes, B, A),
           Apartness(B, A), visit_if
    PROVE  Apartness(B, A)'
<1> DEFINE m == [Top EXCEPT !.i = @ + 1]
           x == Frame("if", NextStmt, "conds", lbl.else_if_num)
<1>1. AtStmt({"IF"}) /\ CallFromBlock(<<x>>) /\ UNCHANGED out
  BY DEF visit_if
<1>2. /\ frames # <<>> /\ Top.h = "block" /\ Len(frames) > 1 /\ NextStmt.type = "IF"
      /\ \A l \in Slots(NextStmt) : Branch(NextStmt, l) \in A \cup {Null}
      /\ ~Within(frames, Len(frames))
  BY <1>1, StatementHere DEF Apartness
<1>3. /\ CountsUp /\ lbl'.end_if_num > lbl.end_if_num
  BY DEF visit_if, TypeInv, CountsUp, LblNames
<1>4. <<>> \in Seq({}) /\ out' = out \o <<>> /\ Prints(<<>>)
  BY <1>1, NothingPrinted
<1>5. MovesOn(m)
  BY <1>2, BlockMovesOn
<1>6. x.h = "if" /\ x.node = NextStmt /\ x.pc = "conds"
  BY DEF Frame
<1>7. frames' = Callers \o (<<m>> \o <<x>>)
  BY <1>1 DEF CallFromBlock
<1> HIDE DEF m, x
<1>8. frames' = Callers \o <<m, x>>
  BY <1>7
<1>9. Called(x, B, A) /\ ~HasElse(x)
  BY <1>2, <1>6 DEF Called, HasElse
<1>10. QED
  BY <1>2, <1>3, <1>4, <1>5, <1>6, <1>8, <1>9, ApartCalls

LEMMA IfElseIfCondApart ==
    ASSUME TypeInv, out \in Seq(Elements(out)), NEW B, NEW A, Apartness(B, A), IfElseIfCond
    PROVE  Apartness(B, A)'
<1> DEFINE m == [Top EXCEPT !.i = @ + 1]
<1>1. frames # <<>> /\ Top.h = "if" /\ frames' = Callers \o <<m>> /\ UNCHANGED out
  BY DEF IfElseIfCond, InIf, Running
<1>2. CountsUp
  BY DEF IfElseIfCond, TypeInv, CountsUp, LblNames
<1>3. <<>> \in Seq({}) /\ out' = out \o <<>> /\ Prints(<<>>)
  BY <1>1, NothingPrinted
<1>4. m.h = Top.h /\ m.node = Top.node /\ m.pc = Top.pc
  BY <1>1, Moved
<1> HIDE DEF m
<1>5. MovesOn(m)
  BY <1>1, <1>4 DEF MovesOn, HasElse
<1>6. QED
  BY <1>1, <1>2, <1>3, <1>5, ApartMoves

\* The labels of branches have numbers of their own.
LEMMA PrintsCounter ==
    ASSUME NEW u, NEW s \in {"RES_IF", "LOOP"}, NEW n \in Nat, OneLabel(u, Def(s, n))
    PROVE  Prints(u)
<1> DEFINE x == Def(s, n)
<1>1. Counter(x) /\ x.n \in Nat
  BY DEF Counter, Def, Tok
<1> HIDE DEF x
<1>2. OneLabel(u, x)
  BY DEF x
<1>3. QED
  BY <1>1, <1>2 DEF Prints

\* Any other comes once.
LEMMA PrintsOnce ==
    ASSUME NEW u, NEW s, s \notin {"RES_IF", "LOOP"}, NEW n \in Nat, NEW k, OneLabel(u, Tok(k, s, n)),
           ToCome(frames, lbl, s, n), ~ToCome(frames', lbl', s, n)
    PROVE  Prints(u)
<1> DEFINE x == Tok(k, s, n)
<1>1. x.s = s /\ x.n = n
  BY DEF Tok
<1> HIDE DEF x
<1>2. OneLabel(u, x)
  BY DEF x
<1>3. QED
  BY <1>1, <1>2 DEF Prints

LEMMA IfBlockApart ==
    ASSUME TypeInv, out \in Seq(Elements(out)), NEW B, NEW A, Apartness(B, A), IfBlock
    PROVE  Apartness(B, A)'
<1> DEFINE hasElse == Top.node.else_block # Null
           num  == IF hasElse THEN lbl.else_num + 1 ELSE lbl.else_num
           miss == IF hasElse THEN JumpLine("RES_ELSE", num)
                   ELSE IF ElseIfs = <<>> THEN JumpLine("END_IF", lbl.end_if_num)
                   ELSE <<>>
           m0   == Top.mem + 1
           m    == [Top EXCEPT !.pc = "blocks", !.i = 1, !.mem = @ + 1, !.len = Top.i - 1]
           b    == Top.node.block
           x    == BlockFrame(b)
<1>1. /\ out' = (out \o miss) \o LabelLine("RES_IF", m0)
      /\ InIf("conds") /\ frames' = Callers \o <<m, x>>
      /\ lbl' = [lbl EXCEPT !.else_num = num]
  BY DEF IfBlock, NoMatch, Missed, BranchLabel
<1>2. \E T : miss \in Seq(T) /\ NoLabel(miss)
  <2>1. CASE hasElse
    BY <2>1, JumpNoLabel
  <2>2. CASE ~hasElse /\ ElseIfs = <<>>
    BY <2>2, JumpNoLabel
  <2>3. CASE ~hasElse /\ ElseIfs # <<>>
    <3>1. miss = <<>>
      BY <2>3
    <3>2. <<>> \in Seq({}) /\ NoLabel(<<>>)
      BY DEF NoLabel
    <3>3. QED
      BY <3>1, <3>2
  <2>4. QED
    BY <2>1, <2>2, <2>3
<1>3. CountsUp /\ (hasElse => lbl'.else_num > lbl.else_num)
  BY <1>1 DEF TypeInv, CountsUp, LblNames
<1>4. /\ frames # <<>> /\ Top \in Activations /\ Top.h = "if" /\ m0 \in Nat
      /\ b \in OfType(Nodes, "BLOCK") /\ Len(ElseIfs) \in Nat
  BY <1>1, IfFacts, LenProperties DEF InIf, Running
<1>5. m.h = Top.h /\ m.node = Top.node
  BY <1>4, MovedShape, Zenon
<1>6. MovesOn(m)
  <2> HIDE DEF m
  <2>1. QED
    BY <1>3, <1>4, <1>5 DEF MovesOn, HasElse
<1>7. 0 \in Slots(Top.node) /\ Branch(Top.node, 0) = b
  BY <1>4 DEF Slots, Branch, ElseIfs
<1> HIDE DEF miss, num, m, m0
<1>8. Len(frames) > 1 /\ Called(x, B, A) /\ Inner(x, A) /\ x.h = "block"
  BY <1>1, <1>4, <1>7, BranchHere DEF Apartness
<1>9. \E U : \E u \in Seq(U) : out' = out \o u /\ OneLabel(u, Def("RES_IF", m0))
  BY <1>1, <1>2, JumpThenLabel
<1>10. \E U : \E u \in Seq(U) : out' = out \o u /\ Prints(u)
  BY <1>4, <1>9, PrintsCounter
<1> HIDE DEF x
<1>11. QED
  BY <1>1, <1>3, <1>4, <1>6, <1>8, <1>10, ApartCalls

LEMMA IfElseIfBlockApart ==
    ASSUME TypeInv, out \in Seq(Elements(out)), NEW B, NEW A, Apartness(B, A), IfElseIfBlock
    PROVE  Apartness(B, A)'
<1> DEFINE j  == JumpLine("END_IF", lbl.end_if_num)
           m0 == Top.mem + 1
           m  == [Top EXCEPT !.i = @ + 1, !.mem = @ + 1]
           b  == ElseIfs[Top.i].block
           x  == BlockFrame(b)
<1>1. /\ out' = (out \o j) \o LabelLine("RES_IF", m0)
      /\ InIf("blocks") /\ Top.i <= Top.len /\ frames' = Callers \o <<m, x>> /\ UNCHANGED lbl
  BY DEF IfElseIfBlock, BranchLabel
<1>2. \E T : j \in Seq(T) /\ NoLabel(j)
  BY JumpNoLabel
<1>3. CountsUp
  BY <1>1, NothingCounted
<1>4. /\ frames # <<>> /\ Top \in Activations /\ Top.h = "if" /\ m0 \in Nat
      /\ Top.i \in Nat \ {0} /\ Len(ElseIfs) \in Nat
      /\ Top.i <= Len(ElseIfs) => ElseIfs[Top.i] \in Nodes /\ ElseIfs[Top.i].type = "IF"
  BY <1>1, IfFacts, LenProperties DEF InIf, Running
<1>5. m.h = Top.h /\ m.node = Top.node /\ m.pc = Top.pc
  <2>1. m = [h |-> Top.h, node |-> Top.node, pc |-> Top.pc, i |-> Top.i + 1, mem |-> Top.mem + 1,
             len |-> Top.len]
    BY <1>4, MovedShape
  <2> HIDE DEF m
  <2>2. QED
    BY <2>1
<1>6. MovesOn(m)
  <2> HIDE DEF m
  <2>1. QED
    BY <1>3, <1>4, <1>5 DEF MovesOn, HasElse
<1>7. Top.i <= Len(ElseIfs)
  <2>1. Top.len \in Nat /\ Top.len <= Len(ElseIfs)
    BY <1>4, ActivationShape DEF Fits, ElseIfs
  <2>2. QED
    BY <1>1, <1>4, <2>1
<1>8. Top.i \in Slots(Top.node) /\ Branch(Top.node, Top.i) = b
  BY <1>4, <1>7 DEF Slots, Branch, ElseIfs
<1>9. b \in OfType(Nodes, "BLOCK")
  BY <1>4, <1>7, MembersOfNode
<1> HIDE DEF j, m, m0, b
<1>10. Len(frames) > 1 /\ Called(x, B, A) /\ Inner(x, A) /\ x.h = "block"
  BY <1>1, <1>8, <1>9, BranchHere DEF Apartness
<1>11. \E U : \E u \in Seq(U) : out' = out \o u /\ OneLabel(u, Def("RES_IF", m0))
  BY <1>1, <1>2, JumpThenLabel
<1>12. \E U : \E u \in Seq(U) : out' = out \o u /\ Prints(u)
  BY <1>4, <1>11, PrintsCounter
<1> HIDE DEF x
<1>13. QED
  BY <1>1, <1>3, <1>4, <1>6, <1>10, <1>12, ApartCalls

LEMMA IfElseBlockApart ==
    ASSUME TypeInv, out \in Seq(Elements(out)), NEW B, NEW A, LabelsApart(Programs, Nodes, B, A),
           Apartness(B, A), IfElseBlock
    PROVE  Apartness(B, A)'
<1> DEFINE j == JumpLine("END_IF", lbl.end_if_num)
           k == lbl.else_num
           m == [Top EXCEPT !.pc = "else"]
           b == Top.node.else_block
           x == BlockFrame(b)
<1>1. /\ out' = (out \o j) \o LabelLine("RES_ELSE", k)
      /\ InIf("blocks") /\ b # Null /\ frames' = Callers \o <<m, x>> /\ UNCHANGED lbl
  BY DEF IfElseBlock
<1>2. \E T : j \in Seq(T) /\ NoLabel(j)
  BY JumpNoLabel
<1>3. CountsUp /\ k \in Nat /\ lbl'.else_num = k
  BY <1>1, NothingCounted DEF CountsUp
<1>4. /\ frames # <<>> /\ Top \in Activations /\ Top.h = "if" /\ Top.pc = "blocks"
      /\ Len(ElseIfs) \in Nat /\ b \in OfType(Nodes, "BLOCK")
  BY <1>1, IfFacts, LenProperties DEF InIf, Running
<1>5. m.h = Top.h /\ m.node = Top.node /\ m.pc = "else"
  BY <1>4, MovedShape
<1>6. MovesOn(m) /\ ~HasElse(m)
  <2> HIDE DEF m
  <2>1. QED
    BY <1>4, <1>5 DEF MovesOn, HasElse
<1>7. Len(ElseIfs) + 1 \in Slots(Top.node) /\ Branch(Top.node, Len(ElseIfs) + 1) = b
  BY <1>4 DEF Slots, Branch, ElseIfs
<1> HIDE DEF j, m, b
<1>8. Len(frames) > 1 /\ Called(x, B, A) /\ Inner(x, A) /\ x.h = "block"
  BY <1>1, <1>4, <1>7, BranchHere DEF Apartness
<1> HIDE DEF x, k
<1>9. \E U : \E u \in Seq(U) : out' = out \o u /\ OneLabel(u, Def("RES_ELSE", k))
  BY <1>1, <1>2, JumpThenLabel
<1>10. ElseOpen(frames) /\ ~ElseOpen(frames')
  <2> DEFINE t == <<m, x>>
             T == {m, x}
  <2>1. t \in Seq(T) /\ Len(t) = 2 /\ t[1] = m /\ t[2] = x /\ frames' = Callers \o t
    BY <1>1
  <2> HIDE DEF t, T
  <2>2. \A i \in 1 .. Len(t) : i = 1 \/ i = 2
    BY <2>1
  <2>3. \A i \in 1 .. Len(t) : ~HasElse(t[i])
    BY <1>6, <1>8, <2>1, <2>2 DEF HasElse
  <2>4. ~ElseOpen(frames')
    BY <1>4, <2>1, <2>3, OneIf DEF Apartness
  <2>5. Len(frames) \in 1 .. Len(frames) /\ Top = frames[Len(frames)]
    BY <1>4, Bottom DEF Apartness
  <2>6. QED
    BY <1>1, <1>4, <2>4, <2>5 DEF ElseOpen, b
<1>11. ~FunctionDue(frames', "RES_ELSE")
  <2>1. ~FunctionDue(frames, "RES_ELSE")
    BY <1>4, NoSuchFunction DEF Apartness
  <2>2. \A y : Pending(frames', y) => Pending(frames, y)
    BY <1>1, <1>4, <1>6, <1>8, PendingTwo DEF Apartness
  <2>3. QED
    BY <2>1, <2>2 DEF FunctionDue
<1>12. ToCome(frames, lbl, "RES_ELSE", k) /\ ~ToCome(frames', lbl', "RES_ELSE", k)
  BY <1>3, <1>10, <1>11 DEF ToCome, k
<1>13. \E U : \E u \in Seq(U) : out' = out \o u /\ Prints(u)
  BY <1>3, <1>9, <1>12, PrintsOnce DEF Def
<1>14. QED
  BY <1>1, <1>3, <1>4, <1>6, <1>8, <1>13, ApartCalls

LEMMA IfEndApart ==
    ASSUME TypeInv, out \in Seq(Elements(out)), NEW B, NEW A, Apartness(B, A), IfEnd
    PROVE  Apartness(B, A)'
<1> DEFINE j == JumpLine("END_IF", lbl.end_if_num)
           k == lbl.end_if_num
           t == <<>>
           T == {}
<1>1. /\ out' = (out \o j) \o LabelLine("END_IF", k)
      /\ frames # <<>> /\ Top.h = "if" /\ frames' = Callers /\ UNCHANGED lbl
  BY DEF IfEnd, InIf, Running
<1>2. \E U : j \in Seq(U) /\ NoLabel(j)
  BY JumpNoLabel
<1>3. CountsUp /\ k \in Nat /\ lbl'.end_if_num = k
  BY <1>1, NothingCounted DEF CountsUp
<1>4. t \in Seq(T) /\ Len(t) = 0
  OBVIOUS
<1>5. frames' = Callers \o t
  BY <1>1, TopFacts, ConcatProperties
<1> HIDE DEF j, k, t, T
<1>6. \A i \in 1 .. Len(t) : t[i].h # "if"
  BY <1>4
<1>7. IfOpen(frames) /\ ~IfOpen(frames')
  BY <1>1, <1>4, <1>5, <1>6, OneIf DEF Apartness
<1>8. k > 0
  BY <1>7 DEF Apartness, k
<1>9. ToCome(frames, lbl, "END_IF", k) /\ ~ToCome(frames', lbl', "END_IF", k)
  BY <1>3, <1>7, <1>8 DEF ToCome, k
<1>10. \E U : \E u \in Seq(U) : out' = out \o u /\ OneLabel(u, Def("END_IF", k))
  BY <1>1, <1>2, JumpThenLabel
<1>11. \E U : \E u \in Seq(U) : out' = out \o u /\ Prints(u)
  BY <1>3, <1>9, <1>10, PrintsOnce DEF Def
<1>12. QED
  BY <1>1, <1>3, <1>11, ApartReturns

LEMMA visit_whileApart ==
    ASSUME TypeInv, out \in Seq(Elements(out)), NEW B, NEW A, LabelsApart(Programs, Nodes, B, A),
           Apartness(B, A), visit_while
    PROVE  Apartness(B, A)'
<1> DEFINE m == [Top EXCEPT !.i = @ + 1]
           x == Frame("while", NextStmt, "body", NextLoop)
           y == BlockFrame(NextStmt.block)
           k == NextLoop
<1>1. AtStmt({"WHILE"}) /\ CallFromBlock(<<x, y>>) /\ out' = out \o LabelLine("LOOP", k)
  BY DEF visit_while
<1>2. /\ frames # <<>> /\ Top.h = "block" /\ Len(frames) > 1 /\ NextStmt.block \in B \cup A
      /\ Within(frames, Len(frames)) => NextStmt.block \in A
  BY <1>1, StatementHere DEF Apartness
<1>3. CountsUp /\ k \in Nat
  BY DEF visit_while, TypeInv, CountsUp, LblNames, NextLoop
<1>4. MovesOn(m)
  BY <1>2, BlockMovesOn
<1>5. x.h = "while" /\ y.h = "block" /\ y.node = NextStmt.block
  BY DEF Frame, BlockFrame
<1>6. frames' = Callers \o (<<m>> \o <<x, y>>)
  BY <1>1 DEF CallFromBlock
<1> HIDE DEF m, x, y, k
<1>7. frames' = Callers \o <<m, x, y>>
  BY <1>6
<1>8. Called(x, B, A) /\ Called(y, B, A)
  BY <1>2, <1>5 DEF Called, Inner
<1>9. \E U : \E u \in Seq(U) : out' = out \o u /\ OneLabel(u, Def("LOOP", k))
  BY <1>1, LabelAlone
<1>10. \E U : \E u \in Seq(U) : out' = out \o u /\ Prints(u)
  BY <1>3, <1>9, PrintsCounter
<1>11. QED
  BY <1>2, <1>3, <1>4, <1>5, <1>7, <1>8, <1>10, ApartCallsTwo

\* Handlers that return and print no label.
LEMMA EndApart ==
    ASSUME TypeInv, out \in Seq(Elements(out)), NEW B, NEW A, Apartness(B, A),
           WhileCond \/ FunctionEnd \/ GenEnd
    PROVE  Apartness(B, A)'
<1>1. frames # <<>> /\ frames' = Callers /\ UNCHANGED lbl
  BY DEF WhileCond, FunctionEnd, GenEnd, Running
<1>2. CountsUp
  BY <1>1, NothingCounted
<1>3. \E U : \E u \in Seq(U) : out' = out \o u /\ Prints(u)
  <2>1. CASE UNCHANGED out
    BY <2>1, NothingPrinted
  <2>2. CASE GenEnd
    <3> DEFINE u == <<NL>>
               U == {NL}
    <3>1. u \in Seq(U) /\ out' = out \o u
      BY <2>2 DEF GenEnd
    <3>2. \A z \in U : z # Op("LABEL")
      BY DEF NL, Op, Tok
    <3> HIDE DEF u, U
    <3>3. Prints(u)
      BY <3>1, <3>2, NoLabelTokens DEF Prints
    <3>4. QED
      BY <3>1, <3>3
  <2>3. QED
    BY <2>1, <2>2 DEF WhileCond, FunctionEnd
<1>4. QED
  BY <1>1, <1>2, <1>3, ApartReturns

\* The program's own statements: one that is visited is not visited again.
LEMMA VisitedOnce ==
    ASSUME TypeInv, frames # <<>>, NEW B, NEW A, LabelsApart(Programs, Nodes, B, A),
           Sheltered(frames, B, A), NEW T, AtStmt(T), Len(frames) = 2,
           NEW x, NEW y, CallFromBlock(<<x, y>>)
    PROVE  /\ Pending(frames, NextStmt)
           /\ \A z : Pending(frames', z) =>
                /\ NextStmt.type = "SCOPE" => z.type # "SCOPE"
                /\ NextStmt.type = "FUNCTION" /\ z.type = "FUNCTION" => z.name # NextStmt.name
           /\ \A z : Pending(frames', z) => Pending(frames, z)
<1> DEFINE m == [Top EXCEPT !.i = @ + 1]
           t == <<m, x, y>>
           W == {m, x, y}
<1>1. /\ Top = frames[2] /\ Top \in Activations /\ Top.h = "block"
      /\ Stands(frames, 1, B, A) /\ Stands(frames, 2, B, A)
  BY Bottom
<1>2. /\ Top.i \in DOMAIN Top.node.stmts /\ Top.node.stmts[Top.i] = NextStmt
  BY StatementHere
<1>3. Top.node \in Programs /\ Top.i \in Nat
  BY <1>1, ActivationShape DEF Stands
<1>4. Pending(frames, NextStmt)
  <2>1. Top.i >= Top.i
    BY <1>3
  <2>2. QED
    BY <1>1, <1>2, <2>1 DEF Pending
<1>5. m.h = Top.h /\ m.node = Top.node /\ m.i = Top.i + 1 /\ MovesOn(m)
  BY <1>1, Moved, BlockMovesOn
<1>6. frames' = Callers \o (<<m>> \o <<x, y>>)
  BY DEF CallFromBlock
<1> HIDE DEF m
<1>7. t \in Seq(W) /\ Len(t) = 3 /\ t[1] = m /\ frames' = Callers \o t
  BY <1>6
<1> HIDE DEF t, W
<1>8. frames'[2] = m
  <2>1. \A j \in 1 .. Len(t) : frames'[Len(frames) - 1 + j] = t[j]
    BY <1>7, Stacked
  <2>2. 1 \in 1 .. Len(t) /\ Len(frames) - 1 + 1 = 2
    BY <1>7
  <2>3. QED
    BY <1>7, <2>1, <2>2
<1>9. \A z : Pending(frames', z) => Pending(frames, z)
  <2>1. Len(t) > 0 => t[1].h = Top.h /\ t[1].node = Top.node
    BY <1>5, <1>7
  <2>2. Len(t) > 0 /\ Top.h = "block" => t[1].i \in Nat /\ t[1].i >= Top.i
    BY <1>5, <1>7 DEF MovesOn
  <2>3. QED
    <3>1. Top.h = "block" /\ Len(frames) > 1
      BY <1>1
    <3>2. Len(frames) = 2 => Top.h = "block"
      BY <3>1
    <3>3. Len(t) > 1 => Len(frames) > 1
      BY <3>1
    <3>4. \A z : Pending(frames', z) => Pending(frames, z)
      BY <1>7, <2>1, <2>2, <3>2, <3>3, LessToCome
    <3>5. QED
      BY <3>4
<1>10. ASSUME NEW z, Pending(frames', z)
       PROVE  /\ NextStmt.type = "SCOPE" => z.type # "SCOPE"
              /\ NextStmt.type = "FUNCTION" /\ z.type = "FUNCTION" => z.name # NextStmt.name
  <2>1. PICK j \in DOMAIN Top.node.stmts : j >= Top.i + 1 /\ Top.node.stmts[j] = z
    BY <1>5, <1>8, <1>10 DEF Pending
  <2>2. j # Top.i
    <3>1. ~(Top.i >= Top.i + 1)
      BY <1>3
    <3>2. QED
      BY <2>1, <3>1
  <2>3. QED
    BY <1>2, <1>3, <2>1, <2>2 DEF LabelsApart
<1>11. QED
  BY <1>4, <1>9, <1>10

LEMMA visit_scopeApart ==
    ASSUME TypeInv, out \in Seq(Elements(out)), NEW B, NEW A, LabelsApart(Programs, Nodes, B, A),
           Apartness(B, A), visit_scope
    PROVE  Apartness(B, A)'
<1> DEFINE m == [Top EXCEPT !.i = @ + 1]
           x == Frame("scope", NextStmt, "body", 0)
           y == BlockFrame(NextStmt.block)
           s == <<Op("CREATEFRAME"), NL, Op("DEFVAR"), TB1, NL, Op("DEFVAR"), TB2, NL>>
           S == {Op("CREATEFRAME"), NL, Op("DEFVAR"), TB1, TB2}
<1>1. AtStmt({"SCOPE"}) /\ CallFromBlock(<<x, y>>) /\ out' = (out \o LabelLine("Scope", 0)) \o s
      /\ UNCHANGED lbl
  BY DEF visit_scope
<1>2. /\ frames # <<>> /\ Top.h = "block" /\ Len(frames) = 2 /\ Len(frames) > 1
      /\ NextStmt.type = "SCOPE" /\ NextStmt.block \in B /\ ~Within(frames, Len(frames))
  BY <1>1, StatementHere DEF Apartness
<1>3. CountsUp
  BY <1>1, NothingCounted
<1>4. MovesOn(m)
  BY <1>2, BlockMovesOn
<1>5. x.h = "scope" /\ y.h = "block" /\ y.node = NextStmt.block
  BY DEF Frame, BlockFrame
<1>6. frames' = Callers \o (<<m>> \o <<x, y>>)
  BY <1>1 DEF CallFromBlock
<1>7. s \in Seq(S) /\ NoLabel(s)
  <2>1. s \in Seq(S)
    OBVIOUS
  <2>2. \A z \in S : z # Op("LABEL")
    BY DEF Op, NL, TB1, TB2, TF, Tok
  <2> HIDE DEF s, S
  <2>3. QED
    BY <2>1, <2>2, NoLabelTokens
<1> HIDE DEF m, x, y, s, S
<1>8. frames' = Callers \o <<m, x, y>>
  BY <1>6
<1>9. Called(x, B, A) /\ Called(y, B, A)
  BY <1>2, <1>5 DEF Called
<1>10. ScopeDue(frames) /\ ~ScopeDue(frames') /\ ~FunctionDue(frames', "Scope")
  <2>1. /\ Pending(frames, NextStmt)
        /\ \A z : Pending(frames', z) => z.type # "SCOPE" /\ Pending(frames, z)
    BY <1>1, <1>2, VisitedOnce DEF Apartness
  <2>2. ~FunctionDue(frames, "Scope")
    BY <1>2, NoSuchFunction DEF Apartness
  <2>3. QED
    BY <1>2, <2>1, <2>2 DEF ScopeDue, FunctionDue
<1>11. ToCome(frames, lbl, "Scope", 0) /\ ~ToCome(frames', lbl', "Scope", 0)
  BY <1>10 DEF ToCome
<1>12. \E U : \E u \in Seq(U) : out' = out \o u /\ OneLabel(u, Def("Scope", 0))
  BY <1>1, <1>7, LabelThenLine
<1>13. \E U : \E u \in Seq(U) : out' = out \o u /\ Prints(u)
  BY <1>11, <1>12, PrintsOnce DEF Def
<1>14. QED
  BY <1>2, <1>3, <1>4, <1>5, <1>8, <1>9, <1>10, <1>13, ApartCallsTwo

LEMMA ScopeEndApart ==
    ASSUME TypeInv, out \in Seq(Elements(out)), NEW B, NEW A, LabelsApart(Programs, Nodes, B, A),
           Apartness(B, A), ScopeEnd
    PROVE  Apartness(B, A)'
<1> DEFINE t == <<>>
           T == {}
<1>1. /\ out' = out \o LabelLine("END_IF", 0) /\ UNCHANGED lbl
      /\ frames # <<>> /\ Top.h = "scope" /\ frames' = Callers
  BY DEF ScopeEnd, Running
<1>2. CountsUp
  BY <1>1, NothingCounted
<1>3. Len(frames) = 3 /\ Top = frames[3]
  BY <1>1, Bottom DEF Apartness, Stands
<1>4. t \in Seq(T) /\ Len(t) = 0
  OBVIOUS
<1>5. frames' = Callers \o t
  BY <1>1, TopFacts, ConcatProperties
<1> HIDE DEF t, T
<1>6. Len(frames') = 2
  <2>1. Len(frames') = Len(frames) - 1 + Len(t)
    BY <1>1, <1>4, <1>5, Stacked
  <2>2. QED
    BY <1>3, <1>4, <2>1
<1>7. \A z : Pending(frames', z) => Pending(frames, z)
  <2>1. ~(Len(t) > 0) /\ ~(Len(t) > 1) /\ Len(frames) # 2
    BY <1>3, <1>4
  <2>2. QED
    BY <1>1, <1>4, <1>5, <2>1, LessToCome
<1>8. ScopeOpen(frames) /\ ~ScopeOpen(frames')
  BY <1>1, <1>3, <1>6 DEF ScopeOpen
<1>9. ~ScopeDue(frames') /\ ~FunctionDue(frames', "END_IF")
  <2>1. ~ScopeDue(frames) /\ ~FunctionDue(frames, "END_IF")
    BY <1>1, <1>8, NoSuchFunction DEF Apartness
  <2>2. QED
    BY <1>7, <2>1 DEF ScopeDue, FunctionDue
<1>10. ToCome(frames, lbl, "END_IF", 0) /\ ~ToCome(frames', lbl', "END_IF", 0)
  BY <1>2, <1>8, <1>9 DEF ToCome, CountsUp
<1>11. \E U : \E u \in Seq(U) : out' = out \o u /\ OneLabel(u, Def("END_IF", 0))
  BY <1>1, LabelAlone
<1>12. \E U : \E u \in Seq(U) : out' = out \o u /\ Prints(u)
  BY <1>10, <1>11, PrintsOnce DEF Def
<1>13. QED
  BY <1>1, <1>2, <1>12, ApartReturns

\* A line of three tokens and one of two.
LEMMA ThreeTwo ==
    ASSUME NEW a, NEW b, NEW c, NEW d, NEW e
    PROVE  <<a, b, c>> \o <<d, e>> = <<a, b, c, d, e>>
<1> DEFINE S == {a, b, c, d, e}
           s == <<a, b, c>>
           t == <<d, e>>
           u == <<a, b, c, d, e>>
<1>1. s \in Seq(S) /\ Len(s) = 3 /\ s[1] = a /\ s[2] = b /\ s[3] = c
  OBVIOUS
<1>2. t \in Seq(S) /\ Len(t) = 2 /\ t[1] = d /\ t[2] = e
  OBVIOUS
<1>3. u \in Seq(S) /\ Len(u) = 5 /\ u[1] = a /\ u[2] = b /\ u[3] = c /\ u[4] = d /\ u[5] = e
  OBVIOUS
<1> HIDE DEF S, s, t, u
<1> DEFINE r == s \o t
<1>4. /\ r \in Seq(S) /\ Len(r) = Len(s) + Len(t)
      /\ \A i \in 1 .. Len(s) + Len(t) : r[i] = IF i <= Len(s) THEN s[i] ELSE t[i - Len(s)]
  BY <1>1, <1>2, ConcatProperties, Zenon
<1> HIDE DEF r
<1>5. Len(r) = 5 /\ r[1] = a /\ r[2] = b /\ r[3] = c /\ r[4] = d /\ r[5] = e
  BY <1>1, <1>2, <1>4
<1>6. \A i \in 1 .. Len(r) : r[i] = u[i]
  <2>1. \A i \in 1 .. 5 : i = 1 \/ i = 2 \/ i = 3 \/ i = 4 \/ i = 5
    OBVIOUS
  <2>2. QED
    BY <1>3, <1>5, <2>1
<1>7. r = u
  BY <1>3, <1>4, <1>5, <1>6, SeqEqual
<1>8. QED
  BY <1>7 DEF r, s, t, u

LEMMA visit_functionApart ==
    ASSUME TypeInv, out \in Seq(Elements(out)), NEW B, NEW A, LabelsApart(Programs, Nodes, B, A),
           Apartness(B, A), visit_function
    PROVE  Apartness(B, A)'
<1> DEFINE m == [Top EXCEPT !.i = @ + 1]
           x == Frame("function", NextStmt, "body", 0)
           y == BlockFrame(NextStmt.block)
           name == NextStmt.name
           w == Tok("word", name, 0)
           h == <<Op("LABEL"), w, NL>>
           s == <<Op("CREATEFRAME"), NL>>
           S == {Op("CREATEFRAME"), NL}
           H == {Op("LABEL"), w, NL}
<1>1. AtStmt({"FUNCTION"}) /\ CallFromBlock(<<x, y>>) /\ out' = out \o (h \o s) /\ UNCHANGED lbl
  <2>1. h \o s = <<Op("LABEL"), w, NL, Op("CREATEFRAME"), NL>>
    BY ThreeTwo, Zenon
  <2>2. QED
    BY <2>1 DEF visit_function
<1>2. /\ frames # <<>> /\ Top.h = "block" /\ Len(frames) = 2 /\ Len(frames) > 1
      /\ NextStmt.type = "FUNCTION" /\ NextStmt.block \in B /\ ~Within(frames, Len(frames))
      /\ name \notin {"Scope", "END_IF", "RES_IF", "RES_ELSE", "LOOP"}
  <2>1. /\ frames # <<>> /\ Top.h = "block" /\ Len(frames) = 2 /\ Len(frames) > 1
        /\ NextStmt.type = "FUNCTION" /\ NextStmt.block \in B /\ ~Within(frames, Len(frames))
        /\ Top.i \in DOMAIN Top.node.stmts /\ Top.node.stmts[Top.i] = NextStmt
    BY <1>1, StatementHere DEF Apartness
  <2>2. Top = frames[2] /\ Stands(frames, 1, B, A) /\ Stands(frames, 2, B, A)
    BY <2>1, Bottom DEF Apartness
  <2>3. Top.node \in Programs
    BY <2>2 DEF Stands
  <2>4. name \notin {"Scope", "END_IF", "RES_IF", "RES_ELSE", "LOOP"}
    BY <2>1, <2>3 DEF LabelsApart
  <2>5. QED
    BY <2>1, <2>4
<1>3. CountsUp
  BY <1>1, NothingCounted
<1>4. MovesOn(m)
  BY <1>2, BlockMovesOn
<1>5. x.h = "function" /\ y.h = "block" /\ y.node = NextStmt.block
  BY DEF Frame, BlockFrame
<1>6. frames' = Callers \o (<<m>> \o <<x, y>>)
  BY <1>1 DEF CallFromBlock
<1>7. s \in Seq(S) /\ NoLabel(s)
  <2>1. s \in Seq(S)
    OBVIOUS
  <2>2. \A z \in S : z # Op("LABEL")
    BY DEF Op, NL, Tok
  <2> HIDE DEF s, S
  <2>3. QED
    BY <2>1, <2>2, NoLabelTokens
<1>8. h \in Seq(H) /\ OneLabel(h, w)
  <2>1. w # Op("LABEL")
    BY DEF Op, Tok
  <2> HIDE DEF w
  <2>2. QED
    BY <2>1, LineOneLabel
<1> HIDE DEF m, x, y, s, S, h, H
<1>9. frames' = Callers \o <<m, x, y>>
  BY <1>6
<1>10. Called(x, B, A) /\ Called(y, B, A)
  BY <1>2, <1>5 DEF Called
<1>11. FunctionDue(frames, name) /\ ~FunctionDue(frames', name)
  <2>1. /\ Pending(frames, NextStmt)
        /\ \A z : Pending(frames', z) /\ z.type = "FUNCTION" => z.name # NextStmt.name
    BY <1>1, <1>2, VisitedOnce DEF Apartness
  <2>2. QED
    BY <1>2, <2>1 DEF FunctionDue
<1>12. ToCome(frames, lbl, name, 0) /\ ~ToCome(frames', lbl', name, 0)
  BY <1>2, <1>11 DEF ToCome
<1>13. h \o s \in Seq(H \cup S) /\ OneLabel(h \o s, w)
  <2> HIDE DEF w
  <2>1. QED
    BY <1>7, <1>8, OneLabelFirst
<1>14. Prints(h \o s)
  <2> DEFINE u == h \o s
  <2>1. OneLabel(u, Tok("word", name, 0))
    BY <1>13
  <2> HIDE DEF u, name
  <2>2. Prints(u)
    BY <1>2, <1>12, <2>1, PrintsOnce
  <2>3. QED
    BY <2>2 DEF u
<1> DEFINE u == h \o s
<1>15. u \in Seq(H \cup S) /\ Prints(u) /\ out' = out \o u
  BY <1>1, <1>13, <1>14
<1> HIDE DEF u
<1>16. QED
  BY <1>2, <1>3, <1>4, <1>5, <1>9, <1>10, <1>15, ApartCallsTwo

\* A program begins: nothing of it is printed, nothing but it is called.
LEMMA ifj17_genApart ==
    ASSUME TypeInv, NEW B, NEW A, ifj17_gen
    PROVE  Apartness(B, A)'
<1>1. PICK p \in Programs : GenBegin(p)
  BY DEF ifj17_gen
<1> DEFINE e == Frame("gen", p, "body", 0)
           f == BlockFrame(p)
           r == frames'
<1>2. e.h = "gen" /\ e.node = p /\ f.h = "block" /\ f.node = p
  BY DEF Frame, BlockFrame
<1>3. Len(r) = 2 /\ r[1] = e /\ r[2] = f
  BY <1>1 DEF GenBegin
<1> HIDE DEF e, f, r
<1>4. \A q \in 1 .. Len(r) : q = 1 \/ q = 2
  BY <1>3
<1>5. \A q \in 1 .. Len(r) : r[q].h # "if"
  BY <1>2, <1>3, <1>4
<1>6. \A q \in 1 .. Len(r) : \A l \in 1 .. q - 1 : l \in 1 .. Len(r)
  BY <1>3
<1>7. Sheltered(r, B, A)
  <2>1. ASSUME NEW q \in 1 .. Len(r) PROVE Stands(r, q, B, A)
    <3>1. ~Within(r, q)
      BY <1>5, <1>6, <2>1 DEF Within
    <3>2. ~(1 > 2) /\ ~(2 > 2)
      OBVIOUS
    <3>3. QED
      BY <1>1, <1>2, <1>3, <1>4, <3>1, <3>2 DEF Stands
  <2>2. QED
    BY <2>1 DEF Sheltered
<1>8. ~IfOpen(r) /\ ~ScopeOpen(r)
  BY <1>3, <1>5 DEF IfOpen, ScopeOpen
<1>9. LabelOps' = {}
  <2> DEFINE s == <<Op(".IFJcode17"), NL>>
             S == {Op(".IFJcode17"), NL}
             t == JumpLine("Scope", 0)
  <2>1. s \in Seq(S) /\ NoLabel(s)
    <3>1. s \in Seq(S)
      OBVIOUS
    <3>2. \A x \in S : x # Op("LABEL")
      BY DEF Op, NL, Tok
    <3> HIDE DEF s, S
    <3>3. QED
      BY <3>1, <3>2, NoLabelTokens
  <2>2. t \in Seq({Op("JUMP"), Ref("Scope", 0), NL}) /\ NoLabel(t)
    BY JumpNoLabel
  <2>3. out' = s \o t
    BY <1>1 DEF GenBegin
  <2> HIDE DEF s, S, t
  <2>4. NoLabel(s \o t)
    BY <2>1, <2>2, NoLabelCat
  <2>5. QED
    BY <2>3, <2>4 DEF NoLabel, LabelOps
<1>10. Fresh'
  BY <1>9 DEF Fresh
<1>11. QED
  BY <1>7, <1>8, <1>10 DEF Apartness, r

\* Without a division the items of an expression hold no LABEL.
LEMMA ExpressionNoLabel ==
    ASSUME TypeInv, out \in Seq(Elements(out)), Undivided(Nodes), ExpressionStep
    PROVE  \E T : \E t \in Seq(T) : out' = out \o t /\ NoLabel(t)
<1>1. ItemsOK(todo)
  BY DEF TypeInv
<1>2. ASSUME UNCHANGED out
      PROVE  \E T : \E t \in Seq(T) : out' = out \o t /\ NoLabel(t)
  <2>1. out' = out \o <<>>
    BY <1>2, ConcatEmptySeq
  <2>2. <<>> \in Seq({}) /\ NoLabel(<<>>)
    BY DEF NoLabel
  <2>3. QED
    BY <2>1, <2>2
<1>3. ASSUME NEW x, out' = out \o <<x>>, x.k # "op"
      PROVE  \E T : \E t \in Seq(T) : out' = out \o t /\ NoLabel(t)
  <2>1. x # Op("LABEL")
    BY <1>3 DEF Op, Tok
  <2>2. <<x>> \in Seq({x})
    OBVIOUS
  <2>3. NoLabel(<<x>>)
    BY <2>1 DEF NoLabel
  <2>4. QED
    BY <1>3, <2>2, <2>3
<1>4. CASE PrintTokens
  <2>1. PICK n \in 1 .. Len(todo) : out' = out \o SubSeq(todo, 1, n)
    BY <1>4 DEF PrintTokens
  <2> DEFINE T == {todo[i] : i \in 1 .. n}
             t == SubSeq(todo, 1, n)
  <2>2. todo \in Seq(Elements(todo)) /\ DOMAIN todo = 1 .. Len(todo) /\ Len(todo) \in Nat
    BY <1>1, LenProperties DEF ItemsOK
  <2>3. 1 .. n \subseteq DOMAIN todo
    BY <2>2
  <2>4. t \in Seq(T)
    <3>1. \A i \in 1 .. n : todo[i] \in T
      OBVIOUS
    <3> HIDE DEF T
    <3>2. QED
      BY <3>1, SubSeqProperties
  <2>5. \A x \in T : x # Op("LABEL")
    BY <1>1, <2>3 DEF ItemsOK, ItemOK
  <2> HIDE DEF T, t
  <2>6. NoLabel(t)
    BY <2>4, <2>5, NoLabelTokens
  <2>7. QED
    BY <2>1, <2>4, <2>6 DEF t
<1>5. CASE PrintTypeGuard
  <2> DEFINE t == <<Op("JUMPIFNEQ"), Ref("END_IF", 0), TB1, TB2, NL>>
             T == {Op("JUMPIFNEQ"), Ref("END_IF", 0), TB1, TB2, NL}
  <2>1. t \in Seq(T)
    OBVIOUS
  <2>2. \A x \in T : x # Op("LABEL")
    BY DEF Op, Ref, TB1, TB2, TF, NL, Tok
  <2>3. out' = out \o t \/ UNCHANGED out
    BY <1>5 DEF PrintTypeGuard
  <2> HIDE DEF t, T
  <2>4. NoLabel(t)
    BY <2>1, <2>2, NoLabelTokens
  <2>5. QED
    BY <1>2, <2>1, <2>3, <2>4
<1>6. CASE PrintIfTarget
  <2> DEFINE x == Ref("RES_IF", lbl.else_if_num)
  <2>1. out' = out \o <<x>> \/ UNCHANGED out
    BY <1>6 DEF PrintIfTarget
  <2>2. x.k # "op"
    BY DEF Ref, Tok
  <2> HIDE DEF x
  <2>3. QED
    BY <1>2, <1>3, <2>1, <2>2
<1>7. CASE PrintLoopTarget
  <2> DEFINE x == Ref("LOOP", flag.loop_num)
  <2>1. out' = out \o <<x>> \/ UNCHANGED out
    BY <1>7 DEF PrintLoopTarget
  <2>2. x.k # "op"
    BY DEF Ref, Tok
  <2> HIDE DEF x
  <2>3. QED
    BY <1>2, <1>3, <2>1, <2>2
<1>8. CASE PrintResIfRef
  <2> DEFINE x == Ref("RES_IF", lbl.else_if_num)
  <2>1. out' = out \o <<x>>
    BY <1>8 DEF PrintResIfRef
  <2>2. x.k # "op"
    BY DEF Ref, Tok
  <2> HIDE DEF x
  <2>3. QED
    BY <1>3, <2>1, <2>2
<1>9. CASE PrintDivLabel
  <2> DEFINE name == IF Head(todo).cont THEN "CONT" ELSE "RES_IF_int2float"
             num  == flag[Head(todo).var]
             x    == IF Head(todo).k = "divref" THEN Ref(name, num) ELSE Def(name, num)
  <2>1. out' = out \o <<x>>
    BY <1>9 DEF PrintDivLabel
  <2>2. x.k # "op"
    BY DEF Ref, Def, Tok
  <2> HIDE DEF x
  <2>3. QED
    BY <1>3, <2>1, <2>2
<1>10. CASE Assign
  BY <1>2, <1>10 DEF Assign
<1>11. CASE \/ visit_number \/ visit_string \/ visit_id \/ visit_decl \/ visit_unary_op
            \/ visit_binary_op \/ visit_call \/ visit_dim \/ visit_return \/ visit_silent
            \/ visit_params
  BY <1>2, <1>11 DEF visit_number, visit_string, visit_id, visit_decl, visit_unary_op,
     visit_binary_op, visit_call, visit_dim, visit_return, visit_silent, visit_params
<1>12. QED
  BY <1>4, <1>5, <1>6, <1>7, <1>8, <1>9, <1>10, <1>11 DEF ExpressionStep

LEMMA ExpressionApart ==
    ASSUME TypeInv, out \in Seq(Elements(out)), Undivided(Nodes), NEW B, NEW A,
           Apartness(B, A), ExpressionStep
    PROVE  Apartness(B, A)'
<1>1. UNCHANGED <<frames, lbl>>
  BY ExpressionLeaves
<1>2. Fewer
  BY <1>1 DEF Fewer
<1>3. PICK T : \E t \in Seq(T) : out' = out \o t /\ NoLabel(t)
  BY ExpressionNoLabel
<1>4. PICK t \in Seq(T) : out' = out \o t /\ NoLabel(t)
  BY <1>3
<1>5. Fresh /\ Prints(t)
  BY <1>4 DEF Apartness, Prints
<1>6. Fresh'
  BY <1>2, <1>4, <1>5, FreshKeeps
<1>7. QED
  BY <1>1, <1>6 DEF Apartness

-----------------------------------------------------------------------------
(* The theorem.                                                            *)

LEMMA StatementApart ==
    ASSUME IInv, TypeInv, NEW B, NEW A, LabelsApart(Programs, Nodes, B, A),
           Apartness(B, A), StatementStep
    PROVE  Apartness(B, A)'
<1>1. out \in Seq(Elements(out))
  BY DEF IInv, LabelTypeOK
<1>2. CASE visit_block \/ visit_if \/ IfElseIfCond \/ IfBlock \/ IfElseIfBlock \/ IfElseBlock \/ IfEnd
  BY <1>1, <1>2, visit_blockApart, visit_ifApart, IfElseIfCondApart, IfBlockApart,
     IfElseIfBlockApart, IfElseBlockApart, IfEndApart
<1>3. CASE visit_while \/ WhileCond \/ visit_scope \/ ScopeEnd \/ visit_function \/ FunctionEnd \/ GenEnd
  BY <1>1, <1>3, visit_whileApart, EndApart, visit_scopeApart, ScopeEndApart, visit_functionApart
<1>4. QED
  BY <1>2, <1>3 DEF StatementStep

LEMMA NextApart ==
    ASSUME IInv, TypeInv, NEW B, NEW A, LabelsApart(Programs, Nodes, B, A),
           Apartness(B, A), [Next]_vars
    PROVE  Apartness(B, A)'
<1>1. CASE ifj17_gen
  BY <1>1, ifj17_genApart
<1>2. CASE ExpressionStep
  BY <1>2, ExpressionApart DEF IInv, LabelTypeOK, LabelsApart
<1>3. CASE StatementStep
  BY <1>3, StatementApart
<1>4. CASE UNCHANGED vars
  BY <1>4 DEF vars, Apartness, Fresh, LabelOps
<1>5. QED
  BY <1>1, <1>2, <1>3, <1>4 DEF Next

LEMMA InitApart ==
    ASSUME Init, NEW B, NEW A
    PROVE  Apartness(B, A)
<1>1. frames = <<>> /\ Len(frames) = 0 /\ DOMAIN out = {}
  BY DEF Init
<1>2. 1 .. Len(frames) = {} /\ LabelOps = {}
  BY <1>1 DEF LabelOps
<1>3. QED
  BY <1>1, <1>2 DEF Apartness, Sheltered, IfOpen, ScopeOpen, Fresh

\* No label of a program of the class is defined by two LABEL instructions: the
\* counters of the if and the loop number theirs, the function's name, Scope and
\* the bare END_IF are printed once.
THEOREM LabelsDefinedOnce ==
    ASSUME NEW B, NEW A, LabelsApart(Programs, Nodes, B, A)
    PROVE  Spec => []LabelsUnique
<1> DEFINE Inv == IInv /\ TypeInv /\ Apartness(B, A)
<1>1. Init => Inv
  BY InitInv, InitTypes, InitApart
<1>2. Inv /\ [Next]_vars => Inv'
  BY NextInv, TypesKept, NextApart
<1>3. ASSUME IInv, Apartness(B, A) PROVE LabelsUnique
  <2>1. SUFFICES ASSUME NEW i \in LabelOps, NEW j \in LabelOps,
                        out[i + 1].s = out[j + 1].s, out[i + 1].n = out[j + 1].n
                 PROVE  i = j
    BY DEF LabelsUnique, LabelLines, LineStarts, LabelOps
  <2>2. /\ Fresh /\ ResIfUnique /\ LoopUnique
        /\ i + 1 \in DOMAIN out /\ j + 1 \in DOMAIN out
    BY <1>3, <2>1 DEF IInv, Apartness, Fresh
  <2>3. i \in Int /\ j \in Int
    <3>1. DOMAIN out = 1 .. Len(out)
      BY <1>3, LenProperties DEF IInv, LabelTypeOK
    <3>2. QED
      BY <3>1 DEF LabelOps
  <2>4. CASE ~Counter(out[i + 1])
    BY <2>1, <2>2, <2>4 DEF Fresh
  <2>5. CASE ~Counter(out[j + 1])
    BY <2>1, <2>2, <2>5 DEF Fresh
  <2>6. CASE Counter(out[i + 1]) /\ Counter(out[j + 1])
    <3>1. i + 1 = j + 1
      BY <2>1, <2>2, <2>6 DEF Counter, ResIfUnique, LoopUnique, Defs
    <3>2. QED
      BY <2>3, <3>1
  <2>7. QED
    BY <2>4, <2>5, <2>6
<1>4. Inv => LabelsUnique
  BY <1>3
<1>5. QED
  BY <1>1, <1>2, <1>4, PTL DEF Spec
=============================================================================
