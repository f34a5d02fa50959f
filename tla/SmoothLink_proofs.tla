-------------------------- MODULE SmoothLink_proofs --------------------------
(***************************************************************************)
(* Proofs about the interface configuration, for any values of the         *)
(* arguments and any calls of config. The invariant looks ahead: the       *)
(* commands of the call that have not run yet will all be accepted, one    *)
(* after the other, and leave the disciplines that were asked for. Before  *)
(* HardIsStock the two link files are compared, argument by argument.      *)
(***************************************************************************)
EXTENDS SmoothLink, TLAPS

------------------------------------------------------------------------------
(* Lists of commands. *)

LEMMA FirstOfTwo ==
  ASSUME NEW S, NEW x \in S, NEW q \in Seq(S)
  PROVE  /\ <<x>> \o q \in Seq(S) /\ <<x>> \o q # << >>
         /\ Head(<<x>> \o q) = x /\ Tail(<<x>> \o q) = q
         /\ Len(<<x>> \o q) = Len(q) + 1
  OBVIOUS

LEMMA Pair ==
  ASSUME NEW S, NEW x \in S, NEW y \in S, NEW q \in Seq(S)
  PROVE  <<x, y>> \o q = <<x>> \o (<<y>> \o q)
<1> DEFINE l == <<x, y>> \o q
           r == <<x>> \o (<<y>> \o q)
<1>1. l \in Seq(S) /\ r \in Seq(S) /\ Len(l) = Len(q) + 2 /\ Len(r) = Len(q) + 2
  OBVIOUS
<1>2. \A n \in 1..Len(l) : l[n] = r[n]
  OBVIOUS
<1> HIDE DEF l, r
<1>3. l = r
  BY <1>1, <1>2
<1> QED
  BY <1>3 DEF l, r

LEMMA Empty ==
  ASSUME NEW S, NEW q \in Seq(S)
  PROVE  << >> \o q = q /\ q \o << >> = q
  OBVIOUS

LEMMA Assoc ==
  ASSUME NEW S, NEW p \in Seq(S), NEW q \in Seq(S), NEW r \in Seq(S)
  PROVE  (p \o q) \o r = p \o (q \o r)
  OBVIOUS

LEMMA Joined ==
  ASSUME NEW S, NEW p \in Seq(S), NEW q \in Seq(S)
  PROVE  p \o q \in Seq(S)
  OBVIOUS

LEMMA Concat ==
  ASSUME NEW S, NEW p \in Seq(S), NEW q \in Seq(S), NEW r \in Seq(S)
  PROVE  (p \o q) \o r \in Seq(S)
  OBVIOUS

LEMMA HeadAndTail ==
  ASSUME NEW S, NEW q \in Seq(S), q # << >>
  PROVE  Head(q) \in S /\ Tail(q) \in Seq(S) /\ Len(Tail(q)) = Len(q) - 1
  OBVIOUS

LEMMA OneElement ==
  ASSUME NEW S, NEW x \in S
  PROVE  <<x>> \in Seq(S) /\ Len(<<x>>) = 1
  OBVIOUS

LEMMA NoElement ==
  ASSUME NEW S
  PROVE  << >> \in Seq(S) /\ Len(<< >>) = 0
  OBVIOUS

------------------------------------------------------------------------------
(* The disciplines. *)

Trees == [root : Kinds \cup {"none", "netem"}, class : InRange \cup {None}, netem : Args]

\* There is nothing below a root that is not there.
Sane(t) == t.root = "none" => t = Default

LEMMA DefaultIsTree == Default \in Trees /\ Sane(Default) /\ NoNetem \in Args
  BY DEF Default, Trees, Sane, NoNetem, Args

LEMMA EffectType ==
  ASSUME NEW t \in Trees, Sane(t), NEW c \in Commands, Accepts(t, c)
  PROVE  Effect(t, c) \in Trees /\ Sane(Effect(t, c))
<1>1. CASE c = DelRoot
  <2>1. Effect(t, c) = Default
    BY <1>1 DEF Effect, DelRoot
  <2> QED
    BY <2>1, DefaultIsTree
<1>2. ASSUME NEW k \in Kinds, NEW b \in InRange, c = AddRoot(k, b)
      PROVE  Effect(t, c) \in Trees /\ Sane(Effect(t, c))
  <2>1. Effect(t, c) = [Default EXCEPT !.root = k, !.class = IF k = "tbf" THEN b ELSE None]
    BY <1>2 DEF Effect, AddRoot
  <2> QED
    BY <2>1, DefaultIsTree DEF Trees, Sane, Kinds, Default
<1>3. ASSUME NEW v, NEW k \in Kinds, NEW b \in InRange, c = Class(v, k, b)
      PROVE  Effect(t, c) \in Trees /\ Sane(Effect(t, c))
  <2>1. t.root = k /\ Effect(t, c) = [t EXCEPT !.class = b]
    BY <1>3 DEF Effect, Accepts, Class
  <2> QED
    BY <2>1 DEF Trees, Sane, Kinds
<1>4. ASSUME NEW v, NEW a \in Args, c = Netem(v, "root", a)
      PROVE  Effect(t, c) \in Trees /\ Sane(Effect(t, c))
  <2>1. Effect(t, c) = [Default EXCEPT !.root = "netem",
                          !.netem = IF t.root \in Kinds /\ t.netem # NoNetem
                                      THEN t.netem ELSE a]
    BY <1>4 DEF Effect, Netem
  <2> QED
    BY <2>1, DefaultIsTree DEF Trees, Sane, Default
<1>5. ASSUME NEW v, NEW a \in Args, c = Netem(v, "class", a)
      PROVE  Effect(t, c) \in Trees /\ Sane(Effect(t, c))
  <2>1. t.class # None /\ Effect(t, c) = [t EXCEPT !.netem = a]
    BY <1>5 DEF Effect, Accepts, Netem
  <2>2. t.root # "none"
    BY <2>1 DEF Sane, Default
  <2> QED
    BY <2>1, <2>2 DEF Trees, Sane
<1> QED
  BY <1>1, <1>2, <1>3, <1>4, <1>5 DEF Commands

------------------------------------------------------------------------------
(* Looking ahead. Left(n): the n commands that are left do the rest.       *)

Left0(t, q, call) == q = << >> /\ t = Asked(call)

Left1(t, q, call) ==
  q # << >> /\ Accepts(t, Head(q)) /\ Left0(Effect(t, Head(q)), Tail(q), call)

Left2(t, q, call) ==
  q # << >> /\ Accepts(t, Head(q)) /\ Left1(Effect(t, Head(q)), Tail(q), call)

Left3(t, q, call) ==
  q # << >> /\ Accepts(t, Head(q)) /\ Left2(Effect(t, Head(q)), Tail(q), call)

Left4(t, q, call) ==
  q # << >> /\ Accepts(t, Head(q)) /\ Left3(Effect(t, Head(q)), Tail(q), call)

UpToThree(t, q, call) ==
  Left0(t, q, call) \/ Left1(t, q, call) \/ Left2(t, q, call) \/ Left3(t, q, call)

Left(t, q, call) == UpToThree(t, q, call) \/ Left4(t, q, call)

\* One more command in front.
LEMMA OneMore ==
  ASSUME NEW t, NEW c \in Commands, NEW q \in Seq(Commands), NEW call,
         Accepts(t, c)
  PROVE  /\ Left0(Effect(t, c), q, call) => Left1(t, <<c>> \o q, call)
         /\ Left1(Effect(t, c), q, call) => Left2(t, <<c>> \o q, call)
         /\ Left2(Effect(t, c), q, call) => Left3(t, <<c>> \o q, call)
         /\ Left3(Effect(t, c), q, call) => Left4(t, <<c>> \o q, call)
<1>1. <<c>> \o q # << >> /\ Head(<<c>> \o q) = c /\ Tail(<<c>> \o q) = q
  BY FirstOfTwo
<1> DEFINE l == <<c>> \o q
<1> HIDE DEF l
<1>2. l # << >> /\ Head(l) = c /\ Tail(l) = q
  BY <1>1 DEF l
<1>3. /\ Left0(Effect(t, c), q, call) => Left1(t, l, call)
      /\ Left1(Effect(t, c), q, call) => Left2(t, l, call)
      /\ Left2(Effect(t, c), q, call) => Left3(t, l, call)
      /\ Left3(Effect(t, c), q, call) => Left4(t, l, call)
  BY <1>2 DEF Left1, Left2, Left3, Left4
<1> QED
  BY <1>3 DEF l

\* One command less.
LEMMA OneLess ==
  ASSUME NEW t, NEW q, NEW call, q # << >>, Left(t, q, call)
  PROVE  /\ Accepts(t, Head(q))
         /\ Left(Effect(t, Head(q)), Tail(q), call)
<1>1. ~Left0(t, q, call)
  BY DEF Left0
<1>2. CASE Left1(t, q, call)
  BY <1>2 DEF Left, UpToThree, Left1
<1>3. CASE Left2(t, q, call)
  BY <1>3 DEF Left, UpToThree, Left2
<1>4. CASE Left3(t, q, call)
  BY <1>4 DEF Left, UpToThree, Left3
<1>5. CASE Left4(t, q, call)
  BY <1>5 DEF Left, UpToThree, Left4
<1> QED
  BY <1>1, <1>2, <1>3, <1>4, <1>5 DEF Left, UpToThree

\* When none is left all has been done.
LEMMA NoneLeft ==
  ASSUME NEW t, NEW call, Left(t, << >>, call)
  PROVE  t = Asked(call)
  BY DEF Left, UpToThree, Left0, Left1, Left2, Left3, Left4

------------------------------------------------------------------------------
(* The calls. *)

\* The arguments of a call that config makes commands of.
Arguments(call) ==
  /\ call.bw \in InRange \cup OutOfRange \cup {None}
  /\ call.delay \in Delays \cup {Zero, None}
  /\ call.jitter \in Jitters \cup NegativeJitters \cup {Zero, None}
  /\ call.loss \in Losses \cup BadLosses \cup {Zero, None}
  /\ call.queue \in Queues \cup {None}
  /\ call.kind \in Kinds

LEMMA CommandsOfCall ==
  ASSUME NEW call, Arguments(call)
  PROVE  /\ NetemArgs(call) \in Args
         /\ Shaped(call) =>
              /\ AddRoot(call.kind, call.bw) \in Commands
              /\ Class("add", call.kind, call.bw) \in Commands
              /\ Class("change", call.kind, call.bw) \in Commands
         /\ \A v \in {"add", "replace"} :
              Netem(v, Parent(call), NetemArgs(call)) \in Commands
<1>1. NetemArgs(call) \in Args
  BY DEF NetemArgs, Args, Arguments, NoNetem
<1>2. Parent(call) \in {"root", "class"}
  BY DEF Parent
<1>3. Shaped(call) => call.bw \in InRange
  BY DEF Shaped
<1>4. call.kind \in Kinds
  BY DEF Arguments
<1> QED
  BY <1>1, <1>2, <1>3, <1>4 DEF Commands

LEMMA ClearType ==
  /\ DelRoot \in Commands
  /\ \A isSmooth : /\ ClearCmds(isSmooth) \in Seq(Commands)
                   /\ Len(ClearCmds(isSmooth)) <= 1
<1>1. DelRoot \in Commands
  BY DEF Commands
<1>2. /\ <<DelRoot>> \in Seq(Commands) /\ Len(<<DelRoot>>) <= 1
      /\ << >> \in Seq(Commands) /\ Len(<< >>) <= 1
  BY <1>1, OneElement, NoElement
<1>3. \A isSmooth : ClearCmds(isSmooth) = <<DelRoot>> \/ ClearCmds(isSmooth) = << >>
  BY DEF ClearCmds
<1> QED
  BY <1>1, <1>2, <1>3

\* The netem of a call, on a tree that has the rest of it.
LEMMA NetemLast ==
  ASSUME NEW t, NEW call, Arguments(call), NEW v \in {"add", "replace"},
         \/ Shaped(call) /\ t.root = call.kind /\ t.class = call.bw
              /\ (v = "add" => t.netem = NoNetem)
              /\ t = [root |-> t.root, class |-> t.class, netem |-> t.netem]
         \/ ~Shaped(call) /\ t = Default
         \/ ~Shaped(call) /\ v = "replace" /\ t.root = "netem",
         NetemArgs(call) # NoNetem, Readable(NetemArgs(call))
  PROVE  Left1(t, <<Netem(v, Parent(call), NetemArgs(call))>>, call)
<1> DEFINE c == Netem(v, Parent(call), NetemArgs(call))
<1>1. c \in Commands
  BY CommandsOfCall
<1>2. Accepts(t, c) /\ Effect(t, c) = Asked(call)
  <2>1. CASE Shaped(call)
    <3>1. /\ call.bw # None /\ t.class = call.bw /\ t.root = call.kind
          /\ v = "replace" \/ t.netem = NoNetem
          /\ t = [root |-> t.root, class |-> t.class, netem |-> t.netem]
      BY <2>1, NoneIsNoValue DEF Shaped
    <3>2. c = [op |-> "netem", verb |-> v, parent |-> "class", args |-> NetemArgs(call)]
      BY <2>1 DEF Netem, Parent
    <3>3. Accepts(t, c)
      BY <3>1, <3>2 DEF Accepts
    <3>4. Effect(t, c) = [t EXCEPT !.netem = NetemArgs(call)]
      BY <3>2 DEF Effect
    <3>5. [t EXCEPT !.netem = NetemArgs(call)] =
            [root |-> call.kind, class |-> call.bw, netem |-> NetemArgs(call)]
      BY <3>1
    <3> QED
      BY <2>1, <3>3, <3>4, <3>5 DEF Asked
  <2>2. CASE ~Shaped(call)
    <3>1. /\ v = "replace" \/ t.root = "none"
          /\ t.root \notin Kinds
      BY <2>2 DEF Default, Kinds
    <3>2. c = [op |-> "netem", verb |-> v, parent |-> "root", args |-> NetemArgs(call)]
      BY <2>2 DEF Netem, Parent
    <3>3. Accepts(t, c)
      BY <3>1, <3>2 DEF Accepts
    <3>4. Effect(t, c) = [Default EXCEPT !.root = "netem", !.netem = NetemArgs(call)]
      BY <3>1, <3>2 DEF Effect
    <3> QED
      BY <2>2, <3>3, <3>4 DEF Asked
  <2> QED
    BY <2>1, <2>2
<1>3. Left0(Effect(t, c), << >>, call)
  BY <1>2 DEF Left0
<1>4. Left1(t, <<c>> \o << >>, call)
  BY <1>1, <1>2, <1>3, OneMore, NoElement
<1>5. <<c>> \o << >> = <<c>>
  BY <1>1, OneElement, Empty
<1> HIDE DEF c
<1> QED
  BY <1>4, <1>5 DEF c

\* What the commands of a hard call do to an interface that has been cleared.
LEMMA Built ==
  ASSUME NEW call, Arguments(call), Readable(NetemArgs(call))
  PROVE  /\ BwCmds(call, FALSE) \in Seq(Commands) /\ DelayCmds(call, FALSE) \in Seq(Commands)
         /\ UpToThree(Default, BwCmds(call, FALSE) \o DelayCmds(call, FALSE), call)
<1> DEFINE netem == DelayCmds(call, FALSE)
           root == AddRoot(call.kind, call.bw)
           class == Class("add", call.kind, call.bw)
           tree1 == [root |-> call.kind, class |-> None, netem |-> NoNetem]
           tree2 == [root |-> call.kind, class |-> call.bw, netem |-> NoNetem]
<1>1. netem \in Seq(Commands) /\ Len(netem) <= 1
  BY CommandsOfCall, OneElement, NoElement DEF DelayCmds
\* the netem, on what the bandwidth has made:
<1>2. ASSUME NEW t, \/ Shaped(call) /\ t = tree2
                    \/ ~Shaped(call) /\ t = Default
      PROVE  Left0(t, netem, call) \/ Left1(t, netem, call)
  <2>1. CASE NetemArgs(call) = NoNetem
    BY <1>2, <2>1 DEF DelayCmds, Left0, Asked
  <2>2. CASE NetemArgs(call) # NoNetem
    <3>1. Left1(t, <<Netem("add", Parent(call), NetemArgs(call))>>, call)
      BY <1>2, <2>2, NetemLast
    <3> QED
      BY <2>2, <3>1 DEF DelayCmds
  <2> QED
    BY <2>1, <2>2
<1>3. CASE ~Shaped(call)
  <2>1. BwCmds(call, FALSE) = << >>
    BY <1>3 DEF BwCmds
  <2>2. BwCmds(call, FALSE) \o netem = netem
    BY <1>1, <2>1, Empty
  <2>3. Left0(Default, netem, call) \/ Left1(Default, netem, call)
    BY <1>2, <1>3
  <2> HIDE DEF netem
  <2>4. UpToThree(Default, BwCmds(call, FALSE) \o netem, call)
    BY <2>2, <2>3 DEF UpToThree
  <2> QED
    BY <1>1, <2>1, <2>4, NoElement DEF netem
<1>4. ASSUME Shaped(call)
      PROVE  /\ root \in Commands /\ class \in Commands /\ Accepts(Default, root)
             /\ call.bw # None /\ call.bw \in InRange /\ call.kind \in Kinds
  BY <1>4, CommandsOfCall, NoneIsNoValue DEF Accepts, Default, AddRoot, Shaped, Arguments
<1>5. CASE Shaped(call) /\ call.kind = "tbf"
  <2>1. BwCmds(call, FALSE) = <<root>>
    BY <1>5 DEF BwCmds
  <2>2. Effect(Default, root) = tree2
    BY <1>5 DEF Effect, Default, AddRoot
  <2>3. Left0(tree2, netem, call) \/ Left1(tree2, netem, call)
    BY <1>2, <1>5
  <2> HIDE DEF netem, root, tree2
  <2>4. Left1(Default, <<root>> \o netem, call) \/ Left2(Default, <<root>> \o netem, call)
    BY <1>1, <1>4, <1>5, <2>2, <2>3, OneMore
  <2>5. UpToThree(Default, BwCmds(call, FALSE) \o netem, call)
    BY <2>1, <2>4 DEF UpToThree
  <2>6. <<root>> \in Seq(Commands) /\ Len(<<root>>) = 1
    BY <1>4, <1>5, OneElement
  <2> QED
    BY <1>1, <2>1, <2>5, <2>6 DEF netem
<1>6. CASE Shaped(call) /\ call.kind # "tbf"
  <2>1. BwCmds(call, FALSE) = <<root, class>>
    BY <1>6 DEF BwCmds
  <2>2. Effect(Default, root) = tree1
    BY <1>6 DEF Effect, Default, AddRoot
  <2>3. Accepts(tree1, class)
    BY <1>6 DEF Accepts, Class
  <2>4. Effect(tree1, class) = tree2
    BY <1>6 DEF Effect, Class
  <2>5. Left0(tree2, netem, call) \/ Left1(tree2, netem, call)
    BY <1>2, <1>6
  <2> HIDE DEF netem, root, class, tree1, tree2
  <2>6. Left1(tree1, <<class>> \o netem, call) \/ Left2(tree1, <<class>> \o netem, call)
    BY <1>1, <1>4, <1>6, <2>3, <2>4, <2>5, OneMore
  <2>7. <<class>> \o netem \in Seq(Commands)
    BY <1>1, <1>4, <1>6, FirstOfTwo
  <2>8. \/ Left2(Default, <<root>> \o (<<class>> \o netem), call)
        \/ Left3(Default, <<root>> \o (<<class>> \o netem), call)
    BY <1>4, <1>6, <2>2, <2>6, <2>7, OneMore
  <2>9. <<root, class>> \o netem = <<root>> \o (<<class>> \o netem)
    BY <1>1, <1>4, <1>6, Pair
  <2>10. UpToThree(Default, BwCmds(call, FALSE) \o netem, call)
    BY <2>1, <2>8, <2>9 DEF UpToThree
  <2>11. <<root, class>> \in Seq(Commands) /\ Len(<<root, class>>) = 2
    BY <1>4, <1>6
  <2> QED
    BY <1>1, <2>1, <2>10, <2>11 DEF netem
<1> HIDE DEF netem, root, class, tree1, tree2
<1> QED
  BY <1>3, <1>5, <1>6

\* A hard call does what it was asked, whatever is there.
LEMMA HardCallDone ==
  ASSUME NEW call, Arguments(call), Readable(NetemArgs(call)), tree \in Trees, Sane(tree)
  PROVE  Left(tree, ClearCmds(FALSE) \o BwCmds(call, FALSE) \o DelayCmds(call, FALSE), call)
<1> DEFINE clear == ClearCmds(FALSE)
           bw == BwCmds(call, FALSE)
           netem == DelayCmds(call, FALSE)
           build == bw \o netem
<1>1. /\ bw \in Seq(Commands) /\ netem \in Seq(Commands)
      /\ UpToThree(Default, build, call)
  BY Built
<1>2. clear \in Seq(Commands) /\ DelRoot \in Commands
  BY ClearType
<1> HIDE DEF clear, bw, netem
<1>3. (clear \o bw) \o netem = clear \o build
  BY <1>1, <1>2, Assoc
<1>4. build \in Seq(Commands)
  BY <1>1
<1> HIDE DEF build
<1>5. Left(tree, clear \o build, call)
  <2>1. CASE tree.root = "none"
    <3>1. tree = Default /\ clear \o build = build
      BY <1>4, <2>1, Empty DEF Sane, clear, ClearCmds
    <3> QED
      BY <1>1, <3>1 DEF Left
  <2>2. CASE tree.root # "none"
    <3>1. clear = <<DelRoot>>
      BY <2>2 DEF clear, ClearCmds
    <3>2. Accepts(tree, DelRoot) /\ Effect(tree, DelRoot) = Default
      BY <2>2 DEF Accepts, Effect, DelRoot
    <3>3. Left(tree, <<DelRoot>> \o build, call)
      BY <1>1, <1>2, <1>4, <3>2, OneMore DEF UpToThree, Left
    <3> QED
      BY <3>1, <3>3
  <2> QED
    BY <2>1, <2>2
<1> QED
  BY <1>3, <1>5 DEF clear, bw, netem

\* A smooth call does so if it is alike.
LEMMA SmoothCallDone ==
  ASSUME NEW call, Arguments(call), Readable(NetemArgs(call)), Arguments(stored),
         ~RequiresHardReset(call), Alike(call), tree = Asked(stored)
  PROVE  Left(tree, ClearCmds(TRUE) \o BwCmds(call, TRUE) \o DelayCmds(call, TRUE), call)
<1> DEFINE bw == BwCmds(call, TRUE)
           netem == DelayCmds(call, TRUE)
           change == Class("change", call.kind, call.bw)
<1>1. ClearCmds(TRUE) = << >>
  BY DEF ClearCmds
<1>2. /\ call.kind = stored.kind
      /\ NetemArgs(call) = NoNetem => NetemArgs(stored) = NoNetem
  BY DEF RequiresHardReset, Alike
<1>3. netem \in Seq(Commands)
  BY CommandsOfCall, OneElement, NoElement DEF DelayCmds
<1>4. CASE ~Shaped(call)
  <2>1. bw = << >>
    BY <1>4 DEF BwCmds
  <2>2. ~Shaped(stored)
    BY <1>4 DEF Alike
  <2>3. Left0(tree, netem, call) \/ Left1(tree, netem, call)
    <3>1. CASE NetemArgs(call) = NoNetem
      BY <1>2, <1>4, <2>2, <3>1 DEF DelayCmds, Left0, Asked
    <3>2. CASE NetemArgs(call) # NoNetem
      <4>1. tree = Default \/ tree.root = "netem"
        BY <2>2 DEF Asked, Default
      <4>2. Left1(tree, <<Netem("replace", Parent(call), NetemArgs(call))>>, call)
        BY <1>4, <3>2, <4>1, NetemLast
      <4> QED
        BY <3>2, <4>2 DEF DelayCmds
    <3> QED
      BY <3>1, <3>2
  <2>4. (<< >> \o << >>) \o netem = netem
    BY <1>3, NoElement, Empty
  <2> HIDE DEF netem
  <2>5. Left(tree, (<< >> \o << >>) \o netem, call)
    BY <2>3, <2>4 DEF Left, UpToThree
  <2> QED
    BY <1>1, <2>1, <2>5 DEF netem
<1>5. CASE Shaped(call)
  <2> DEFINE tree2 == [tree EXCEPT !.class = call.bw]
  <2>1. /\ Shaped(stored) /\ call.kind # "tbf"
        /\ tree = [root |-> call.kind, class |-> stored.bw, netem |-> NetemArgs(stored)]
    BY <1>2, <1>5 DEF Alike, Asked
  <2>2. bw = <<change>>
    BY <1>5, <2>1 DEF BwCmds
  <2>3. stored.bw # None /\ change \in Commands
    BY <1>5, <2>1, CommandsOfCall, NoneIsNoValue DEF Shaped
  <2>4. Accepts(tree, change) /\ Effect(tree, change) = tree2
    BY <2>1, <2>3 DEF Accepts, Effect, Class
  <2>5. tree2 = [root |-> call.kind, class |-> call.bw, netem |-> NetemArgs(stored)]
    BY <2>1
  <2> HIDE DEF tree2
  <2>6. Left0(tree2, netem, call) \/ Left1(tree2, netem, call)
    <3>1. CASE NetemArgs(call) = NoNetem
      BY <1>2, <1>5, <2>5, <3>1 DEF DelayCmds, Left0, Asked
    <3>2. CASE NetemArgs(call) # NoNetem
      <4>1. Left1(tree2, <<Netem("replace", Parent(call), NetemArgs(call))>>, call)
        BY <1>5, <2>5, <3>2, NetemLast
      <4> QED
        BY <3>2, <4>1 DEF DelayCmds
    <3> QED
      BY <3>1, <3>2
  <2>7. (<< >> \o <<change>>) \o netem = <<change>> \o netem
    BY <2>3, OneElement, Empty
  <2> HIDE DEF netem, change
  <2>8. Left(tree, <<change>> \o netem, call)
    BY <1>3, <2>3, <2>4, <2>6, OneMore DEF Left, UpToThree
  <2> QED
    BY <1>1, <2>2, <2>7, <2>8 DEF netem
<1> QED
  BY <1>4, <1>5

------------------------------------------------------------------------------
(* The invariant. *)

IInv ==
  /\ TypeOK
  /\ Sane(tree)
  /\ stored = NotStored => todo = << >>
  /\ sound => ~failed /\ (stored # NotStored => Left(tree, todo, stored))

LEMMA StoredArgs ==
  ASSUME TypeOK, stored # NotStored
  PROVE  Arguments(stored)
  BY DEF TypeOK, Settings, Arguments

LEMMA CallArgs ==
  ASSUME NEW call \in Calls
  PROVE  Arguments(call) /\ call.smooth \in BOOLEAN
<1> DEFINE kept == [bw |-> call.bw, delay |-> call.delay, jitter |-> call.jitter,
                    loss |-> call.loss, queue |-> call.queue, kind |-> call.kind]
<1>1. kept \in Settings /\ call.smooth \in BOOLEAN
  BY CallsAreArguments
<1>2. /\ kept.bw = call.bw /\ kept.delay = call.delay
      /\ kept.jitter = call.jitter /\ kept.loss = call.loss
      /\ kept.queue = call.queue /\ kept.kind = call.kind
  OBVIOUS
<1> HIDE DEF kept
<1> QED
  BY <1>1, <1>2 DEF Arguments, Settings

LEMMA InitInvariant == Init => IInv
<1> SUFFICES ASSUME Init PROVE IInv
  OBVIOUS
<1>1. TypeOK
  <2>1. tree \in Trees /\ todo \in Seq(Commands) /\ Len(todo) <= 4
    BY DefaultIsTree, NoElement DEF Init
  <2> QED
    BY <2>1 DEF Init, TypeOK, Trees
<1> QED
  BY <1>1, DefaultIsTree DEF Init, IInv

LEMMA TcInvariant ==
  ASSUME IInv, Tc
  PROVE  IInv'
<1>1. /\ todo \in Seq(Commands) /\ todo # << >> /\ Len(todo) <= 4
      /\ tree \in Trees /\ Sane(tree) /\ stored # NotStored
  BY DEF IInv, TypeOK, Trees, Tc
<1>2. /\ todo' = Tail(todo) /\ Head(todo) \in Commands
      /\ todo' \in Seq(Commands) /\ Len(todo') <= 4
      /\ UNCHANGED <<stored, smooth, sound>>
  BY <1>1, HeadAndTail DEF Tc
<1>3. tree' \in Trees /\ Sane(tree') /\ failed' \in BOOLEAN
  BY <1>1, <1>2, EffectType DEF Tc, IInv, TypeOK
<1>4. ASSUME sound
      PROVE  ~failed' /\ Left(tree', todo', stored')
  <2>1. Left(tree, todo, stored) /\ ~failed
    BY <1>1, <1>4 DEF IInv
  <2>2. Accepts(tree, Head(todo)) /\ Left(Effect(tree, Head(todo)), Tail(todo), stored)
    BY <1>1, <2>1, OneLess
  <2> QED
    BY <1>2, <2>1, <2>2 DEF Tc
<1> QED
  BY <1>1, <1>2, <1>3, <1>4 DEF IInv, TypeOK, Trees

LEMMA ConfigInvariant ==
  ASSUME IInv, NEW call \in Calls, Config(call)
  PROVE  IInv'
<1>1. Arguments(call) /\ call.smooth \in BOOLEAN
  BY CallArgs
<1>2. /\ todo = << >>
      /\ smooth' = (call.smooth /\ ~FirstTimeConfig /\ ~RequiresHardReset(call))
      /\ stored' = [bw |-> call.bw, delay |-> call.delay, jitter |-> call.jitter,
                    loss |-> call.loss, queue |-> call.queue, kind |-> call.kind]
      /\ todo' = ClearCmds(smooth') \o BwCmds(call, smooth') \o DelayCmds(call, smooth')
      /\ failed' = FALSE
      /\ sound' = (Readable(NetemArgs(call)) /\ (smooth' => sound /\ Alike(call)))
      /\ UNCHANGED tree
  BY DEF Config
<1>3. /\ stored' \in Settings /\ stored' # NotStored
      /\ smooth' \in BOOLEAN /\ sound' \in BOOLEAN
  BY <1>1, <1>2, CallsAreArguments DEF NotStored, Kinds, Arguments
<1>4. todo' \in Seq(Commands) /\ Len(todo') <= 4
  <2>1. ClearCmds(smooth') \in Seq(Commands) /\ Len(ClearCmds(smooth')) <= 1
    BY ClearType
  <2>2. BwCmds(call, smooth') \in Seq(Commands) /\ Len(BwCmds(call, smooth')) <= 2
    <3>1. CASE Shaped(call)
      <4>1. /\ AddRoot(call.kind, call.bw) \in Commands
            /\ Class("add", call.kind, call.bw) \in Commands
            /\ Class("change", call.kind, call.bw) \in Commands
        BY <1>1, <3>1, CommandsOfCall
      <4>2. /\ <<AddRoot(call.kind, call.bw)>> \in Seq(Commands)
            /\ <<Class("change", call.kind, call.bw)>> \in Seq(Commands)
            /\ <<AddRoot(call.kind, call.bw), Class("add", call.kind, call.bw)>> \in Seq(Commands)
        BY <4>1
      <4> QED
        BY <3>1, <4>2 DEF BwCmds
    <3>2. CASE ~Shaped(call)
      BY <3>2, NoElement DEF BwCmds
    <3> QED
      BY <3>1, <3>2
  <2>3. DelayCmds(call, smooth') \in Seq(Commands) /\ Len(DelayCmds(call, smooth')) <= 1
    BY <1>1, CommandsOfCall, OneElement, NoElement DEF DelayCmds
  <2> QED
    BY <1>2, <2>1, <2>2, <2>3
<1>5. ASSUME sound'
      PROVE  Left(tree, todo', call)
  <2>0. Readable(NetemArgs(call))
    BY <1>2, <1>5
  <2>1. tree \in Trees /\ Sane(tree)
    BY DEF IInv, TypeOK, Trees
  <2>2. CASE ~smooth'
    BY <1>1, <1>2, <1>3, <2>0, <2>1, <2>2, HardCallDone
  <2>3. CASE smooth'
    <3>1. sound /\ Alike(call) /\ ~RequiresHardReset(call) /\ stored # NotStored
      BY <1>2, <1>5, <2>3 DEF FirstTimeConfig
    <3>2. tree = Asked(stored)
      BY <1>2, <3>1, NoneLeft DEF IInv
    <3>3. Arguments(stored)
      BY <3>1, StoredArgs DEF IInv
    <3> QED
      BY <1>1, <1>2, <1>3, <2>0, <2>3, <3>1, <3>2, <3>3, SmoothCallDone
  <2> QED
    BY <1>3, <2>2, <2>3
<1>6. Asked(stored') = Asked(call)
  BY <1>2 DEF Asked, Shaped, NetemArgs
<1>7. ASSUME sound'
      PROVE  Left(tree', todo', stored')
  BY <1>2, <1>5, <1>6, <1>7 DEF Left, UpToThree, Left0, Left1, Left2, Left3, Left4
<1>8. TypeOK' /\ Sane(tree')
  BY <1>2, <1>3, <1>4 DEF IInv, TypeOK
<1> QED
  BY <1>2, <1>3, <1>7, <1>8 DEF IInv

LEMMA NextInvariant == IInv /\ [Next]_vars => IInv'
<1> SUFFICES ASSUME IInv, [Next]_vars PROVE IInv'
  OBVIOUS
<1>1. CASE Tc
  BY <1>1, TcInvariant
<1>2. ASSUME NEW call \in Calls, Config(call) PROVE IInv'
  BY <1>2, ConfigInvariant
<1>3. CASE UNCHANGED vars
  BY <1>3 DEF vars, IInv, TypeOK
<1> QED
  BY <1>1, <1>2, <1>3 DEF Next

\* The invariant holds throughout.
THEOREM Invariance == Spec => []IInv
<1>1. Init => IInv
  BY InitInvariant
<1>2. IInv /\ [Next]_vars => IInv'
  BY NextInvariant
<1> QED
  BY <1>1, <1>2, PTL DEF Spec

\* Commands and disciplines are of their types, whatever config is called with.
THEOREM TypeCorrect == Spec => []TypeOK
<1>1. IInv => TypeOK
  BY DEF IInv
<1> QED
  BY <1>1, Invariance, PTL

\* After the last command of a call the disciplines are those asked for, as
\* long as smooth calls do not begin or give up shaping or netem, and a jitter
\* comes with a delay (link_smooth.py:353-400).
THEOREM AskedIsConfigured == Spec => []ConfiguredAsAsked
<1>1. IInv => ConfiguredAsAsked
  BY NoneLeft DEF IInv, ConfiguredAsAsked
<1> QED
  BY <1>1, Invariance, PTL

\* As long as they do not, no command is refused (link_smooth.py:366-373).
THEOREM CommandsSucceed == Spec => []NoCommandFails
<1>1. IInv => NoCommandFails
  BY DEF IInv, NoCommandFails
<1> QED
  BY <1>1, Invariance, PTL

\* What is told to netem, in the two files.
LEMMA NetemEqual ==
  ASSUME NEW call, Arguments(call)
  PROVE  NetemArgs(call) = Stock!NetemArgs(call) <=>
           /\ call.loss # Zero
           /\ call.jitter \in NegativeJitters => call.loss \in BadLosses
<1> DEFINE mine == [delay |-> call.delay, jitter |-> call.jitter, loss |-> call.loss,
                    queue |-> call.queue]
           old == [delay |-> call.delay, jitter |-> call.jitter,
                   loss |-> IF call.loss = Zero THEN None ELSE call.loss,
                   queue |-> call.queue]
<1>1. CASE call.loss \in BadLosses
  <2>1. NetemArgs(call) = Stock!NetemArgs(call)
    BY <1>1 DEF NetemArgs, Stock!NetemArgs, NoNetem, Stock!NoNetem
  <2> QED
    BY <1>1, <2>1, NoneIsNoValue
<1>2. CASE call.loss \notin BadLosses /\ call.jitter \in NegativeJitters
  <2>1. NetemArgs(call) = NoNetem /\ Stock!NetemArgs(call) = old
    BY <1>2 DEF NetemArgs, Stock!NetemArgs
  <2>2. NoNetem.jitter = None /\ old.jitter = call.jitter
    BY DEF NoNetem
  <2>3. call.jitter # None
    BY <1>2, NoneIsNoValue
  <2> HIDE DEF old
  <2> QED
    BY <1>2, <2>1, <2>2, <2>3
<1>3. CASE call.loss \notin BadLosses /\ call.jitter \notin NegativeJitters
  <2>1. NetemArgs(call) = mine /\ Stock!NetemArgs(call) = old
    BY <1>3 DEF NetemArgs, Stock!NetemArgs
  <2>2. mine = old <=> call.loss # Zero
    <3>1. mine.loss = call.loss /\ (call.loss = Zero => old.loss = None)
      OBVIOUS
    <3>2. Zero # None
      BY NoneIsNoValue
    <3>3. call.loss # Zero => mine = old
      OBVIOUS
    <3> QED
      BY <3>1, <3>2, <3>3
  <2> HIDE DEF mine, old
  <2> QED
    BY <1>3, <2>1, <2>2
<1> QED
  BY <1>1, <1>2, <1>3

LEMMA Cancel ==
  ASSUME NEW S, NEW p \in Seq(S), NEW q \in Seq(S), NEW r \in Seq(S),
         Len(q) <= 1, Len(r) <= 1, p \o q = p \o r
  PROVE  q = r
<1>1. Len(p \o q) = Len(p) + Len(q) /\ Len(p \o r) = Len(p) + Len(r)
  OBVIOUS
<1>2. Len(q) = Len(r) /\ Len(p) \in Nat /\ Len(q) \in Nat
  BY <1>1
<1>3. ASSUME NEW n \in 1..Len(q) PROVE q[n] = r[n]
  <2>1. (p \o q)[Len(p) + n] = q[n] /\ (p \o r)[Len(p) + n] = r[n]
    BY <1>2, <1>3
  <2> QED
    BY <2>1
<1> QED
  BY <1>2, <1>3

\* The two files compared on one hard call.
HardEqual(call) ==
  LET mine == (ClearCmds(FALSE) \o BwCmds(call, FALSE)) \o DelayCmds(call, FALSE)
  IN  mine # << >> => (mine = Stock!Commands(tree, call) <=> ~Departs(call))

LEMMA HardCommands ==
  ASSUME NEW call, Arguments(call)
  PROVE  HardEqual(call)
<1> DEFINE front == ClearCmds(FALSE) \o BwCmds(call, FALSE)
           netem == DelayCmds(call, FALSE)
           old == Stock!DelayCmds(call)
           told == Stock!Netem("add", Stock!Parent(call), Stock!NetemArgs(call))
           S == Commands \cup {told}
<1>1. CASE Stock!NothingToSet(call)
  BY <1>1 DEF HardEqual, Departs, Stock!Commands
<1>2. CASE ~Stock!NothingToSet(call)
  <2>1. /\ Stock!Clear(tree) = ClearCmds(FALSE)
        /\ Stock!BwCmds(call) = BwCmds(call, FALSE)
    BY DEF Stock!Clear, ClearCmds, Stock!BwCmds, BwCmds, Shaped, Stock!Shaped,
           DelRoot, Stock!DelRoot, AddRoot, Stock!AddRoot, Class, Stock!Class
  <2>2. Stock!Commands(tree, call) = front \o old
    BY <1>2, <2>1 DEF Stock!Commands
  <2>3. netem = old <=> NetemArgs(call) = Stock!NetemArgs(call)
    <3>1. told = Netem("add", Parent(call), Stock!NetemArgs(call))
      BY DEF Netem, Stock!Netem, Parent, Stock!Parent, Shaped, Stock!Shaped
    <3>2. /\ netem = IF NetemArgs(call) = NoNetem THEN << >>
                     ELSE <<Netem("add", Parent(call), NetemArgs(call))>>
          /\ old = IF Stock!NetemArgs(call) = NoNetem THEN << >> ELSE <<told>>
      BY DEF DelayCmds, Stock!DelayCmds, NoNetem, Stock!NoNetem
    <3>3. \A a, b : Netem("add", Parent(call), a) = Netem("add", Parent(call), b) => a = b
      <4>1. \A a : Netem("add", Parent(call), a).args = a
        BY DEF Netem
      <4> QED
        BY <4>1
    <3> HIDE DEF netem, old, told
    <3> QED
      BY <3>1, <3>2, <3>3
  <2>4. /\ front \in Seq(S) /\ netem \in Seq(S) /\ old \in Seq(S)
        /\ Len(netem) <= 1 /\ Len(old) <= 1
    <3>1. ClearCmds(FALSE) \in Seq(S)
      BY ClearType DEF ClearCmds
    <3>2. BwCmds(call, FALSE) \in Seq(S)
      <4>1. CASE Shaped(call)
        <5>1. AddRoot(call.kind, call.bw) \in S /\ Class("add", call.kind, call.bw) \in S
          BY <4>1, CommandsOfCall
        <5> HIDE DEF S
        <5>2. /\ <<AddRoot(call.kind, call.bw)>> \in Seq(S)
              /\ <<AddRoot(call.kind, call.bw), Class("add", call.kind, call.bw)>> \in Seq(S)
          BY <5>1
        <5> QED
          BY <4>1, <5>2 DEF BwCmds
      <4>2. CASE ~Shaped(call)
        BY <4>2, NoElement DEF BwCmds
      <4> QED
        BY <4>1, <4>2
    <3>3. netem \in Seq(S) /\ Len(netem) <= 1
      <4>1. Netem("add", Parent(call), NetemArgs(call)) \in S
        BY CommandsOfCall
      <4> HIDE DEF S
      <4> QED
        BY <4>1, OneElement, NoElement DEF DelayCmds
    <3>4. old \in Seq(S) /\ Len(old) <= 1
      <4>1. told \in S
        OBVIOUS
      <4> HIDE DEF S, told
      <4>2. <<told>> \in Seq(S) /\ Len(<<told>>) = 1
        BY <4>1, OneElement
      <4>3. old = << >> \/ old = <<told>>
        BY DEF Stock!DelayCmds, told
      <4>4. << >> \in Seq(S) /\ Len(<< >>) = 0
        BY NoElement
      <4>5. 1 <= 1 /\ 0 <= 1
        OBVIOUS
      <4> HIDE DEF old
      <4> QED
        BY <4>2, <4>3, <4>4, <4>5
    <3> HIDE DEF S, netem, old
    <3>5. front \in Seq(S)
      BY <3>1, <3>2, Joined
    <3> HIDE DEF front
    <3> QED
      BY <3>3, <3>4, <3>5
  <2>5. NetemArgs(call) = Stock!NetemArgs(call) <=> ~Departs(call)
    BY <1>2, NetemEqual DEF Departs
  <2> HIDE DEF front, netem, old, S
  <2>6. front \o netem = front \o old <=> netem = old
    BY <2>4, Cancel
  <2>7. front \o netem = Stock!Commands(tree, call) <=> ~Departs(call)
    BY <2>2, <2>3, <2>5, <2>6
  <2> QED
    BY <2>7 DEF HardEqual, front, netem
<1> QED
  BY <1>1, <1>2

\* A hard call issues what link_old.py issues, whatever the arguments, unless
\* link_old.py returns from it, its loss is 0 or its jitter negative; then it
\* never does (link_smooth.py:291-315 and 359-400, link_old.py:292-311 and
\* 356-382).
THEOREM HardIsStock == Spec => HardCallsAreStock
<1> DEFINE Equal == todo' = Stock!Commands(tree, stored') <=> ~Departs(stored')
           Compared == todo = << >> /\ todo' # << >> /\ ~smooth' => Equal
<1>1. ASSUME IInv, [Next]_vars
      PROVE  Compared
  <2> SUFFICES ASSUME todo = << >>, todo' # << >>, ~smooth'
               PROVE  Equal
    OBVIOUS
  <2>1. PICK call \in Calls : Config(call)
    BY <1>1 DEF Next, Tc, vars
  <2>2. smooth' = FALSE
    BY <2>1, CallArgs DEF Config
  <2>3. Arguments(stored')
    BY <2>1, CallArgs DEF Config, Arguments
  <2>4. todo' = (ClearCmds(FALSE) \o BwCmds(stored', FALSE)) \o DelayCmds(stored', FALSE)
    BY <2>1, <2>2 DEF Config, BwCmds, DelayCmds, Shaped, NetemArgs, Parent
  <2> HIDE DEF Equal
  <2>5. HardEqual(stored')
    BY <2>3, HardCommands
  <2> QED
    BY <2>4, <2>5 DEF HardEqual, Equal
<1>2. IInv /\ [Next]_vars => [Compared]_vars
  BY <1>1
<1> QED
  BY <1>2, Invariance, PTL DEF Spec, HardCallsAreStock

------------------------------------------------------------------------------
(* Through a smooth change. *)

\* The commands of a smooth call to an interface that is shaped, and to one
\* that is not.
Gentle == {Class("change", k, b) : k \in Kinds, b \in InRange}
            \cup {Netem("replace", "class", a) : a \in Args \ {NoNetem}}
AtRoot == {Netem("replace", "root", a) : a \in Args}

Handled == smooth /\ sound => todo \in Seq(IF tree.root \in Kinds THEN Gentle ELSE AtRoot)

LEMMA GentleEffect ==
  ASSUME NEW t \in Trees, NEW c \in Gentle
  PROVE  /\ Effect(t, c).root = t.root
         /\ t.class # None => Effect(t, c).class # None
         /\ t.netem # NoNetem => Effect(t, c).netem # NoNetem
<1>1. ASSUME NEW k, NEW b \in InRange, c = Class("change", k, b)
      PROVE  /\ Effect(t, c).root = t.root /\ Effect(t, c).class # None
             /\ Effect(t, c).netem = t.netem
  <2>1. Effect(t, c) = [t EXCEPT !.class = b]
    BY <1>1 DEF Effect, Class
  <2> QED
    BY <1>1, <2>1, NoneIsNoValue DEF Trees
<1>2. ASSUME NEW a, a # NoNetem, c = Netem("replace", "class", a)
      PROVE  /\ Effect(t, c).root = t.root /\ Effect(t, c).class = t.class
             /\ Effect(t, c).netem # NoNetem
  <2>1. Effect(t, c) = [t EXCEPT !.netem = a]
    BY <1>2 DEF Effect, Netem
  <2> QED
    BY <1>2, <2>1 DEF Trees
<1> QED
  BY <1>1, <1>2 DEF Gentle

LEMMA RootEffect ==
  ASSUME NEW t, NEW c \in AtRoot
  PROVE  Effect(t, c).root \notin Kinds
<1>1. PICK a \in Args : c = Netem("replace", "root", a)
  BY DEF AtRoot
<1>2. Effect(t, c) = [Default EXCEPT !.root = "netem",
                        !.netem = IF t.root \in Kinds /\ t.netem # NoNetem THEN t.netem ELSE a]
  BY <1>1 DEF Effect, Netem
<1> QED
  BY <1>2 DEF Default, Kinds

\* The commands of a smooth call are handled so.
LEMMA SmoothCommands ==
  ASSUME NEW call, Arguments(call), Arguments(stored), ~RequiresHardReset(call), Alike(call),
         tree = Asked(stored)
  PROVE  ClearCmds(TRUE) \o BwCmds(call, TRUE) \o DelayCmds(call, TRUE)
           \in Seq(IF tree.root \in Kinds THEN Gentle ELSE AtRoot)
<1> DEFINE T == IF tree.root \in Kinds THEN Gentle ELSE AtRoot
<1>1. tree.root \in Kinds <=> Shaped(call)
  BY DEF Alike, Asked, Default, Kinds, Arguments
<1>2. ClearCmds(TRUE) \in Seq(T)
  BY DEF ClearCmds
<1>3. BwCmds(call, TRUE) \in Seq(T)
  <2>1. CASE Shaped(call)
    <3>1. Class("change", call.kind, call.bw) \in Gentle
      BY <2>1 DEF Gentle, Shaped, Arguments
    <3>2. BwCmds(call, TRUE) = <<Class("change", call.kind, call.bw)>>
      BY <2>1 DEF BwCmds, Alike
    <3> QED
      BY <1>1, <2>1, <3>1, <3>2, OneElement
  <2>2. CASE ~Shaped(call)
    BY <2>2 DEF BwCmds
  <2> QED
    BY <2>1, <2>2
<1>4. DelayCmds(call, TRUE) \in Seq(T)
  <2>1. CASE NetemArgs(call) = NoNetem
    BY <2>1 DEF DelayCmds
  <2>2. CASE NetemArgs(call) # NoNetem
    <3>1. NetemArgs(call) \in Args \ {NoNetem}
      BY <2>2, CommandsOfCall
    <3>2. Netem("replace", Parent(call), NetemArgs(call)) \in T
      BY <1>1, <3>1 DEF Parent, Gentle, AtRoot
    <3>3. DelayCmds(call, TRUE) = <<Netem("replace", Parent(call), NetemArgs(call))>>
      BY <2>2 DEF DelayCmds
    <3> QED
      BY <3>2, <3>3, OneElement
  <2> QED
    BY <2>1, <2>2
<1> HIDE DEF T
<1>5. (ClearCmds(TRUE) \o BwCmds(call, TRUE)) \o DelayCmds(call, TRUE) \in Seq(T)
  BY <1>2, <1>3, <1>4, Concat
<1> QED
  BY <1>5 DEF T

LEMMA HandledNext == IInv /\ Handled /\ [Next]_vars => Handled'
<1> SUFFICES ASSUME IInv, Handled, [Next]_vars, smooth', sound'
             PROVE  todo' \in Seq(IF tree'.root \in Kinds THEN Gentle ELSE AtRoot)
  BY DEF Handled
<1>1. tree \in Trees
  BY DEF IInv, TypeOK, Trees
<1>2. CASE Tc
  <2> DEFINE T == IF tree.root \in Kinds THEN Gentle ELSE AtRoot
  <2>1. todo \in Seq(T) /\ todo # << >> /\ todo' = Tail(todo)
    BY <1>2 DEF Tc, Handled
  <2>2. Head(todo) \in T /\ todo' \in Seq(T)
    BY <2>1, HeadAndTail
  <2>3. tree' = tree \/ tree' = Effect(tree, Head(todo))
    BY <1>2 DEF Tc
  <2>4. tree.root \in Kinds <=> tree'.root \in Kinds
    BY <1>1, <2>2, <2>3, GentleEffect, RootEffect
  <2> QED
    BY <2>2, <2>4
<1>3. ASSUME NEW call \in Calls, Config(call)
      PROVE  todo' \in Seq(IF tree'.root \in Kinds THEN Gentle ELSE AtRoot)
  <2>1. /\ todo = << >> /\ stored # NotStored /\ ~RequiresHardReset(call)
        /\ sound /\ Alike(call) /\ smooth' = TRUE /\ tree' = tree
    BY <1>3 DEF Config, FirstTimeConfig
  <2>2. todo' = ClearCmds(TRUE) \o BwCmds(call, TRUE) \o DelayCmds(call, TRUE)
    BY <1>3, <2>1 DEF Config
  <2>3. Arguments(call) /\ Arguments(stored)
    BY <2>1, CallArgs, StoredArgs DEF IInv
  <2>4. tree = Asked(stored)
    BY <2>1, NoneLeft DEF IInv
  <2> QED
    BY <2>1, <2>2, <2>3, <2>4, SmoothCommands
<1>4. CASE UNCHANGED vars
  BY <1>4 DEF vars, Handled
<1> QED
  BY <1>2, <1>3, <1>4 DEF Next

\* Through the commands of a smooth call the interface keeps its discipline, a
\* bandwidth and its delay at every moment: none of them takes away what the
\* queued packets are in (link_smooth.py:370-400).
THEOREM SmoothIsGentle == Spec => SmoothKeepsShaping
<1> DEFINE Keeps ==
             smooth /\ sound /\ todo # << >> /\ tree.root \in Kinds =>
               /\ tree'.root = tree.root
               /\ tree.class # None => tree'.class # None
               /\ tree.netem # NoNetem => tree'.netem # NoNetem
<1>1. Init => Handled
  BY DEF Init, Handled
<1>2. IInv /\ Handled /\ [Next]_vars => Handled'
  BY HandledNext
<1>3. IInv /\ Handled /\ [Next]_vars => [Keeps]_vars
  <2> SUFFICES ASSUME IInv, Handled, [Next]_vars,
                      smooth, sound, todo # << >>, tree.root \in Kinds
               PROVE  /\ tree'.root = tree.root
                      /\ tree.class # None => tree'.class # None
                      /\ tree.netem # NoNetem => tree'.netem # NoNetem
    OBVIOUS
  <2>1. tree \in Trees
    BY DEF IInv, TypeOK, Trees
  <2>2. todo \in Seq(Gentle)
    BY DEF Handled
  <2>3. Head(todo) \in Gentle
    BY <2>2, HeadAndTail
  <2>4. tree' = tree \/ tree' = Effect(tree, Head(todo))
    BY DEF Next, Tc, Config, vars
  <2> QED
    BY <2>1, <2>3, <2>4, GentleEffect
<1> QED
  BY <1>1, <1>2, <1>3, Invariance, PTL DEF Spec, SmoothKeepsShaping
==============================================================================
