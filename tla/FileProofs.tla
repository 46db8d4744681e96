----------------------------- MODULE FileProofs -----------------------------
(***************************************************************************)
(* Both halves of fshelpers.c.  First FileCommands: the tree stays a tree  *)
(* around the current directory, and rm -r stays below its operand, for    *)
(* all names, whatever is cut off a path, however many calls run and       *)
(* however the disk fails.  Then Volumes: what starting the machine and    *)
(* formatting a disk may do to the volumes, for any number of drives, any  *)
(* partition tables, any number of boots and every way the disks may fail. *)
(***************************************************************************)
EXTENDS FileCommands, Volumes, SequenceTheorems, WellFoundedInduction, TLAPS

(***************************************************************************)
(* Sequences.                                                              *)
(***************************************************************************)
\* A sequence that is not empty is its front and its last element.
LEMMA FrontAndLast ==
    ASSUME NEW S, NEW s \in Seq(S), s # <<>>
    PROVE  /\ Front(s) \in Seq(S) /\ Last(s) \in S
           /\ s = Append(Front(s), Last(s))
<1>1. PICK u \in Seq(S), e \in S : s = Append(u, e)
  BY SequenceEmptyOrAppend
<1>2. Len(u) \in Nat /\ Len(s) = Len(u) + 1 /\ s[Len(u) + 1] = e
  BY <1>1, AppendProperties, LenProperties
<1>3. Last(s) = e
  BY <1>2 DEF Last
<1>4. \A i \in 1 .. Len(s) - 1 : s[i] = u[i] /\ u[i] \in S
  BY <1>1, <1>2, AppendProperties, ElementOfSeq
<1>5. /\ Front(s) \in Seq(S)
      /\ Len(Front(s)) = IF 1 <= Len(s) - 1 THEN Len(s) - 1 - 1 + 1 ELSE 0
      /\ \A i \in 1 .. Len(s) - 1 - 1 + 1 : Front(s)[i] = s[1 + i - 1]
  <2>1. 1 \in Int /\ Len(s) - 1 \in Int /\ \A i \in 1 .. Len(s) - 1 : s[i] \in S
    BY <1>2, <1>4
  <2> QED
    BY <2>1, SubSeqProperties DEF Front
<1>6. Len(Front(s)) = Len(u) /\ \A i \in 1 .. Len(u) : Front(s)[i] = u[i]
  BY <1>2, <1>4, <1>5
<1>7. Front(s) = u
  BY <1>5, <1>6, SeqEqual
<1> QED
  BY <1>1, <1>3, <1>5, <1>7

\* A sequence is a prefix of itself with more behind it.
LEMMA PrefixOfConcat ==
    ASSUME NEW S, NEW s \in Seq(S), NEW r \in Seq(S)
    PROVE  IsPrefix(s, s \o r)
<1>1. /\ Len(s) \in Nat /\ Len(r) \in Nat
      /\ Len(s \o r) = Len(s) + Len(r)
  BY LenProperties, ConcatProperties
<1>2. SubSeq(s, 1, Len(s)) = SubSeq(s \o r, 1, Len(s))
  <2>1. CASE Len(s) = 0
    BY <2>1, SubSeqEmpty
  <2>2. CASE Len(s) > 0
    <3>1. 1 \in 1 .. Len(s) /\ Len(s) \in 1 .. Len(s)
      BY <1>1, <2>2
    <3> QED
      BY <3>1, SubSeqOfConcat1
  <2> QED
    BY <1>1, <2>1, <2>2
<1> QED
  BY <1>1, <1>2 DEF IsPrefix

(***************************************************************************)
(* The tree.                                                               *)
(***************************************************************************)
\* Every entry has a directory around it.
Rooted  == \A p \in DOMAIN tree : p \in Seq(Names) /\ p # Root /\ IsDir(Front(p))
TreeInv == Rooted /\ CwdAlive

\* The first tree: files and directories in the root.
LEMMA InitTree == Init => TreeInv
<1> SUFFICES ASSUME Init PROVE TreeInv
  OBVIOUS
<1>1. cwd = Root
  BY DEF Init
<1>2. \A p \in DOMAIN tree : \E n \in Names : p = <<n>>
  BY DEF Init
<1>3. ASSUME NEW n \in Names
      PROVE  <<n>> \in Seq(Names) /\ <<n>> # Root /\ Front(<<n>>) = Root
  <2>1. <<n>> \in Seq(Names) /\ <<n>> # Root /\ Len(<<n>>) = 1
    BY DEF Root
  <2>2. SubSeq(<<n>>, 1, 0) = <<>>
    BY SubSeqEmpty
  <2> QED
    BY <2>1, <2>2 DEF Front, Root
<1>4. Rooted
  BY <1>2, <1>3 DEF Rooted, IsDir
<1> QED
  BY <1>1, <1>4 DEF TreeInv, CwdAlive, IsDir

\* Where a path starts.
LEMMA OriginType ==
    ASSUME TreeInv, NEW t
    PROVE  cwd \in Seq(Names) /\ Origin(t) \in Seq(Names)
<1>1. cwd \in Seq(Names) /\ Root \in Seq(Names)
  BY EmptySeq DEF TreeInv, Rooted, CwdAlive, IsDir, Root
<1>2. cwd # Root => Front(cwd) \in Seq(Names)
  BY <1>1, FrontAndLast DEF Root
<1> QED
  BY <1>1, <1>2 DEF Origin

\* f_unlink keeps the tree and the current directory.
LEMMA UnlinkTree ==
    ASSUME TreeInv, NEW t, NEW ok, Unlink(t, ok), UNCHANGED cwd
    PROVE  TreeInv'
<1>1. CASE UNCHANGED tree
  BY <1>1 DEF TreeInv, Rooted, CwdAlive, IsDir
<1>2. CASE CanUnlink(t) /\ tree' = Unlinked(t)
  <2> DEFINE q == Place(t)
  <2>1. /\ q \in DOMAIN tree
        /\ tree[q] \in DirKinds => q # cwd /\ Kids(q) = {}
    BY <1>2 DEF CanUnlink, Stat
  <2>2. /\ DOMAIN tree' = DOMAIN tree \ {q}
        /\ \A p \in DOMAIN tree' : tree'[p] = tree[p]
    BY <1>2 DEF Unlinked
  <2>3. q # Root
    BY <2>1 DEF TreeInv, Rooted
  <2>4. ASSUME NEW d, IsDir(d), d # q PROVE IsDir(d)'
    BY <2>2, <2>4 DEF IsDir
  <2>5. cwd # q
    BY <2>1, <2>3 DEF TreeInv, CwdAlive, IsDir
  <2>6. ASSUME NEW p \in DOMAIN tree PROVE Front(p) # q
    <3> SUFFICES ASSUME Front(p) = q PROVE FALSE
      OBVIOUS
    <3>1. p \in Seq(Names) /\ p # <<>> /\ IsDir(Front(p))
      BY DEF TreeInv, Rooted, Root
    <3>2. Last(p) \in Names /\ p = Append(q, Last(p))
      BY <3>1, FrontAndLast
    <3>3. Last(p) \in Kids(q)
      BY <3>2 DEF Kids
    <3>4. tree[q] \in DirKinds
      BY <3>1, <2>3 DEF IsDir
    <3> QED
      BY <3>3, <3>4, <2>1
  <2>7. Rooted'
    BY <2>2, <2>4, <2>6 DEF TreeInv, Rooted
  <2>8. CwdAlive'
    BY <2>4, <2>5 DEF TreeInv, CwdAlive
  <2> QED
    BY <2>7, <2>8 DEF TreeInv
<1> QED
  BY <1>1, <1>2 DEF Unlink

\* What is typed.
LEMMA TypedNames ==
    ASSUME NEW t \in Typed
    PROVE  /\ t.names = <<>> \/ \E n \in Names : t.names = <<n>>
           /\ t.names \in Seq(Names)
           /\ t = Text(t.lead, t.names)
<1>1. t \in [lead : Leads, names : {<<>>} \cup {<<n>> : n \in Names}]
  BY DEF Typed
<1>2. t = [lead |-> t.lead, names |-> t.names]
  BY <1>1
<1>3. t.names = <<>> \/ \E n \in Names : t.names = <<n>>
  BY <1>1
<1>4. <<>> \in Seq(Names) /\ \A n \in Names : <<n>> \in Seq(Names)
  BY EmptySeq
<1> QED
  BY <1>2, <1>3, <1>4 DEF Text

\* mkdir and mkfile put an entry into a directory.
LEMMA MakeTree ==
    ASSUME TreeInv, NEW t \in Typed, NEW k, Make(t, k)
    PROVE  TreeInv'
<1>1. UNCHANGED cwd
  BY DEF Make
<1>2. CASE UNCHANGED tree
  BY <1>1, <1>2 DEF TreeInv, Rooted, CwdAlive, IsDir
<1>3. CASE /\ CanCreate(t)
           /\ tree' = [p \in DOMAIN tree \cup {Place(t)} |->
                           IF p = Place(t) THEN k ELSE tree[p]]
  <2> DEFINE q == Place(t)
  <2>1. q \notin DOMAIN tree /\ IsDir(Front(q)) /\ t.names # <<>>
    BY <1>3 DEF CanCreate
  <2>2. PICK n \in Names : t.names = <<n>>
    BY <2>1, TypedNames
  <2>3. q \in Seq(Names) /\ q # Root
    <3>1. Origin(t) \in Seq(Names) /\ <<n>> \in Seq(Names) /\ <<n>> # <<>>
      BY OriginType
    <3>2. q = Origin(t) \o <<n>>
      BY <2>2 DEF Place
    <3> QED
      BY <3>1, <3>2, ConcatProperties, ConcatEqualIffEmpty DEF Root
  <2>4. /\ DOMAIN tree' = DOMAIN tree \cup {q}
        /\ \A p \in DOMAIN tree : tree'[p] = tree[p]
    BY <1>3, <2>1
  <2>5. ASSUME NEW d, IsDir(d) PROVE IsDir(d)'
    BY <2>4, <2>5 DEF IsDir
  <2>6. Rooted'
    BY <2>1, <2>3, <2>4, <2>5 DEF TreeInv, Rooted
  <2>7. CwdAlive'
    BY <1>1, <2>5 DEF TreeInv, CwdAlive
  <2> QED
    BY <2>6, <2>7 DEF TreeInv
<1> QED
  BY <1>2, <1>3 DEF Make

\* The tree and the current directory alone matter.
LEMMA TreeKept ==
    ASSUME TreeInv, UNCHANGED <<tree, cwd>>
    PROVE  TreeInv'
BY DEF TreeInv, Rooted, CwdAlive, IsDir

\* Every command and every step of rm -r keeps the tree.
LEMMA NextTree == TreeInv /\ [Next]_vars => TreeInv'
<1> SUFFICES ASSUME TreeInv, [Next]_vars PROVE TreeInv'
  OBVIOUS
<1>1. CASE UNCHANGED vars
  BY <1>1, TreeKept DEF vars
<1>2. ASSUME NEW t \in Typed, MakeDir(t) \/ MakeFile(t) PROVE TreeInv'
  BY <1>2, MakeTree DEF MakeDir, MakeFile
<1>3. ASSUME NEW t \in Typed, Cd(t) PROVE TreeInv'
  <2>1. UNCHANGED tree /\ (IsDir(cwd') \/ UNCHANGED cwd)
    BY <1>3 DEF Cd
  <2>2. IsDir(cwd')
    BY <2>1 DEF TreeInv, CwdAlive
  <2> QED
    BY <2>1, <2>2 DEF TreeInv, Rooted, CwdAlive, IsDir
<1>4. ASSUME NEW t \in Typed, RmFile(t) PROVE TreeInv'
  <2>1. UNCHANGED cwd /\ (UNCHANGED tree \/ \E ok \in BOOLEAN : Unlink(t, ok))
    BY <1>4 DEF RmFile
  <2> QED
    BY <2>1, TreeKept, UnlinkTree
<1>5. ASSUME NEW t \in Typed, RmRecursive(t) PROVE TreeInv'
  BY <1>5, TreeKept DEF RmRecursive
<1>6. CASE NotFound \/ OpenDir \/ ReadEntry \/ ReadFails
  BY <1>6, TreeKept DEF NotFound, OpenDir, ReadEntry, ReadFails
<1>7. CASE RemoveFile \/ RemoveDir
  <2>1. UNCHANGED cwd /\ \E ok \in BOOLEAN : Unlink(top.text, ok)
    BY <1>7 DEF RemoveFile, RemoveDir, UnlinkTop
  <2> QED
    BY <2>1, UnlinkTree
<1> QED
  BY <1>1, <1>2, <1>3, <1>4, <1>5, <1>6, <1>7 DEF Next, Commands, RemoveStep

\* Whatever is made and removed, and however the disk fails, the current
\* directory is a directory of the tree (f_unlink refuses to remove it, and
\* what is removed has nothing in it: rm_recursive, fshelpers.c:222).
THEOREM CurrentDirectory == Spec => []CwdAlive
<1>1. Init => TreeInv
  BY InitTree
<1>2. TreeInv /\ [Next]_vars => TreeInv'
  BY NextTree
<1>3. TreeInv => CwdAlive
  BY DEF TreeInv
<1> QED
  BY <1>1, <1>2, <1>3, PTL DEF Spec

(***************************************************************************)
(* The calls of rm_recursive.                                              *)
(***************************************************************************)
\* Every path in the stack is the operand with more behind it: join_path
\* keeps what was there, whatever it cuts off the name.
Below(o, t) == \E S : \E r \in Seq(S) : t = Text(o.lead, o.names \o r)
StackInv ==
    /\ \E F : stack \in Seq(F)
    /\ stack # <<>> => operand \in Typed
    /\ \A i \in 1 .. Len(stack) : Below(operand, stack[i].text)

\* At first nothing runs.
LEMMA InitStack == Init => StackInv
<1> SUFFICES ASSUME Init PROVE StackInv
  OBVIOUS
<1>1. stack = <<>> /\ stack \in Seq({}) /\ Len(stack) = 0
  BY EmptySeq DEF Init
<1> QED
  BY <1>1 DEF StackInv

\* A path with more behind it leads below.
LEMMA BelowOperand ==
    ASSUME TreeInv, operand \in Typed, NEW t, Below(operand, t)
    PROVE  Under(Place(operand), Place(t))
<1>1. PICK S : \E r \in Seq(S) : t = Text(operand.lead, operand.names \o r)
  BY DEF Below
<1>2. PICK r \in Seq(S) : t = Text(operand.lead, operand.names \o r)
  BY <1>1
<1> DEFINE U == Names \cup S
           o == Origin(operand)
<1>3. o \in Seq(U) /\ operand.names \in Seq(U) /\ r \in Seq(U)
  BY OriginType, TypedNames, SeqMonotonic
<1>4. t.lead = operand.lead /\ t.names = operand.names \o r
  BY <1>2 DEF Text
<1>5. Origin(t) = o
  BY <1>4 DEF Origin
<1> HIDE DEF U, o
<1>6. o \o (operand.names \o r) = (o \o operand.names) \o r
  <2>1. \A a, b, c \in Seq(U) : (a \o b) \o c = a \o (b \o c)
    BY ConcatAssociative
  <2> QED
    BY <1>3, <2>1
<1>7. o \o operand.names \in Seq(U)
  BY <1>3, ConcatProperties
<1>8. IsPrefix(o \o operand.names, (o \o operand.names) \o r)
  BY <1>3, <1>7, PrefixOfConcat
<1> QED
  BY <1>4, <1>5, <1>6, <1>8 DEF Under, Place, o

\* join_path keeps what was there, whatever it cuts off the name.
LEMMA JoinBelow ==
    ASSUME operand \in Typed, NEW t, Below(operand, t), NEW n
    PROVE  Below(operand, JoinPath(t, n))
<1>1. PICK S : \E r \in Seq(S) : t = Text(operand.lead, operand.names \o r)
  BY DEF Below
<1>2. PICK r \in Seq(S) : t = Text(operand.lead, operand.names \o r)
  BY <1>1
<1>3. ASSUME NEW x
      PROVE  Below(operand, Text(t.lead, Append(t.names, x)))
  <2> DEFINE U == Names \cup S \cup {x}
  <2>1. operand.names \in Seq(U) /\ r \in Seq(U) /\ <<x>> \in Seq(U)
    BY TypedNames, SeqMonotonic
  <2>2. t.lead = operand.lead /\ t.names = operand.names \o r
    BY <1>2 DEF Text
  <2> HIDE DEF U
  <2>3. Append(t.names, x) = (operand.names \o r) \o <<x>>
    <3>1. operand.names \o r \in Seq(U) /\ x \in U
      BY <2>1, ConcatProperties DEF U
    <3> QED
      BY <2>2, <3>1, AppendIsConcat
  <2>4. Append(t.names, x) = operand.names \o (r \o <<x>>)
    <3>1. \A a, b, c \in Seq(U) : (a \o b) \o c = a \o (b \o c)
      BY ConcatAssociative
    <3> QED
      BY <2>1, <2>3, <3>1
  <2>5. r \o <<x>> \in Seq(U)
    BY <2>1, ConcatProperties
  <2> QED
    BY <2>2, <2>4, <2>5 DEF Below
<1> QED
  BY <1>3 DEF JoinPath, Joined

\* What has to be known of the next stack.
LEMMA StackKept ==
    ASSUME StackInv, stack # <<>>, NEW F, stack' \in Seq(F),
           stack' # <<>> => stack'[1].text = operand,
           \A i \in 1 .. Len(stack') : Below(operand, stack'[i].text)
    PROVE  StackInv'
<1>1. stack' # <<>> => operand' = operand
  BY DEF operand
<1>2. stack' # <<>> => operand' \in Typed
  BY <1>1 DEF StackInv
<1>3. \A i \in 1 .. Len(stack') : Below(operand', stack'[i].text)
  <2>1. stack' = <<>> => Len(stack') = 0
    BY EmptySeq
  <2> QED
    BY <1>1, <2>1
<1>4. \E G : stack' \in Seq(G)
  OBVIOUS
<1> QED
  BY <1>2, <1>3, <1>4 DEF StackInv

\* The stack: its top and what is under it.
LEMMA StackTop ==
    ASSUME StackInv, stack # <<>>
    PROVE  /\ Len(stack) \in Nat \ {0}
           /\ \E F : stack \in Seq(F) /\ Front(stack) \in Seq(F)
           /\ Len(Front(stack)) = Len(stack) - 1
           /\ \A i \in 1 .. Len(stack) - 1 : Front(stack)[i] = stack[i]
           /\ operand \in Typed /\ Below(operand, top.text)
<1>1. PICK F : stack \in Seq(F)
  BY DEF StackInv
<1>2. Front(stack) \in Seq(F) /\ Last(stack) \in F /\ stack = Append(Front(stack), Last(stack))
  BY <1>1, FrontAndLast
<1>3. Len(stack) \in Nat \ {0}
  BY <1>1, EmptySeq
<1>4. /\ Len(Front(stack)) \in Nat
      /\ Len(stack) = Len(Front(stack)) + 1
      /\ \A i \in 1 .. Len(Front(stack)) : stack[i] = Front(stack)[i]
  <2> DEFINE u == Front(stack)
             e == Last(stack)
  <2>1. /\ Len(Append(u, e)) = Len(u) + 1
        /\ \A i \in 1 .. Len(u) : Append(u, e)[i] = u[i]
    BY <1>2, AppendProperties
  <2> QED
    BY <1>2, <2>1, LenProperties
<1>5. Len(stack) \in 1 .. Len(stack)
  BY <1>3
<1> QED
  BY <1>1, <1>2, <1>3, <1>4, <1>5 DEF StackInv, top

\* The calls return, or go on without touching the stack.
LEMMA ReturnStack ==
    ASSUME StackInv, stack # <<>>, ReturnOk \/ ReturnError \/ UNCHANGED stack
    PROVE  StackInv'
<1>1. PICK F : stack \in Seq(F) /\ Front(stack) \in Seq(F)
  BY StackTop
<1>2. CASE UNCHANGED stack
  BY <1>2 DEF StackInv, operand
<1>3. CASE ReturnError
  <2>1. stack' = <<>> /\ stack' \in Seq(F) /\ Len(stack') = 0
    BY <1>3, EmptySeq DEF ReturnError
  <2> QED
    BY <2>1, StackKept
<1>4. CASE ReturnOk
  <2>1. stack' = Front(stack)
    BY <1>4 DEF ReturnOk
  <2>2. /\ Len(stack) \in Nat \ {0}
        /\ Len(stack') = Len(stack) - 1
        /\ \A i \in 1 .. Len(stack) - 1 : stack'[i] = stack[i]
    BY <2>1, StackTop
  <2>3. stack' # <<>> => 1 \in 1 .. Len(stack) - 1
    BY <1>1, <2>1, <2>2, EmptySeq
  <2>4. stack' # <<>> => stack'[1].text = operand
    BY <2>2, <2>3 DEF operand
  <2>5. \A i \in 1 .. Len(stack') : Below(operand, stack'[i].text)
    BY <2>2 DEF StackInv
  <2> QED
    BY <1>1, <2>1, <2>4, <2>5, StackKept
<1> QED
  BY <1>2, <1>3, <1>4

\* The frame on top is replaced by one for the same path.
LEMMA ReplaceTop ==
    ASSUME StackInv, stack # <<>>, NEW f, f.text = top.text, NEW s,
           s = Append(Front(stack), f)
    PROVE  /\ \E F : s \in Seq(F)
           /\ Len(s) = Len(stack) /\ Len(s) \in Nat \ {0}
           /\ \A i \in 1 .. Len(s) : Below(operand, s[i].text)
           /\ s[1].text = operand
<1>1. PICK F : stack \in Seq(F) /\ Front(stack) \in Seq(F)
  BY StackTop
<1>2. /\ Len(stack) \in Nat \ {0}
      /\ Len(Front(stack)) = Len(stack) - 1
      /\ \A i \in 1 .. Len(stack) - 1 : Front(stack)[i] = stack[i]
      /\ Below(operand, top.text)
  BY StackTop
<1>3. Front(stack) \in Seq(F \cup {f})
  BY <1>1, SeqMonotonic
<1>4. /\ s \in Seq(F \cup {f})
      /\ Len(s) = Len(Front(stack)) + 1
      /\ \A i \in 1 .. Len(Front(stack)) : s[i] = Front(stack)[i]
      /\ s[Len(Front(stack)) + 1] = f
  BY <1>3, AppendProperties
<1>5. /\ Len(s) = Len(stack) /\ s[Len(stack)] = f
      /\ \A i \in 1 .. Len(stack) - 1 : s[i] = stack[i]
  BY <1>2, <1>4
<1>6. ASSUME NEW i \in 1 .. Len(s) PROVE s[i].text = stack[i].text
  <2>1. CASE i = Len(stack)
    BY <2>1, <1>5 DEF top
  <2>2. CASE i # Len(stack)
    BY <2>2, <1>2, <1>5
  <2> QED
    BY <2>1, <2>2
<1>7. s[1].text = operand
  BY <1>2, <1>5, <1>6 DEF operand
<1>8. \A i \in 1 .. Len(s) : Below(operand, s[i].text)
  BY <1>5, <1>6 DEF StackInv
<1> QED
  BY <1>2, <1>4, <1>5, <1>7, <1>8

\* An entry is read, and rm_recursive called for it.
LEMMA CallStack ==
    ASSUME StackInv, stack # <<>>, OpenDir \/ ReadEntry
    PROVE  StackInv'
<1>1. CASE UNCHANGED stack
  BY <1>1, ReturnStack
<1>2. CASE OpenDir
  <2> DEFINE f == Frame(top.text, "loop", Kids(Place(top.text)))
  <2>1. stack' = Append(Front(stack), f) /\ f.text = top.text
    BY <1>2 DEF OpenDir, Frame
  <2> HIDE DEF f
  <2>2. /\ \E F : stack' \in Seq(F)
        /\ \A i \in 1 .. Len(stack') : Below(operand, stack'[i].text)
        /\ stack'[1].text = operand
    BY <2>1, ReplaceTop
  <2> QED
    BY <2>2, StackKept
<1>3. CASE ReadEntry /\ stack' # stack
  <2>1. PICK n : stack' = Append(Append(Front(stack), Frame(top.text, "loop", Left \ {n})),
                                 Frame(JoinPath(top.text, n), "stat", {}))
    BY <1>3 DEF ReadEntry
  <2> DEFINE f == Frame(top.text, "loop", Left \ {n})
             e == Frame(JoinPath(top.text, n), "stat", {})
             s == Append(Front(stack), f)
  <2>2. f.text = top.text /\ e.text = JoinPath(top.text, n)
    BY DEF Frame
  <2>3. stack' = Append(s, e)
    BY <2>1
  <2> HIDE DEF f, e
  <2>4. /\ \E F : s \in Seq(F)
        /\ Len(s) \in Nat \ {0}
        /\ \A i \in 1 .. Len(s) : Below(operand, s[i].text)
        /\ s[1].text = operand
    BY <2>2, ReplaceTop
  <2> HIDE DEF s
  <2>5. PICK F : s \in Seq(F)
    BY <2>4
  <2>6. s \in Seq(F \cup {e})
    BY <2>5, SeqMonotonic
  <2>7. /\ stack' \in Seq(F \cup {e})
        /\ Len(stack') = Len(s) + 1
        /\ \A i \in 1 .. Len(s) : stack'[i] = s[i]
        /\ stack'[Len(s) + 1] = e
    BY <2>3, <2>6, AppendProperties
  <2>8. Below(operand, e.text)
    BY <2>2, StackTop, JoinBelow
  <2>9. \A i \in 1 .. Len(stack') : Below(operand, stack'[i].text)
    BY <2>4, <2>7, <2>8
  <2>10. stack'[1].text = operand
    BY <2>4, <2>7
  <2> QED
    BY <2>7, <2>9, <2>10, StackKept
<1> QED
  BY <1>1, <1>2, <1>3

\* rm -r is typed.
LEMMA StartStack ==
    ASSUME NEW t \in Typed, RmRecursive(t)
    PROVE  StackInv'
<1> DEFINE f == Frame(t, "stat", {})
<1>1. stack' = <<f>> /\ f.text = t
  BY DEF RmRecursive, Frame
<1>2. stack' \in Seq({f}) /\ Len(stack') = 1 /\ stack'[1] = f
  BY <1>1
<1>3. operand' = t
  BY <1>1, <1>2 DEF operand
<1>4. Below(t, t)
  <2>1. t = Text(t.lead, t.names) /\ t.names \in Seq(Names) /\ <<>> \in Seq(Names)
    BY TypedNames, EmptySeq
  <2>2. t.names \o <<>> = t.names
    BY <2>1, ConcatEmptySeq
  <2> QED
    BY <2>1, <2>2 DEF Below
<1>5. \E F : stack' \in Seq(F)
  BY <1>2
<1>6. \A i \in 1 .. Len(stack') : Below(operand', stack'[i].text)
  BY <1>1, <1>2, <1>3, <1>4
<1> QED
  BY <1>3, <1>5, <1>6 DEF StackInv

\* Every step keeps every path on the stack below the operand.
LEMMA NextStack == StackInv /\ [Next]_vars => StackInv'
<1> SUFFICES ASSUME StackInv, [Next]_vars PROVE StackInv'
  OBVIOUS
<1>1. CASE UNCHANGED stack
  BY <1>1 DEF StackInv, operand
<1>2. ASSUME NEW t \in Typed, MakeDir(t) \/ MakeFile(t) \/ Cd(t) \/ RmFile(t)
      PROVE  UNCHANGED stack
  BY <1>2 DEF MakeDir, MakeFile, Make, Cd, RmFile
<1>3. ASSUME NEW t \in Typed, RmRecursive(t) PROVE StackInv'
  BY <1>3, StartStack
<1>4. CASE RemoveStep
  <2>1. stack # <<>>
    BY <1>4 DEF RemoveStep, NotFound, RemoveFile, OpenDir, ReadEntry, ReadFails,
                RemoveDir, Running
  <2>2. CASE OpenDir \/ ReadEntry
    BY <2>1, <2>2, CallStack
  <2>3. CASE NotFound \/ RemoveFile \/ ReadFails \/ RemoveDir
    <3>1. ReturnOk \/ ReturnError
      BY <2>3 DEF NotFound, RemoveFile, ReadFails, RemoveDir, UnlinkTop
    <3> QED
      BY <2>1, <3>1, ReturnStack
  <2> QED
    BY <1>4, <2>2, <2>3 DEF RemoveStep
<1> QED
  BY <1>1, <1>2, <1>3, <1>4 DEF Next, Commands, vars

\* A call removes nothing but what its path names.
LEMMA UnlinkOne ==
    ASSUME NEW t, NEW ok, Unlink(t, ok), NEW p \in DOMAIN tree \ DOMAIN tree'
    PROVE  p = Place(t)
BY DEF Unlink, Unlinked

\* What disappears while rm -r runs was below its operand, although every
\* call looks its path up again from its first character and join_path cuts
\* what does not fit (rm_recursive, fshelpers.c:201).
THEOREM SubtreeOnly == Spec => OnlySubtree
<1> DEFINE Inv  == TreeInv /\ StackInv
           Step == ~Prompt => \A p \in DOMAIN tree \ DOMAIN tree' : Under(Place(operand), p)
<1>1. Init => Inv
  BY InitTree, InitStack
<1>2. Inv /\ [Next]_vars => Inv'
  BY NextTree, NextStack
<1>3. Inv /\ [Next]_vars => [Step]_vars
  <2> SUFFICES ASSUME Inv, Next, stack # <<>>,
                      NEW p \in DOMAIN tree \ DOMAIN tree'
               PROVE  Under(Place(operand), p)
    BY DEF Prompt
  <2>1. RemoveStep
    BY DEF Next, Commands, MakeDir, MakeFile, Make, Cd, RmFile, RmRecursive, Prompt
  <2>2. PICK ok : Unlink(top.text, ok)
    BY <2>1 DEF RemoveStep, NotFound, RemoveFile, OpenDir, ReadEntry, ReadFails,
                RemoveDir, UnlinkTop
  <2>3. p = Place(top.text)
    BY <2>2, UnlinkOne
  <2>4. operand \in Typed /\ Below(operand, top.text)
    BY StackTop
  <2> QED
    BY <2>3, <2>4, BelowOperand
<1>4. Spec => []Inv
  BY <1>1, <1>2, PTL DEF Spec
<1> QED
  BY <1>2, <1>3, <1>4, PTL DEF Spec, OnlySubtree

(***************************************************************************)
(* What rm says.                                                           *)
(***************************************************************************)
\* A prefix of a sequence leaves a rest.
LEMMA PrefixRest ==
    ASSUME NEW S, NEW q \in Seq(S), NEW p \in Seq(S), IsPrefix(q, p)
    PROVE  \E e \in Seq(S) : p = q \o e
<1> DEFINE k == Len(q)
           n == Len(p)
           e == SubSeq(p, k + 1, n)
<1>1. k \in Nat /\ n \in Nat /\ k <= n /\ SubSeq(q, 1, k) = SubSeq(p, 1, k)
  BY LenProperties DEF IsPrefix
<1>2. q = SubSeq(p, 1, k) /\ SubSeq(p, 1, n) = p
  BY <1>1, SubSeqFull
<1>3. e \in Seq(S)
  <2>1. \A i \in 1 .. n : p[i] \in S
    BY ElementOfSeq
  <2>2. k + 1 \in Int /\ n \in Int /\ \A i \in k + 1 .. n : p[i] \in S
    BY <1>1, <2>1
  <2> HIDE DEF k, n
  <2> QED
    BY <2>2, SubSeqProperties
<1>4. SubSeq(p, 1, k) \o e = SubSeq(p, 1, n)
  <2>1. 1 \in 1 .. n + 1 /\ k \in 1 - 1 .. n /\ n \in k .. n
    BY <1>1
  <2> QED
    BY <2>1, ConcatAdjacentSubSeq
<1> HIDE DEF e
<1> QED
  BY <1>2, <1>3, <1>4

\* A sequence that is not empty begins with its first element.
LEMMA HeadRest ==
    ASSUME NEW S, NEW e \in Seq(S), e # <<>>
    PROVE  \E n \in S, r \in Seq(S) : e = <<n>> \o r
<1>1. Len(e) \in Nat /\ Len(e) \in Nat \ {0}
  BY EmptySeq
<1>2. 1 \in 1 .. Len(e) /\ Len(e) \in 1 .. Len(e)
  BY <1>1
<1>3. e = <<e[1]>> \o SubSeq(e, 2, Len(e))
  <2>1. SubSeq(e, 1, Len(e)) = <<e[1]>> \o SubSeq(e, 1 + 1, Len(e))
    BY <1>2, SubSeqRecursiveFirst
  <2> QED
    BY <2>1, SubSeqFull
<1>4. e[1] \in S /\ SubSeq(e, 2, Len(e)) \in Seq(S)
  <2>1. Tail(e) \in Seq(S) /\ Tail(e) = SubSeq(e, 2, Len(e))
    BY HeadTailProperties, TailIsSubSeq
  <2> QED
    BY <1>2, <2>1, ElementOfSeq
<1> QED
  BY <1>3, <1>4

\* A sequence has one front.
LEMMA FrontIsUnique ==
    ASSUME NEW S, NEW s \in Seq(S), NEW n \in S, NEW x \in Seq(S), x # <<>>,
           x = Append(s, n)
    PROVE  Front(x) = s
<1>1. PICK u \in Seq(S), m \in S : u = Front(x) /\ x = Append(u, m)
  BY FrontAndLast
<1>2. Len(x) = Len(s) + 1 /\ \A i \in 1 .. Len(s) : x[i] = s[i]
  BY AppendProperties
<1>3. Len(x) = Len(u) + 1 /\ \A i \in 1 .. Len(u) : x[i] = u[i]
  BY <1>1, AppendProperties
<1>4. Len(s) \in Nat /\ Len(u) \in Nat
  BY LenProperties
<1>5. Len(s) = Len(u) /\ \A i \in 1 .. Len(u) : u[i] = s[i]
  BY <1>2, <1>3, <1>4
<1>6. u = s
  BY <1>5, SeqEqual
<1> QED
  BY <1>1, <1>6

\* The front of a concatenation ends in the front of its second part.
LEMMA FrontOfConcat ==
    ASSUME NEW S, NEW d \in Seq(S), NEW e \in Seq(S), e # <<>>
    PROVE  Front(e) \in Seq(S) /\ Front(d \o e) = d \o Front(e)
<1>1. PICK r \in Seq(S), n \in S : e = Append(r, n)
  BY SequenceEmptyOrAppend
<1>2. d \o r \in Seq(S) /\ <<n>> \in Seq(S)
  BY ConcatProperties
<1>3. e = r \o <<n>> /\ Append(d \o r, n) = (d \o r) \o <<n>>
  BY <1>1, <1>2, AppendIsConcat
<1>4. (d \o r) \o <<n>> = d \o (r \o <<n>>)
  BY <1>2, ConcatAssociative
<1>5. d \o e = Append(d \o r, n)
  BY <1>3, <1>4
<1>6. ASSUME NEW s \in Seq(S), NEW x \in Seq(S), x # <<>>, x = Append(s, n)
      PROVE  Front(x) = s
  BY <1>6, FrontIsUnique
<1>7. e # <<>> /\ d \o e \in Seq(S) /\ d \o e # <<>>
  BY ConcatProperties, ConcatEqualIffEmpty
<1> QED
  BY <1>1, <1>2, <1>5, <1>6, <1>7

\* What an entry lies in is a directory, all the way up.
Nested == \A p \in DOMAIN tree : \A d, e \in Seq(Names) :
              e # <<>> /\ p = d \o e => IsDir(d)

\* Nothing lies in an entry that f_unlink can remove.
LEMMA NothingBelow ==
    ASSUME TreeInv, Nested, NEW t, CanUnlink(t), NEW p \in DOMAIN tree,
           NEW e \in Seq(Names), p = Place(t) \o e
    PROVE  e = <<>>
<1> DEFINE q == Place(t)
<1>1. /\ q \in DOMAIN tree /\ q \in Seq(Names) /\ q # Root
      /\ tree[q] \in DirKinds => Kids(q) = {}
  BY DEF CanUnlink, Stat, TreeInv, Rooted
<1>2. SUFFICES ASSUME e # <<>> PROVE FALSE
  OBVIOUS
<1> HIDE DEF q
<1>3. IsDir(q)
  BY <1>1, <1>2 DEF Nested, q
<1>4. PICK n \in Names, r \in Seq(Names) : e = <<n>> \o r
  BY <1>2, HeadRest
<1>5. /\ <<n>> \in Seq(Names) /\ q \o <<n>> \in Seq(Names)
      /\ Append(q, n) = q \o <<n>> /\ Append(q, n) # Root
  <2>1. <<n>> \in Seq(Names)
    OBVIOUS
  <2> QED
    BY <1>1, <2>1, ConcatProperties, AppendIsConcat, AppendProperties DEF Root
<1>6. p = (q \o <<n>>) \o r
  BY <1>1, <1>4, <1>5, ConcatAssociative DEF q
<1>7. Append(q, n) \in DOMAIN tree
  <2>1. CASE r = <<>>
    BY <1>5, <1>6, <2>1, ConcatEmptySeq
  <2>2. CASE r # <<>>
    <3>1. IsDir(q \o <<n>>)
      BY <1>5, <1>6, <2>2 DEF Nested
    <3> QED
      BY <1>5, <3>1 DEF IsDir
  <2> QED
    BY <2>1, <2>2
<1>8. n \in Kids(q) /\ tree[q] \in DirKinds
  BY <1>1, <1>3, <1>7 DEF Kids, IsDir
<1> QED
  BY <1>1, <1>8

\* f_unlink keeps what is above every entry, and what it removed is gone.
LEMMA UnlinkNested ==
    ASSUME TreeInv, Nested, NEW t, NEW ok, Unlink(t, ok)
    PROVE  /\ Nested'
           /\ ok => \A p \in DOMAIN tree' : ~Under(Place(t), p)
<1>1. CASE UNCHANGED tree /\ ~ok
  BY <1>1 DEF Nested, IsDir
<1>2. CASE CanUnlink(t) /\ tree' = Unlinked(t)
  <2> DEFINE q == Place(t)
  <2>1. /\ DOMAIN tree' = DOMAIN tree \ {q}
        /\ \A p \in DOMAIN tree' : tree'[p] = tree[p]
    BY <1>2 DEF Unlinked
  <2>2. q \in Seq(Names)
    BY <1>2 DEF CanUnlink, Stat, TreeInv, Rooted
  <2>3. ASSUME NEW p \in DOMAIN tree', NEW d \in Seq(Names),
               NEW e \in Seq(Names), e # <<>>, p = d \o e
        PROVE  IsDir(d)'
    <3>1. IsDir(d)
      BY <2>1, <2>3 DEF Nested
    <3>2. d # q
      BY <1>2, <2>1, <2>3, NothingBelow
    <3> QED
      BY <2>1, <3>1, <3>2 DEF IsDir
  <2>4. ASSUME NEW p \in DOMAIN tree', Under(q, p) PROVE FALSE
    <3>1. p \in Seq(Names) /\ p \in DOMAIN tree /\ p # q
      BY <2>1 DEF TreeInv, Rooted
    <3>2. PICK e \in Seq(Names) : p = q \o e
      BY <2>2, <2>4, <3>1, PrefixRest DEF Under
    <3>3. e = <<>>
      BY <1>2, <3>1, <3>2, NothingBelow
    <3> QED
      BY <2>2, <3>1, <3>2, <3>3, ConcatEmptySeq
  <2>5. Nested'
    BY <2>3 DEF Nested
  <2> QED
    BY <2>4, <2>5
<1> QED
  BY <1>1, <1>2 DEF Unlink

\* mkdir and mkfile put an entry into a directory, and so below whatever
\* that lies in.
LEMMA MakeNested ==
    ASSUME TreeInv, TreeInv', Nested, NEW t \in Typed, NEW k, Make(t, k)
    PROVE  Nested'
<1>1. CASE UNCHANGED tree
  BY <1>1 DEF Nested, IsDir
<1>2. CASE /\ CanCreate(t)
           /\ tree' = [p \in DOMAIN tree \cup {Place(t)} |->
                           IF p = Place(t) THEN k ELSE tree[p]]
  <2> DEFINE q == Place(t)
  <2>1. q \notin DOMAIN tree /\ IsDir(Front(q))
    BY <1>2 DEF CanCreate
  <2>2. /\ DOMAIN tree' = DOMAIN tree \cup {q}
        /\ \A p \in DOMAIN tree : tree'[p] = tree[p]
    BY <1>2, <2>1
  <2>3. q \in Seq(Names) /\ q # <<>>
    BY <2>2 DEF TreeInv, Rooted, Root
  <2>4. ASSUME NEW d, IsDir(d) PROVE IsDir(d)'
    BY <2>2, <2>4 DEF IsDir
  <2>5. ASSUME NEW d \in Seq(Names), NEW e \in Seq(Names), e # <<>>,
               q = d \o e
        PROVE  IsDir(d)
    <3>1. Front(e) \in Seq(Names) /\ Front(q) = d \o Front(e)
      BY <2>5, FrontOfConcat
    <3>5. CASE Front(e) = <<>>
      BY <2>1, <3>1, <3>5, ConcatEmptySeq
    <3>6. CASE Front(e) # <<>>
      <4>1. Front(q) # Root
        BY <3>1, <3>6, ConcatEqualIffEmpty DEF Root
      <4>2. Front(q) \in DOMAIN tree
        BY <2>1, <4>1 DEF IsDir
      <4> QED
        BY <3>1, <3>6, <4>2 DEF Nested
    <3> QED
      BY <3>5, <3>6
  <2>6. ASSUME NEW p \in DOMAIN tree', NEW d \in Seq(Names),
               NEW e \in Seq(Names), e # <<>>, p = d \o e
        PROVE  IsDir(d)
    BY <2>2, <2>5, <2>6 DEF Nested
  <2> QED
    BY <2>4, <2>6 DEF Nested
<1> QED
  BY <1>1, <1>2 DEF Make

\* What rm has said is true, and while rm -r runs it has said nothing.
ToldInv ==
    /\ Nested
    /\ RemovedMeansGone
    /\ stack # <<>> => result.cmd = "none"

\* A command that says nothing.
LEMMA Silent ==
    ASSUME Nested', result' = NoResult PROVE ToldInv'
BY DEF ToldInv, RemovedMeansGone, NoResult, Result

\* A command that failed promises nothing.
LEMMA Refused ==
    ASSUME Nested', NEW c, NEW t, result' = Result(c, t, FALSE), stack' = <<>>
    PROVE  ToldInv'
BY DEF ToldInv, RemovedMeansGone, Result

\* A removal that succeeded is true.
LEMMA Removed ==
    ASSUME TreeInv, Nested, NEW t, NEW c, Unlink(t, TRUE), UNCHANGED cwd,
           result' = Result(c, t, TRUE), stack' = <<>>
    PROVE  ToldInv'
<1>1. Nested' /\ \A p \in DOMAIN tree' : ~Under(Place(t), p)
  BY UnlinkNested
<1>2. Place(t)' = Place(t) /\ result'.text = t
  BY DEF Place, Origin, Result
<1>3. Place(result.text)' = Place(t)
  BY <1>2 DEF Place, Origin
<1> QED
  BY <1>1, <1>3 DEF ToldInv, RemovedMeansGone

\* Where the tree stays, so does what is above its entries.
LEMMA NestedKept == ASSUME Nested, UNCHANGED tree PROVE Nested'
BY DEF Nested, IsDir

\* The removal at the end of a call of rm_recursive.
LEMMA UnlinkTopTold ==
    ASSUME TreeInv, StackInv, ToldInv, stack # <<>>, UnlinkTop, UNCHANGED cwd
    PROVE  ToldInv'
<1>1. PICK ok \in BOOLEAN :
          Unlink(top.text, ok) /\ IF ok THEN ReturnOk ELSE ReturnError
  BY DEF UnlinkTop
<1>2. Nested'
  BY <1>1, UnlinkNested DEF ToldInv
<1>3. CASE ~ok
  <2>1. stack' = <<>> /\ result' = Result("rm_r", operand, FALSE)
    BY <1>1, <1>3 DEF ReturnError
  <2> QED
    BY <1>2, <2>1, Refused
<1>4. CASE ok /\ Len(stack) = 1
  <2>1. stack' = Front(stack) /\ result' = Result("rm_r", operand, TRUE)
    BY <1>1, <1>4 DEF ReturnOk
  <2>2. stack' = <<>>
    <3>1. PICK F : Front(stack) \in Seq(F)
      BY StackTop
    <3>2. Len(Front(stack)) = 0
      BY <1>4, StackTop
    <3> QED
      BY <2>1, <3>1, <3>2, EmptySeq
  <2>3. top.text = operand
    BY <1>4 DEF top, operand
  <2>4. Unlink(operand, TRUE)
    BY <1>1, <1>4, <2>3
  <2> QED
    BY <2>1, <2>2, <2>4, Removed DEF ToldInv
<1>5. CASE ok /\ Len(stack) # 1
  <2>1. result' = NoResult
    BY <1>1, <1>5 DEF ReturnOk
  <2> QED
    BY <1>2, <2>1, Silent
<1> QED
  BY <1>3, <1>4, <1>5

\* Every step keeps it.
LEMMA NextTold ==
    ASSUME TreeInv, TreeInv', StackInv, ToldInv, [Next]_vars
    PROVE  ToldInv'
<1>1. CASE UNCHANGED <<tree, cwd, result>> /\ (stack' # <<>> => stack # <<>>)
  <2>1. Nested' /\ Place(result.text)' = Place(result.text)
    BY <1>1, NestedKept DEF ToldInv, Place, Origin
  <2> QED
    BY <1>1, <2>1 DEF ToldInv, RemovedMeansGone
<1>2. ASSUME NEW t \in Typed, MakeDir(t) \/ MakeFile(t) PROVE ToldInv'
  <2>1. result' = NoResult
    BY <1>2 DEF MakeDir, MakeFile, Make
  <2>2. Nested'
    BY <1>2, MakeNested DEF MakeDir, MakeFile, ToldInv
  <2> QED
    BY <2>1, <2>2, Silent
<1>3. ASSUME NEW t \in Typed, Cd(t) \/ RmRecursive(t) PROVE ToldInv'
  <2>1. result' = NoResult /\ UNCHANGED tree
    BY <1>3 DEF Cd, RmRecursive
  <2> QED
    BY <2>1, NestedKept, Silent DEF ToldInv
<1>4. ASSUME NEW t \in Typed, RmFile(t) PROVE ToldInv'
  <2>1. stack' = <<>> /\ UNCHANGED cwd
    BY <1>4 DEF RmFile, Prompt
  <2>2. CASE result' = Result("rm", t, FALSE) /\ UNCHANGED tree
    BY <2>1, <2>2, NestedKept, Refused DEF ToldInv
  <2>3. ASSUME NEW ok \in BOOLEAN, Unlink(t, ok), result' = Result("rm", t, ok)
        PROVE  ToldInv'
    <3>1. CASE ok
      <4>1. Unlink(t, TRUE) /\ result' = Result("rm", t, TRUE)
        BY <2>3, <3>1
      <4> QED
        BY <2>1, <4>1, Removed DEF ToldInv
    <3>2. CASE ~ok
      <4>1. result' = Result("rm", t, FALSE) /\ Nested'
        BY <2>3, <3>2, UnlinkNested DEF ToldInv
      <4> QED
        BY <2>1, <4>1, Refused
    <3> QED
      BY <3>1, <3>2
  <2> QED
    BY <1>4, <2>2, <2>3 DEF RmFile
<1>5. CASE NotFound \/ ReadFails
  <2>1. /\ stack' = <<>> /\ result' = Result("rm_r", operand, FALSE)
        /\ UNCHANGED tree
    BY <1>5 DEF NotFound, ReadFails, ReturnError
  <2> QED
    BY <2>1, NestedKept, Refused DEF ToldInv
<1>6. CASE OpenDir \/ ReadEntry
  BY <1>1, <1>6 DEF OpenDir, ReadEntry, Running
<1>7. CASE RemoveFile \/ RemoveDir
  BY <1>7, UnlinkTopTold DEF RemoveFile, RemoveDir, Running
<1>8. CASE UNCHANGED vars
  BY <1>1, <1>8 DEF vars
<1> QED
  BY <1>2, <1>3, <1>4, <1>5, <1>6, <1>7, <1>8
  DEF Next, Commands, RemoveStep

\* At first rm has said nothing.
LEMMA InitTold == Init => ToldInv
<1> SUFFICES ASSUME Init PROVE ToldInv
  OBVIOUS
<1>1. result = NoResult /\ stack = <<>> /\ DOMAIN tree \subseteq {<<n>> : n \in Names}
  BY DEF Init
<1>2. Nested
  <2> SUFFICES ASSUME NEW p \in DOMAIN tree, NEW d \in Seq(Names),
                      NEW e \in Seq(Names), e # <<>>, p = d \o e
               PROVE  d = Root
    BY DEF Nested, IsDir
  <2>1. Len(p) = 1
    <3>1. PICK n \in Names : p = <<n>>
      BY <1>1
    <3> QED
      BY <3>1
  <2>2. /\ Len(d) \in Nat /\ Len(e) \in Nat \ {0}
        /\ Len(p) = Len(d) + Len(e)
    BY LenProperties, EmptySeq, ConcatProperties
  <2>3. Len(d) = 0
    BY <2>1, <2>2
  <2> QED
    BY <2>3, EmptySeq DEF Root
<1>3. result.cmd = "none"
  BY <1>1 DEF NoResult, Result
<1> QED
  BY <1>1, <1>2, <1>3 DEF ToldInv, RemovedMeansGone

\* "Directory removed." and "File removed." are true whatever the disk does:
\* nothing is left below the operand, in any tree (kernel.c:686 and 698).
THEOREM SaidAndDone == Spec => []RemovedMeansGone
<1> DEFINE Inv == TreeInv /\ StackInv /\ ToldInv
<1>1. Init => Inv
  BY InitTree, InitStack, InitTold
<1>2. Inv /\ [Next]_vars => Inv'
  BY NextTree, NextStack, NextTold
<1>3. Inv => RemovedMeansGone
  BY DEF ToldInv
<1> QED
  BY <1>1, <1>2, <1>3, PTL DEF Spec

(***************************************************************************)
(* The width of a path, summed up name by name.  Induction over the places *)
(* of a table: a set that has 0 and, with every i - 1, i.                  *)
(***************************************************************************)
LEMMA LeastNat ==
    ASSUME NEW T \in SUBSET Nat, T # {}
    PROVE  \E n \in T : \A m \in T : n <= m
<1> DEFINE R == OpToRel(<, Nat)
<1>1. IsWellFoundedOn(R, Nat)
  BY NatLessThanWellFounded
<1>2. \A x, y \in Nat : x < y => <<x, y>> \in R
  BY DEF OpToRel
<1> HIDE DEF R
<1>3. PICK n \in T : \A m \in T : ~(<<m, n>> \in R)
  BY <1>1, WFMin
<1>4. ASSUME NEW m \in T PROVE n <= m
  <2>1. m \in Nat /\ n \in Nat /\ ~(<<m, n>> \in R)
    BY <1>3
  <2>2. ~(m < n)
    BY <1>2, <2>1
  <2> QED
    BY <2>1, <2>2
<1> QED
  BY <1>4

LEMMA Induction ==
    ASSUME NEW n \in Nat, NEW S, 0 \in S, \A i \in 1 .. n : i - 1 \in S => i \in S
    PROVE  0 .. n \subseteq S
<1> DEFINE T == {i \in 0 .. n : i \notin S}
<1> SUFFICES ASSUME T # {} PROVE FALSE
  OBVIOUS
<1>1. T \in SUBSET Nat
  OBVIOUS
<1> HIDE DEF T
<1>2. PICK i \in T : \A j \in T : i <= j
  BY <1>1, LeastNat
<1>3. i \in 0 .. n /\ i \notin S
  BY DEF T
<1>4. i \in 1 .. n /\ i - 1 \in 0 .. n /\ i - 1 \notin T
  BY <1>1, <1>2, <1>3
<1> QED
  BY <1>3, <1>4 DEF T

\* What a name of the disk, or a part of one that join_path left, can be.
Cuts == UNION {{SubSeq(n, 1, k) : k \in 0 .. Len(n)} : n \in Names}

LEMMA NameIs ==
    ASSUME NEW n \in Names
    PROVE  /\ Len(n) \in Nat \ {0} /\ Len(n) + 3 <= MaxPath /\ SubSeq(n, 1, Len(n)) = n
           /\ \A k \in 0 .. Len(n) : Len(SubSeq(n, 1, k)) = k
<1>1. PICK S : n \in Seq(S) /\ n # <<>> /\ Len(n) + 3 <= MaxPath
  BY FileAssumption
<1>2. Len(n) \in Nat \ {0}
  BY <1>1, EmptySeq
<1>3. ASSUME NEW k \in 0 .. Len(n) PROVE Len(SubSeq(n, 1, k)) = k
  <2>1. \A i \in 1 .. k : n[i] \in S
    BY <1>1, <1>2, ElementOfSeq
  <2>2. Len(SubSeq(n, 1, k)) = IF 1 <= k THEN k - 1 + 1 ELSE 0
    BY <2>1, <1>2, SubSeqProperties
  <2> QED
    BY <1>2, <2>2
<1> QED
  BY <1>1, <1>2, <1>3, SubSeqFull

LEMMA CutIs == /\ Names \subseteq Cuts /\ \A x \in Cuts : Len(x) \in Nat
               /\ \A n \in Names : \A k \in 0 .. Len(n) : SubSeq(n, 1, k) \in Cuts
<1>1. \A n \in Names : Len(n) \in 0 .. Len(n) /\ n = SubSeq(n, 1, Len(n))
  BY NameIs
<1>2. \A n \in Names : \A k \in 0 .. Len(n) : SubSeq(n, 1, k) \in Cuts
  BY DEF Cuts
<1>3. ASSUME NEW x \in Cuts PROVE Len(x) \in Nat
  <2>1. PICK n \in Names : x \in {SubSeq(n, 1, k) : k \in 0 .. Len(n)}
    BY DEF Cuts
  <2>2. PICK k \in 0 .. Len(n) : x = SubSeq(n, 1, k)
    BY <2>1
  <2> QED
    BY <2>2, NameIs
<1> QED
  BY <1>1, <1>2, <1>3

WidthOf(f, lead, s, n) ==
    f = [i \in 0 .. n |-> IF i = 0 THEN lead ELSE f[i - 1] + Len(s[i]) + 1]

LEMMA WidthExists ==
    ASSUME NEW lead, NEW s, NEW n \in Nat
    PROVE  \E f : WidthOf(f, lead, s, n)
<1> DEFINE S == {k \in 0 .. n : \E f : WidthOf(f, lead, s, k)}
           Next1(w, i) == w + Len(s[i]) + 1
<1>1. 0 \in S
  <2>1. WidthOf([i \in 0 .. 0 |-> lead], lead, s, 0)
    BY DEF WidthOf
  <2> QED
    BY <2>1
<1>2. ASSUME NEW k \in 1 .. n, k - 1 \in S PROVE k \in S
  <2>1. PICK f : WidthOf(f, lead, s, k - 1)
    BY <1>2
  <2> DEFINE g == [i \in 0 .. k |-> IF i = k THEN Next1(f[k - 1], k) ELSE f[i]]
  <2>2. ASSUME NEW i \in 0 .. k PROVE g[i] = IF i = 0 THEN lead ELSE Next1(g[i - 1], i)
    <3>1. CASE i = k
      <4>1. g[i] = Next1(f[k - 1], i) /\ g[i - 1] = f[k - 1] /\ i # 0
        <5> HIDE DEF Next1
        <5> QED
          BY <3>1
      <4> HIDE DEF Next1
      <4> QED
        BY <4>1, Zenon
    <3>2. CASE i # k
      <4>1. g[i] = f[i] /\ i \in 0 .. k - 1 /\ (i # 0 => g[i - 1] = f[i - 1])
        <5> HIDE DEF Next1
        <5> QED
          BY <3>2
      <4>2. f[i] = IF i = 0 THEN lead ELSE Next1(f[i - 1], i)
        <5>1. f = [j \in 0 .. k - 1 |-> IF j = 0 THEN lead ELSE Next1(f[j - 1], j)]
          BY <2>1, Zenon DEF WidthOf
        <5> HIDE DEF Next1
        <5> QED
          BY <4>1, <5>1, Zenon
      <4> HIDE DEF Next1
      <4> QED
        BY <4>1, <4>2, Zenon
    <3> QED
      BY <3>1, <3>2
  <2>3. WidthOf(g, lead, s, k)
    <3>1. g = [i \in 0 .. k |-> g[i]]
      OBVIOUS
    <3> HIDE DEF g
    <3>2. [i \in 0 .. k |-> g[i]] = [i \in 0 .. k |-> IF i = 0 THEN lead ELSE Next1(g[i - 1], i)]
      <4> HIDE DEF Next1
      <4> QED
        BY <2>2, Zenon
    <3> QED
      BY <3>1, <3>2, Zenon DEF WidthOf
  <2> QED
    BY <2>3
<1> HIDE DEF S
<1>3. n \in S
  BY <1>1, <1>2, Induction
<1> QED
  BY <1>3 DEF S

\* The table that Width reads its result from.
LEMMA WidthTable ==
    ASSUME NEW t, Len(t.names) \in Nat
    PROVE  \E f : /\ Width(t) = f[Len(t.names)] /\ f[0] = LeadWidth(t) - 1
                  /\ \A i \in 1 .. Len(t.names) : f[i] = f[i - 1] + Len(t.names[i]) + 1
<1>1. PICK n \in Nat : n = Len(t.names)
  OBVIOUS
<1> DEFINE f == CHOOSE f : WidthOf(f, LeadWidth(t) - 1, t.names, n)
<1>2. WidthOf(f, LeadWidth(t) - 1, t.names, n)
  BY <1>1, WidthExists, Zenon
<1>3. Width(t) = f[n]
  BY <1>1, Zenon DEF Width, WidthOf
<1> HIDE DEF f
<1>4. f[0] = LeadWidth(t) - 1
  BY <1>1, <1>2 DEF WidthOf
<1>5. \A i \in 1 .. n : f[i] = f[i - 1] + Len(t.names[i]) + 1
  <2> TAKE i \in 1 .. n
  <2>1. i \in 0 .. n /\ i # 0
    BY <1>1
  <2> QED
    BY <1>2, <2>1, Zenon DEF WidthOf
<1> QED
  BY <1>1, <1>3, <1>4, <1>5

\* A path of names, or of what is left of them.
IsPath(t) == t = Text(t.lead, t.names) /\ t.lead \in Leads /\ t.names \in Seq(Cuts)

\* Two tables with the same entries have the same sums.
Sums(f, s, n) == \A i \in 1 .. n : f[i] = f[i - 1] + Len(s[i]) + 1

LEMMA SumsEqual ==
    ASSUME NEW n \in Nat, NEW f, NEW g, NEW s, f[0] = g[0], Sums(f, s, n), Sums(g, s, n)
    PROVE  f[n] = g[n]
<1> DEFINE S == {i \in 0 .. n : f[i] = g[i]}
<1>1. 0 \in S /\ \A i \in 1 .. n : i - 1 \in S => i \in S
  BY DEF Sums
<1> HIDE DEF S
<1>2. 0 .. n \subseteq S
  BY <1>1, Induction, Zenon
<1>3. n \in S
  BY <1>2
<1> QED
  BY <1>3 DEF S

LEMMA WidthEmpty ==
    ASSUME NEW t, IsPath(t), t.names = <<>>
    PROVE  Width(t) = LeadWidth(t) - 1
<1>1. Len(t.names) = 0
  OBVIOUS
<1> QED
  BY <1>1, WidthTable

LEMMA LeadWidthInt == ASSUME NEW t, t.lead \in Leads PROVE LeadWidth(t) \in 0 .. 3
<1>1. LeadWidth(t) = 1 \/ LeadWidth(t) = 0 \/ LeadWidth(t) = 2 \/ LeadWidth(t) = 3
  BY Zenon DEF LeadWidth, Leads
<1> QED
  BY <1>1

LEMMA WidthInt == ASSUME NEW t, IsPath(t) PROVE Width(t) \in Int
<1>1. PICK n \in Nat : n = Len(t.names)
  BY DEF IsPath
<1>2. PICK f : /\ Width(t) = f[n] /\ f[0] = LeadWidth(t) - 1
               /\ \A i \in 1 .. n : f[i] = f[i - 1] + Len(t.names[i]) + 1
  BY <1>1, WidthTable
<1>3. LeadWidth(t) - 1 \in Int
  BY LeadWidthInt DEF IsPath
<1>4. \A i \in 1 .. n : Len(t.names[i]) \in Nat
  BY <1>1, CutIs, ElementOfSeq DEF IsPath
<1> DEFINE S == {i \in 0 .. n : f[i] \in Int}
<1>5. 0 \in S /\ \A i \in 1 .. n : i - 1 \in S => i \in S
  <2>1. 0 \in S
    BY <1>2, <1>3
  <2>2. ASSUME NEW i \in 1 .. n, i - 1 \in S PROVE i \in S
    <3>1. f[i] = f[i - 1] + Len(t.names[i]) + 1 /\ f[i - 1] \in Int /\ Len(t.names[i]) \in Nat
      BY <1>2, <1>4, <2>2
    <3>2. f[i] \in Int
      BY <3>1
    <3> QED
      BY <3>2
  <2> QED
    BY <2>1, <2>2
<1> HIDE DEF S
<1>6. 0 .. n \subseteq S
  BY <1>5, Induction, Zenon
<1>7. n \in S
  BY <1>6
<1> QED
  BY <1>2, <1>7 DEF S

LEMMA WidthAppend ==
    ASSUME NEW t, IsPath(t), NEW x \in Cuts
    PROVE  /\ IsPath(Text(t.lead, Append(t.names, x)))
           /\ Width(Text(t.lead, Append(t.names, x))) = Width(t) + Len(x) + 1
<1> DEFINE s == Append(t.names, x)
           u == Text(t.lead, s)
<1>1. PICK n \in Nat : n = Len(t.names)
  BY DEF IsPath
<1>2. /\ s \in Seq(Cuts) /\ Len(s) = n + 1 /\ s[n + 1] = x
      /\ \A i \in 1 .. n : s[i] = t.names[i]
  BY <1>1, AppendProperties DEF IsPath
<1>3. u.lead = t.lead /\ u.names = s
  BY DEF Text
<1>4. IsPath(u)
  BY <1>2, <1>3 DEF IsPath, Text
<1>5. LeadWidth(u) = LeadWidth(t)
  BY <1>3 DEF LeadWidth
<1> HIDE DEF s, u
<1>6. PICK f : /\ Width(t) = f[n] /\ f[0] = LeadWidth(t) - 1
               /\ \A i \in 1 .. n : f[i] = f[i - 1] + Len(t.names[i]) + 1
  BY <1>1, WidthTable
<1>7. PICK g : /\ Width(u) = g[n + 1] /\ g[0] = LeadWidth(u) - 1
               /\ \A i \in 1 .. n + 1 : g[i] = g[i - 1] + Len(s[i]) + 1
  <2>1. Len(u.names) = n + 1 /\ n + 1 \in Nat
    BY <1>1, <1>2, <1>3
  <2> QED
    BY <1>3, <2>1, WidthTable
<1>8. f[n] = g[n]
  <2>1. \A i \in 1 .. n : g[i] = g[i - 1] + Len(t.names[i]) + 1
    BY <1>2, <1>7
  <2>2. f[0] = g[0]
    BY <1>5, <1>6, <1>7
  <2>3. \A i \in 1 .. n : f[i] = f[i - 1] + Len(t.names[i]) + 1
    BY <1>6
  <2>4. Sums(f, t.names, n) /\ Sums(g, t.names, n)
    BY <2>1, <2>3, Zenon DEF Sums
  <2> QED
    BY <2>2, <2>4, SumsEqual
<1>9. g[n + 1] = g[n] + Len(x) + 1
  BY <1>2, <1>7
<1>10. Width(u) = Width(t) + Len(x) + 1
  BY <1>6, <1>7, <1>8, <1>9
<1> QED
  BY <1>4, <1>10 DEF s, u

\* join_path leaves a path that fits, whatever it cuts off.
LEMMA JoinFits ==
    ASSUME NEW t, IsPath(t), Width(t) <= MaxPath, NEW n \in Names
    PROVE  IsPath(JoinPath(t, n)) /\ Width(JoinPath(t, n)) <= MaxPath
<1> DEFINE room == MaxPath - Width(t) - 1
           k == IF Len(n) < room THEN Len(n) ELSE room
<1>1. Width(t) \in Int /\ MaxPath \in Nat /\ Len(n) \in Nat
  BY WidthInt, NameIs, FileAssumption
<1>2. CASE room < 1
  BY <1>2 DEF JoinPath, Joined
<1>3. CASE ~(room < 1)
  <2>1. k \in 0 .. Len(n) /\ Width(t) + k + 1 <= MaxPath
    BY <1>1, <1>3
  <2>2. SubSeq(n, 1, k) \in Cuts /\ Len(SubSeq(n, 1, k)) = k
    BY <2>1, CutIs, NameIs
  <2>3. JoinPath(t, n) = Text(t.lead, Append(t.names, SubSeq(n, 1, k)))
    BY <1>3 DEF JoinPath, Joined
  <2> QED
    BY <1>1, <2>1, <2>2, <2>3, WidthAppend
<1> QED
  BY <1>2, <1>3

\* What is typed fits.
LEMMA TypedFits == ASSUME NEW t \in Typed PROVE IsPath(t) /\ Width(t) <= MaxPath
<1>1. t.lead \in Leads /\ t = Text(t.lead, t.names)
  BY TypedNames DEF Typed
<1>2. LeadWidth(t) \in 0 .. 3 /\ MaxPath \in Nat /\ 2 < MaxPath
  BY <1>1, LeadWidthInt, FileAssumption
<1>3. CASE t.names = <<>>
  <2>1. <<>> \in Seq(Cuts)
    OBVIOUS
  <2>2. IsPath(t)
    BY <1>1, <1>3, <2>1 DEF IsPath
  <2> QED
    BY <1>2, <1>3, <2>2, WidthEmpty
<1>4. ASSUME NEW n \in Names, t.names = <<n>> PROVE IsPath(t) /\ Width(t) <= MaxPath
  <2> DEFINE u == Text(t.lead, <<>>)
  <2>1. <<>> \in Seq(Cuts) /\ Append(<<>>, n) = <<n>>
    OBVIOUS
  <2>2. u.lead = t.lead /\ u.names = <<>> /\ IsPath(u)
    BY <1>1, <2>1 DEF IsPath, Text
  <2>3. LeadWidth(u) = LeadWidth(t)
    BY <2>2 DEF LeadWidth
  <2>4. t = Text(u.lead, Append(u.names, n))
    BY <1>1, <1>4, <2>1, <2>2
  <2> HIDE DEF u
  <2>5. Width(u) = LeadWidth(t) - 1
    BY <2>2, <2>3, WidthEmpty
  <2>6. IsPath(t) /\ Width(t) = Width(u) + Len(n) + 1
    BY <2>2, <2>4, CutIs, WidthAppend
  <2>7. Len(n) \in Nat /\ Len(n) + 3 <= MaxPath
    BY NameIs
  <2> QED
    BY <1>2, <2>5, <2>6, <2>7
<1> QED
  BY <1>3, <1>4, TypedNames

(***************************************************************************)
(* Types.                                                                  *)
(***************************************************************************)
FrameOK(f) ==
    /\ f.phase \in {"stat", "loop"} /\ f.left \subseteq Names
    /\ IsPath(f.text) /\ Width(f.text) <= MaxPath
AnswerOK(r) == r.cmd \in {"none", "rm", "rm_r"} /\ r.ok \in BOOLEAN
ResultOK  == AnswerOK(result)
CallsOK ==
    /\ \A p \in DOMAIN tree : tree[p] \in Kinds
    /\ Len(stack) <= StackFrames
    /\ \A i \in 1 .. Len(stack) : FrameOK(stack[i])
    /\ overrun \in BOOLEAN /\ ResultOK

LEMMA Answers ==
    /\ AnswerOK(NoResult)
    /\ \A c \in {"rm", "rm_r"} : \A t : \A ok \in BOOLEAN : AnswerOK(Result(c, t, ok))
<1>1. NoResult.cmd = "none" /\ NoResult.ok \in BOOLEAN
  BY Zenon DEF NoResult, Result
<1>2. AnswerOK(NoResult)
  BY <1>1 DEF AnswerOK
<1> QED
  BY <1>2 DEF AnswerOK, Result

LEMMA CallsType == TreeInv /\ CallsOK => TypeOK
  BY DEF TreeInv, Rooted, CallsOK, TypeOK, FrameOK, ResultOK, AnswerOK

LEMMA InitCalls == Init => CallsOK
<1> SUFFICES ASSUME Init PROVE CallsOK
  OBVIOUS
<1>1. stack = <<>> /\ overrun = FALSE /\ result = NoResult
      /\ \A p \in DOMAIN tree : tree[p] \in Kinds
  BY DEF Init
<1>2. Len(stack) = 0 /\ StackFrames \in Nat
  BY <1>1, FileAssumption
<1>3. ResultOK
  BY <1>1, Answers DEF ResultOK
<1>4. Len(stack) <= StackFrames /\ 1 .. Len(stack) = {}
  BY <1>2
<1> QED
  BY <1>1, <1>3, <1>4 DEF CallsOK

\* The frame on top is replaced by another.
LEMMA Replaced ==
    ASSUME StackInv, stack # <<>>, NEW f, NEW s, s = Append(Front(stack), f)
    PROVE  /\ \E F : s \in Seq(F)
           /\ Len(stack) \in Nat \ {0} /\ Len(s) = Len(stack) /\ s[Len(stack)] = f
           /\ \A i \in 1 .. Len(stack) - 1 : s[i] = stack[i]
<1>1. PICK F : Front(stack) \in Seq(F)
  BY StackTop
<1>2. /\ Len(stack) \in Nat \ {0}
      /\ Len(Front(stack)) = Len(stack) - 1
      /\ \A i \in 1 .. Len(stack) - 1 : Front(stack)[i] = stack[i]
  BY StackTop
<1>3. Front(stack) \in Seq(F \cup {f})
  BY <1>1, SeqMonotonic
<1>4. /\ s \in Seq(F \cup {f})
      /\ Len(s) = Len(Front(stack)) + 1
      /\ \A i \in 1 .. Len(Front(stack)) : s[i] = Front(stack)[i]
      /\ s[Len(Front(stack)) + 1] = f
  BY <1>3, AppendProperties
<1> QED
  BY <1>2, <1>4

\* It is replaced, and another put on top of it.
Pushed(f, e) == Append(Append(Front(stack), f), e)

LEMMA Called ==
    ASSUME StackInv, stack # <<>>, NEW f, NEW e, NEW u, u = Pushed(f, e)
    PROVE  /\ Len(stack) \in Nat \ {0} /\ Len(u) = Len(stack) + 1
           /\ u[Len(stack)] = f /\ u[Len(stack) + 1] = e
           /\ \A i \in 1 .. Len(stack) - 1 : u[i] = stack[i]
<1> DEFINE s == Append(Front(stack), f)
<1>1. /\ \E F : s \in Seq(F)
      /\ Len(stack) \in Nat \ {0} /\ Len(s) = Len(stack) /\ s[Len(stack)] = f
      /\ \A i \in 1 .. Len(stack) - 1 : s[i] = stack[i]
  BY Replaced
<1>2. u = Append(s, e)
  BY DEF Pushed
<1> HIDE DEF s
<1>3. PICK F : s \in Seq(F)
  BY <1>1
<1>4. s \in Seq(F \cup {e})
  BY <1>3, SeqMonotonic
<1>5. /\ Len(u) = Len(s) + 1 /\ u[Len(s) + 1] = e
      /\ \A i \in 1 .. Len(s) : u[i] = s[i]
  BY <1>2, <1>4, AppendProperties
<1> QED
  BY <1>1, <1>5

LEMMA TopFrame == ASSUME StackInv, CallsOK, stack # <<>> PROVE FrameOK(top)
<1>1. Len(stack) \in Nat \ {0}
  BY StackTop
<1>2. Len(stack) \in 1 .. Len(stack)
  BY <1>1
<1> QED
  BY <1>2 DEF CallsOK, top

\* Entries that are made have a kind, those that stay keep it.
LEMMA KindsKept ==
    ASSUME CallsOK, \/ UNCHANGED tree
                    \/ \E t, ok : Unlink(t, ok)
                    \/ \E t, k : k \in Kinds /\ Make(t, k)
    PROVE  \A p \in DOMAIN tree' : tree'[p] \in Kinds
  BY DEF CallsOK, Unlink, Unlinked, Make

LEMMA ReturnCalls ==
    ASSUME StackInv, CallsOK, stack # <<>>, ReturnOk \/ ReturnError
    PROVE  /\ Len(stack') <= StackFrames /\ ResultOK'
           /\ \A i \in 1 .. Len(stack') : FrameOK(stack[i])'
<1>1. ResultOK'
  <2>1. \/ result' = NoResult
        \/ \E ok \in BOOLEAN : result' = Result("rm_r", operand, ok)
    BY DEF ReturnOk, ReturnError
  <2> QED
    BY <2>1, Answers DEF ResultOK
<1>2. \A f : FrameOK(f)' <=> FrameOK(f)
  BY DEF FrameOK, IsPath, Width, LeadWidth
<1>3. CASE stack' = <<>>
  <2>1. Len(stack') = 0 /\ StackFrames \in Nat
    BY <1>3, FileAssumption
  <2> QED
    BY <1>1, <2>1
<1>4. CASE stack' = Front(stack)
  <2>1. /\ Len(stack) \in Nat \ {0} /\ Len(stack') = Len(stack) - 1
        /\ \A i \in 1 .. Len(stack) - 1 : stack'[i] = stack[i]
    BY <1>4, StackTop
  <2>2. Len(stack) <= StackFrames /\ \A i \in 1 .. Len(stack) - 1 : FrameOK(stack'[i])
    BY <2>1 DEF CallsOK
  <2> QED
    BY <1>1, <2>1, <2>2, FileAssumption DEF FrameOK
<1> QED
  BY <1>3, <1>4 DEF ReturnOk, ReturnError

LEMMA NextCalls == ASSUME StackInv, CallsOK, [Next]_vars PROVE CallsOK'
<1>1. ASSUME UNCHANGED stack, \A p \in DOMAIN tree' : tree'[p] \in Kinds,
             overrun' \in BOOLEAN, ResultOK'
      PROVE  CallsOK'
  BY <1>1 DEF CallsOK, FrameOK
<1>2. CASE UNCHANGED vars
  BY <1>1, <1>2, KindsKept DEF vars, CallsOK, ResultOK
<1>3. ASSUME NEW t \in Typed, MakeDir(t) \/ MakeFile(t) PROVE CallsOK'
  <2>1. \E k : k \in Kinds /\ Make(t, k)
    BY <1>3 DEF MakeDir, MakeFile, Kinds, DirKinds, ReadOnly
  <2>2. UNCHANGED <<stack, overrun>> /\ result' = NoResult
    BY <2>1 DEF Make
  <2> QED
    BY <1>1, <2>1, <2>2, KindsKept, Answers DEF CallsOK, ResultOK
<1>4. ASSUME NEW t \in Typed, Cd(t) PROVE CallsOK'
  BY <1>1, <1>4, KindsKept, Answers DEF Cd, CallsOK, ResultOK
<1>5. ASSUME NEW t \in Typed, RmFile(t) PROVE CallsOK'
  <2>1. UNCHANGED <<stack, overrun>> /\ \E ok \in BOOLEAN : result' = Result("rm", t, ok)
    BY <1>5 DEF RmFile
  <2>2. UNCHANGED tree \/ \E x, ok : Unlink(x, ok)
    BY <1>5 DEF RmFile
  <2>3. ResultOK'
    BY <2>1, Answers DEF ResultOK
  <2> QED
    BY <1>1, <2>1, <2>2, <2>3, KindsKept DEF CallsOK
<1>6. ASSUME NEW t \in Typed, RmRecursive(t) PROVE CallsOK'
  <2> DEFINE f == Frame(t, "stat", {})
  <2>1. stack' = <<f>> /\ UNCHANGED <<tree, overrun>> /\ result' = NoResult
    BY <1>6 DEF RmRecursive
  <2>2. FrameOK(f)
    BY TypedFits DEF FrameOK, Frame
  <2> HIDE DEF f
  <2>3. Len(stack') = 1 /\ stack'[1] = f
    BY <2>1
  <2>4. \A i \in 1 .. Len(stack') : FrameOK(stack[i])'
    BY <2>2, <2>3 DEF FrameOK
  <2> QED
    BY <2>1, <2>3, <2>4, Answers, FileAssumption DEF CallsOK, ResultOK
<1>7. CASE RemoveStep
  <2>1. stack # <<>> /\ Len(stack) \in Nat \ {0}
    BY <1>7, StackTop DEF RemoveStep, NotFound, RemoveFile, OpenDir, ReadEntry, ReadFails,
                RemoveDir, Running
  <2>2. CASE NotFound \/ RemoveFile \/ ReadFails \/ RemoveDir
    <3>1. (ReturnOk \/ ReturnError) /\ UNCHANGED overrun
          /\ (UNCHANGED tree \/ \E t, ok : Unlink(t, ok))
      BY <2>2 DEF NotFound, RemoveFile, ReadFails, RemoveDir, UnlinkTop
    <3> QED
      BY <2>1, <3>1, ReturnCalls, KindsKept DEF CallsOK
  <2>3. CASE OpenDir
    <3> DEFINE f == Frame(top.text, "loop", Kids(Place(top.text)))
    <3>1. stack' = Append(Front(stack), f) /\ UNCHANGED <<tree, overrun, result>>
      BY <2>3 DEF OpenDir
    <3>2. FrameOK(f)
      BY <2>1, TopFrame DEF FrameOK, Frame, Kids
    <3> HIDE DEF f
    <3>3. Len(stack') = Len(stack) /\ stack'[Len(stack)] = f
          /\ \A i \in 1 .. Len(stack) - 1 : stack'[i] = stack[i]
      BY <2>1, <3>1, Replaced
    <3>4. \A i \in 1 .. Len(stack') : FrameOK(stack'[i])
      BY <2>1, <3>2, <3>3 DEF CallsOK
    <3> QED
      BY <3>1, <3>3, <3>4 DEF CallsOK, ResultOK, FrameOK
  <2>4. CASE ReadEntry
    <3>1. PICK n \in Left :
              IF Len(stack) = StackFrames
              THEN overrun' = TRUE /\ UNCHANGED stack
              ELSE /\ stack' = Append(Append(Front(stack), Frame(top.text, "loop", Left \ {n})),
                                      Frame(JoinPath(top.text, n), "stat", {}))
                   /\ UNCHANGED overrun
      BY <2>4 DEF ReadEntry
    <3>2. UNCHANGED <<tree, result>>
      BY <2>4 DEF ReadEntry
    <3>3. CASE Len(stack) = StackFrames
      BY <1>1, <3>1, <3>2, <3>3, KindsKept DEF CallsOK, ResultOK
    <3>4. CASE Len(stack) # StackFrames
      <4> DEFINE f == Frame(top.text, "loop", Left \ {n})
                 e == Frame(JoinPath(top.text, n), "stat", {})
      <4>1. stack' = Append(Append(Front(stack), f), e) /\ UNCHANGED overrun
        BY <3>1, <3>4
      <4>2. n \in Names /\ Left \subseteq Names
        BY <2>1, TopFrame DEF FrameOK, Left
      <4>3. FrameOK(f)
        BY <2>1, <4>2, TopFrame DEF FrameOK, Frame
      <4>4. FrameOK(e)
        <5>1. IsPath(JoinPath(top.text, n)) /\ Width(JoinPath(top.text, n)) <= MaxPath
          BY <2>1, <4>2, TopFrame, JoinFits DEF FrameOK
        <5> QED
          BY <5>1 DEF FrameOK, Frame
      <4> HIDE DEF f, e
      <4>5. /\ Len(stack') = Len(stack) + 1
            /\ stack'[Len(stack)] = f /\ stack'[Len(stack) + 1] = e
            /\ \A i \in 1 .. Len(stack) - 1 : stack'[i] = stack[i]
        <5>1. PICK u : u = stack'
          OBVIOUS
        <5>2. u = Pushed(f, e)
          BY <4>1, <5>1 DEF Pushed
        <5>3. /\ Len(u) = Len(stack) + 1 /\ u[Len(stack)] = f /\ u[Len(stack) + 1] = e
              /\ \A i \in 1 .. Len(stack) - 1 : u[i] = stack[i]
          BY <2>1, <5>2, Called
        <5> QED
          BY <5>1, <5>3, Zenon
      <4>6. \A i \in 1 .. Len(stack') : FrameOK(stack'[i])
        BY <2>1, <4>3, <4>4, <4>5 DEF CallsOK
      <4>7. Len(stack') <= StackFrames
        BY <2>1, <3>4, <4>5, FileAssumption DEF CallsOK
      <4> QED
        BY <3>2, <4>1, <4>6, <4>7 DEF CallsOK, ResultOK, FrameOK
    <3> QED
      BY <3>3, <3>4
  <2> QED
    BY <1>7, <2>2, <2>3, <2>4 DEF RemoveStep
<1> QED
  BY <1>2, <1>3, <1>4, <1>5, <1>6, <1>7 DEF Next, Commands

\* For all names, buffer and stack sizes and disks: the tree stays a tree of
\* files and directories, and every path that join_path builds fits in
\* subpath[], however deep rm -r goes (join_path, fshelpers.c:160).
THEOREM TypeCorrect == Spec => []TypeOK
<1> DEFINE Inv == TreeInv /\ StackInv /\ CallsOK
<1>1. Init => Inv
  BY InitTree, InitStack, InitCalls
<1>2. Inv /\ [Next]_vars => Inv'
  BY NextTree, NextStack, NextCalls
<1> QED
  BY <1>1, <1>2, CallsType, PTL DEF Spec

(***************************************************************************)
(* Why rm -r fails.  As long as no reason is in sight, every running call  *)
(* is at an entry the tree had from the start, its whole path fits, and an *)
(* entry of a directory that is being emptied is still to be read, or is   *)
(* the one the next call is at.                                            *)
(***************************************************************************)
P(i) == Place(stack[i].text)

Way(i) ==
    /\ \E r \in Seq(Names) :
          stack[i].text = Text(operand.lead, operand.names \o r) /\ Len(r) = i - 1
    /\ P(i) \in DOMAIN tree
    /\ i < Len(stack) => stack[i].phase = "loop"
    /\ stack[i].phase = "loop" =>
          /\ tree[P(i)] \in DirKinds
          /\ \A n \in Kids(P(i)) :
                n \in stack[i].left \/ (i < Len(stack) /\ P(i + 1) = Append(P(i), n))

Whole ==
    /\ operand.names # <<>>
    /\ \A p \in DOMAIN tree : p \in DOMAIN start /\ tree[p] = start[p]
    /\ \A i \in 1 .. Len(stack) : Way(i)

NoReason == stack # <<>> /\ ~faults /\ ~overrun /\ ~Reason(operand)
FailInv  == (NoReason => Whole) /\ FailureExplained

\* A path that leads on from the operand leads below its place.
LEMMA PlaceOf ==
    ASSUME TreeInv, operand \in Typed, NEW r \in Seq(Names), NEW t,
           t = Text(operand.lead, operand.names \o r)
    PROVE  /\ Place(operand) \in Seq(Names) /\ Place(t) = Place(operand) \o r
           /\ t.lead = operand.lead /\ t.names = operand.names \o r
           /\ t.names \in Seq(Names) /\ (operand.names # <<>> => t.names # <<>>)
           /\ Under(Place(operand), Place(t))
<1>1. t.lead = operand.lead /\ t.names = operand.names \o r
  BY DEF Text
<1>2. operand.names \in Seq(Names) /\ Origin(operand) \in Seq(Names)
  BY OriginType, TypedNames
<1>3. Origin(t) = Origin(operand)
  BY <1>1 DEF Origin
<1>4. Place(operand) \in Seq(Names) /\ t.names \in Seq(Names)
  BY <1>1, <1>2, ConcatProperties DEF Place
<1>5. operand.names # <<>> => t.names # <<>>
  BY <1>1, <1>2, ConcatEqualIffEmpty
<1>6. Place(t) = Place(operand) \o r
  <2>1. \A a, b, c \in Seq(Names) : (a \o b) \o c = a \o (b \o c)
    BY ConcatAssociative
  <2>2. (Origin(operand) \o operand.names) \o r = Origin(operand) \o (operand.names \o r)
    BY <1>2, <2>1, Zenon
  <2>3. Place(t) = Origin(operand) \o (operand.names \o r)
    BY <1>1, <1>3, Zenon DEF Place
  <2> QED
    BY <2>2, <2>3, Zenon DEF Place
<1>7. Under(Place(operand), Place(t))
  BY <1>4, <1>6, PrefixOfConcat DEF Under
<1> QED
  BY <1>1, <1>4, <1>5, <1>6, <1>7

LEMMA WayFacts ==
    ASSUME TreeInv, StackInv, Whole, NEW i \in 1 .. Len(stack)
    PROVE  /\ P(i) \in Seq(Names) /\ P(i) \in DOMAIN tree /\ P(i) # Root
           /\ Place(operand) \in Seq(Names) /\ Len(P(i)) = Len(Place(operand)) + i - 1
           /\ Under(Place(operand), P(i)) /\ stack[i].text.names # <<>>
<1>1. stack # <<>> /\ operand \in Typed
  <2>1. Len(stack) # 0
    BY DEF StackInv
  <2> QED
    BY <2>1 DEF StackInv
<1>2. PICK r \in Seq(Names) :
          stack[i].text = Text(operand.lead, operand.names \o r) /\ Len(r) = i - 1
  BY DEF Whole, Way
<1>3. /\ Place(operand) \in Seq(Names) /\ P(i) = Place(operand) \o r
      /\ (operand.names # <<>> => stack[i].text.names # <<>>)
      /\ Under(Place(operand), P(i))
  BY <1>1, <1>2, PlaceOf DEF P
<1>4. P(i) \in DOMAIN tree /\ P(i) \in Seq(Names) /\ P(i) # Root
  BY DEF Whole, Way, TreeInv, Rooted
<1>5. Len(P(i)) = Len(Place(operand)) + i - 1
  <2>1. Len(Place(operand) \o r) = Len(Place(operand)) + Len(r)
    BY <1>3, ConcatProperties
  <2> QED
    BY <1>2, <1>3, <2>1
<1> QED
  BY <1>3, <1>4, <1>5 DEF Whole

\* Nothing stands in the way of the call on top.
LEMMA CanRemove ==
    ASSUME TreeInv, StackInv, Whole, stack # <<>>, ~Reason(operand)
    PROVE  /\ Stat(top.text)
           /\ (IsDir(Place(top.text)) => Kids(Place(top.text)) = {}) => CanUnlink(top.text)
<1> DEFINE n == Len(stack)
           q == Place(top.text)
<1>1. n \in Nat \ {0} /\ n \in 1 .. Len(stack)
  BY StackTop
<1>2. top = stack[n] /\ q = P(n)
  BY DEF top, P
<1>3. /\ q \in DOMAIN tree /\ q # Root /\ Under(Place(operand), q)
      /\ top.text.names # <<>>
  BY <1>1, <1>2, WayFacts
<1>4. q \in DOMAIN start /\ tree[q] = start[q]
  BY <1>3 DEF Whole
<1>5. start[q] \notin ReadOnly /\ q # cwd
  BY <1>3, <1>4 DEF Reason
<1>6. Stat(top.text) /\ ~IsDots(top.text)
  BY <1>3 DEF Stat, IsDots
<1> HIDE DEF q
<1>7. tree[q] \in DirKinds => IsDir(q)
  BY <1>3 DEF IsDir
<1> QED
  BY <1>3, <1>4, <1>5, <1>6, <1>7 DEF CanUnlink, q

\* A reason depends on the tree there was, the current directory and the path.
OriginAt(c, t) == CASE t.lead = "/" -> Root
                    [] t.lead = ".." /\ c # Root -> Front(c)
                    [] OTHER -> c
PlaceAt(c, t)  == OriginAt(c, t) \o t.names
ReasonAt(c, S, t) ==
    \/ IsDots(t)
    \/ PlaceAt(c, t) \notin DOMAIN S
    \/ \E p \in DOMAIN S :
          /\ Under(PlaceAt(c, t), p)
          /\ \/ S[p] \in ReadOnly
             \/ p = c
             \/ MaxPath < Width(Text(t.lead, t.names \o
                                     SubSeq(p, Len(PlaceAt(c, t)) + 1, Len(p))))

LEMMA ReasonIs ==
    /\ \A t : Reason(t) <=> ReasonAt(cwd, start, t)
    /\ Reason(operand)' <=> ReasonAt(cwd', start', operand')
    /\ Reason(result.text)' <=> ReasonAt(cwd', start', result'.text)
<1>1. \A t : Reason(t) <=> ReasonAt(cwd, start, t)
  BY Zenon DEF Reason, ReasonAt, PathTo, Place, PlaceAt, Origin, OriginAt
<1>2. Reason(operand)' <=> ReasonAt(cwd', start', operand')
  BY Zenon DEF Reason, ReasonAt, PathTo, Place, PlaceAt, Origin, OriginAt, IsDots, Width, LeadWidth, operand
<1>3. Reason(result.text)' <=> ReasonAt(cwd', start', result'.text)
  BY Zenon DEF Reason, ReasonAt, PathTo, Place, PlaceAt, Origin, OriginAt, IsDots, Width, LeadWidth
<1> QED
  BY <1>1, <1>2, <1>3

\* What an answer is.
LEMMA Said ==
    /\ NoResult.cmd # "rm_r"
    /\ \A c, t, ok : /\ Result(c, t, ok).cmd = c /\ Result(c, t, ok).text = t
                     /\ Result(c, t, ok).ok = ok
<1>1. NoResult.cmd = "none"
  BY Zenon DEF NoResult, Result
<1>2. NoResult.cmd # "rm_r"
  BY <1>1
<1> QED
  BY <1>2 DEF Result

\* Then a call that ends has removed what its path names, and nothing fails.
LEMMA GoodStep ==
    ASSUME TreeInv, StackInv, Whole, NoReason, RemoveStep
    PROVE  \/ OpenDir \/ ReadEntry
           \/ /\ tree' = Unlinked(top.text) /\ ReturnOk
              /\ UNCHANGED <<cwd, overrun, start, faults>>
<1> DEFINE n == Len(stack)
           q == Place(top.text)
<1>1. stack # <<>> /\ ~faults /\ ~Reason(operand)
  BY DEF NoReason
<1>2. /\ Stat(top.text)
      /\ (IsDir(q) => Kids(q) = {}) => CanUnlink(top.text)
  BY <1>1, CanRemove
<1>3. ASSUME IsDir(q) => Kids(q) = {}, UnlinkTop
      PROVE  tree' = Unlinked(top.text) /\ ReturnOk
  BY <1>1, <1>2, <1>3 DEF UnlinkTop, Unlink
<1>4. ~NotFound /\ ~ReadFails
  BY <1>1, <1>2 DEF NotFound, ReadFails
<1>5. CASE RemoveFile
  <2>1. ~IsDir(q) /\ UnlinkTop /\ UNCHANGED <<cwd, overrun, start, faults>>
    BY <1>5 DEF RemoveFile, StatDir
  <2> QED
    BY <1>3, <2>1
<1>6. CASE RemoveDir
  <2>1. Left = {} /\ top.phase = "loop" /\ UnlinkTop
        /\ UNCHANGED <<cwd, overrun, start, faults>>
    BY <1>6 DEF RemoveDir
  <2>2. n \in 1 .. Len(stack) /\ ~(n < Len(stack))
    BY <1>1, StackTop
  <2>3. q = P(n) /\ stack[n].phase = "loop" /\ top = stack[n]
    BY <2>1 DEF P, top
  <2>4. Way(n)
    BY <2>2 DEF Whole
  <2>5. \A m \in Kids(q) : m \in top.left
    BY <2>2, <2>3, <2>4 DEF Way
  <2>6. Kids(q) = {}
    BY <2>1, <2>5 DEF Left
  <2> QED
    BY <1>3, <2>1, <2>6
<1> QED
  BY <1>4, <1>5, <1>6 DEF RemoveStep

\* Where the calls of the next state are.
LEMMA NextPlace ==
    ASSUME UNCHANGED cwd
    PROVE  \A i : \A t : stack'[i].text = t => P(i)' = Place(t)
BY DEF P, Place, Origin

\* Nothing stands in the way of rm -r when it is typed.
LEMMA StartWhole ==
    ASSUME TreeInv, NEW t \in Typed, RmRecursive(t), NoReason'
    PROVE  Whole'
<1> DEFINE f == Frame(t, "stat", {})
<1>1. stack' = <<f>> /\ start' = tree /\ UNCHANGED <<tree, cwd>>
  BY DEF RmRecursive
<1>2. f.text = t /\ f.phase = "stat"
  BY DEF Frame
<1> HIDE DEF f
<1>3. Len(stack') = 1 /\ stack'[1] = f
  BY <1>1
<1>4. operand' = t /\ P(1)' = Place(t)
  BY <1>1, <1>2, <1>3, NextPlace DEF operand
<1>5. ~IsDots(t) /\ Place(t) \in DOMAIN tree
  <2>1. ~Reason(operand)'
    BY DEF NoReason
  <2>2. Place(t)' = Place(t)
    BY <1>1 DEF Place, Origin
  <2> QED
    BY <1>1, <1>4, <2>1, <2>2 DEF Reason, IsDots
<1>6. t.names # <<>>
  <2> SUFFICES ASSUME t.names = <<>> PROVE FALSE
    OBVIOUS
  <2>1. t.lead \in Leads /\ t.lead # ""
    BY Zenon DEF Typed
  <2>2. t.lead = "/"
    BY <1>5, <2>1, Zenon DEF Leads, IsDots
  <2>3. Place(t) = Root \o <<>>
    BY <2>2 DEF Place, Origin
  <2>4. Place(t) = Root
    BY <2>3 DEF Root
  <2> QED
    BY <1>5, <2>4 DEF TreeInv, Rooted
<1>7. t = Text(t.lead, t.names \o <<>>) /\ <<>> \in Seq(Names) /\ Len(<<>>) = 0
  <2>1. t = Text(t.lead, t.names) /\ t.names \in Seq(Names)
    BY TypedNames
  <2> QED
    BY <2>1, ConcatEmptySeq, EmptySeq
<1>8. Way(1)'
  <2>1. \E r \in Seq(Names) :
            stack'[1].text = Text(operand'.lead, operand'.names \o r) /\ Len(r) = 1 - 1
    <3>1. stack'[1].text = Text(operand'.lead, operand'.names \o <<>>)
      BY <1>2, <1>3, <1>4, <1>7, Zenon
    <3>2. Len(<<>>) = 1 - 1
      BY <1>7
    <3> QED
      BY <1>7, <3>1, <3>2, Zenon
  <2>2. stack'[1].phase # "loop" /\ ~(1 < Len(stack'))
    BY <1>2, <1>3
  <2>3. P(1)' \in DOMAIN tree'
    BY <1>1, <1>4, <1>5
  <2> QED
    BY <2>1, <2>2, <2>3, Zenon DEF Way
<1>9. \A i \in 1 .. Len(stack') : i = 1
  BY <1>3
<1> QED
  BY <1>1, <1>4, <1>6, <1>8, <1>9 DEF Whole

\* What is needed of the calls of the next state.
LEMMA WholeKept ==
    ASSUME Whole, UNCHANGED <<start, operand>>,
           \A p \in DOMAIN tree' : p \in DOMAIN tree /\ tree'[p] = tree[p],
           \A i \in 1 .. Len(stack') : Way(i)'
    PROVE  Whole'
BY DEF Whole


\* The operand is that of the first call, as long as calls run.
LEMMA SameOperand ==
    ASSUME StackInv, stack # <<>>, stack' # <<>>, RemoveStep
    PROVE  UNCHANGED operand
<1>1. Len(stack) \in Nat \ {0}
  BY StackTop
<1>2. CASE UNCHANGED stack
  BY <1>2 DEF operand
<1>3. CASE stack' # stack /\ (OpenDir \/ ReadEntry)
  <2>1. CASE OpenDir
    <3> DEFINE f == Frame(top.text, "loop", Kids(Place(top.text)))
    <3>1. stack' = Append(Front(stack), f) /\ f.text = top.text
      BY <2>1 DEF OpenDir, Frame
    <3> HIDE DEF f
    <3>2. stack'[Len(stack)] = f /\ \A i \in 1 .. Len(stack) - 1 : stack'[i] = stack[i]
      BY <3>1, Replaced
    <3> QED
      BY <1>1, <3>1, <3>2 DEF operand, top
  <2>2. CASE ReadEntry
    <3>1. PICK n : stack' = Append(Append(Front(stack), Frame(top.text, "loop", Left \ {n})),
                                   Frame(JoinPath(top.text, n), "stat", {}))
      BY <1>3, <2>2 DEF ReadEntry
    <3> DEFINE f == Frame(top.text, "loop", Left \ {n})
               e == Frame(JoinPath(top.text, n), "stat", {})
    <3>2. f.text = top.text
      BY DEF Frame
    <3>3. PICK u : u = stack'
      OBVIOUS
    <3>4. u = Pushed(f, e)
      BY <3>1, <3>3 DEF Pushed
    <3> HIDE DEF f, e
    <3>5. u[Len(stack)] = f /\ \A i \in 1 .. Len(stack) - 1 : u[i] = stack[i]
      BY <3>4, Called
    <3>6. u[1].text = stack[1].text
      BY <1>1, <3>2, <3>5 DEF top
    <3> QED
      BY <3>3, <3>6, Zenon DEF operand
  <2> QED
    BY <1>3, <2>1, <2>2
<1>4. CASE stack' = Front(stack)
  <2>1. PICK F : Front(stack) \in Seq(F)
    BY StackTop
  <2>2. Len(Front(stack)) # 0
    BY <1>4, <2>1, EmptySeq
  <2>3. Front(stack)[1] = stack[1]
    BY <1>1, <2>2, StackTop
  <2> QED
    BY <1>4, <2>3 DEF operand
<1>5. OpenDir \/ ReadEntry \/ stack' = Front(stack)
  BY DEF RemoveStep, NotFound, RemoveFile, ReadFails, RemoveDir, UnlinkTop, ReturnOk, ReturnError
<1> QED
  BY <1>2, <1>3, <1>4, <1>5

\* f_opendir: everything in the directory is to be read.
LEMMA OpenWhole ==
    ASSUME TreeInv, StackInv, Whole, stack # <<>>, OpenDir, UNCHANGED operand
    PROVE  Whole'
<1> DEFINE n == Len(stack)
           q == Place(top.text)
           f == Frame(top.text, "loop", Kids(q))
<1>1. stack' = Append(Front(stack), f) /\ UNCHANGED <<tree, cwd, start>> /\ IsDir(q)
  BY DEF OpenDir, StatDir
<1>2. f.text = top.text /\ f.left = Kids(q)
  BY DEF Frame
<1> HIDE DEF f
<1>3. /\ n \in Nat \ {0} /\ Len(stack') = n /\ stack'[n] = f
      /\ \A i \in 1 .. n - 1 : stack'[i] = stack[i]
  BY <1>1, Replaced
<1> HIDE DEF n
<1>4. \A i \in 1 .. n : stack'[i].text = stack[i].text /\ P(i)' = P(i)
  <2>1. \A i \in 1 .. n : stack'[i].text = stack[i].text
    BY <1>2, <1>3 DEF top, n
  <2> QED
    BY <1>1, <2>1, NextPlace DEF P
<1>5. \A p : Kids(p)' = Kids(p)
  BY <1>1 DEF Kids
<1>6. ASSUME NEW i \in 1 .. n PROVE Way(i)'
  <2>1. Way(i)
    BY <1>6 DEF Whole, n
  <2>2. \E r \in Seq(Names) :
            stack'[i].text = Text(operand'.lead, operand'.names \o r) /\ Len(r) = i - 1
    BY <1>4, <2>1 DEF Way
  <2>3. P(i)' \in DOMAIN tree'
    BY <1>1, <1>4, <2>1 DEF Way
  <2>4. CASE i < n
    <3>1. stack'[i] = stack[i] /\ P(i + 1)' = P(i + 1)
      BY <1>3, <1>4, <2>4
    <3>2. Kids(P(i))' = Kids(P(i))
      BY <1>1, <1>4, <1>6 DEF Kids
    <3>3. /\ stack'[i].phase = "loop"
          /\ tree'[P(i)'] \in DirKinds
          /\ \A m \in Kids(P(i))' : m \in stack'[i].left \/ P(i + 1)' = Append(P(i)', m)
      BY <1>1, <1>4, <2>1, <2>4, <3>1, <3>2 DEF Way, n
    <3> QED
      BY <1>3, <2>2, <2>3, <2>4, <3>3 DEF Way
  <2>5. CASE i = n
    <3>1. stack[i] = top
      BY <2>5 DEF top, n
    <3>2. P(i) = q
      BY <3>1 DEF P
    <3>3. P(i)' = q
      BY <1>4, <3>2
    <3>4. q # Root /\ q \in DOMAIN tree
      BY <2>1, <3>2 DEF Way, TreeInv, Rooted
    <3>5. tree'[P(i)'] \in DirKinds
      BY <1>1, <3>3, <3>4 DEF IsDir
    <3>6. Kids(P(i))' = Kids(q)
      BY <1>1, <3>3 DEF Kids
    <3>7. \A m \in Kids(P(i))' : m \in stack'[i].left
      BY <1>2, <1>3, <2>5, <3>6
    <3>8. ~(i < Len(stack'))
      BY <1>3, <2>5
    <3> QED
      BY <2>2, <2>3, <3>5, <3>7, <3>8 DEF Way
  <2> QED
    BY <1>3, <2>4, <2>5
<1> QED
  BY <1>1, <1>3, <1>6, WholeKept

\* What is behind a prefix.
LEMMA RestOf ==
    ASSUME NEW S, NEW s \in Seq(S), NEW r \in Seq(S), r # <<>>
    PROVE  SubSeq(s \o r, Len(s) + 1, Len(s \o r)) = r
<1>1. /\ Len(s) \in Nat /\ Len(r) \in Nat \ {0} /\ Len(s \o r) = Len(s) + Len(r)
  BY EmptySeq, LenProperties, ConcatProperties
<1>2. Len(s) + 1 \in Len(s) + 1 .. Len(s) + Len(r) /\ Len(s) + Len(r) \in Len(s) + 1 .. Len(s) + Len(r)
  BY <1>1
<1>3. SubSeq(s \o r, Len(s) + 1, Len(s) + Len(r))
      = SubSeq(r, Len(s) + 1 - Len(s), Len(s) + Len(r) - Len(s))
  BY <1>2, SubSeqOfConcat2
<1>4. Len(s) + 1 - Len(s) = 1 /\ Len(s) + Len(r) - Len(s) = Len(r)
  BY <1>1
<1> QED
  BY <1>1, <1>3, <1>4, SubSeqFull

\* The names of an entry that is read are those of its directory and its own.
LEMMA AppendPlace ==
    ASSUME TreeInv, operand \in Typed, NEW r \in Seq(Names), NEW n \in Names, NEW t,
           t = Text(operand.lead, operand.names \o r)
    PROVE  /\ Append(r, n) \in Seq(Names) /\ Len(Append(r, n)) = Len(r) + 1
           /\ Append(r, n) # <<>>
           /\ Append(t.names, n) = operand.names \o Append(r, n)
           /\ Append(Place(t), n) = Place(operand) \o Append(r, n)
<1>1. /\ t.names = operand.names \o r /\ Place(t) = Place(operand) \o r
      /\ Place(operand) \in Seq(Names) /\ operand.names \in Seq(Names)
  BY PlaceOf, TypedNames
<1>2. Append(r, n) \in Seq(Names) /\ Len(Append(r, n)) = Len(r) + 1
      /\ Append(r, n) = r \o <<n>> /\ <<n>> \in Seq(Names)
  BY AppendProperties, AppendIsConcat
<1>3. Append(r, n) # <<>>
  <2>1. Len(r) \in Nat
    BY LenProperties
  <2> QED
    BY <1>2, <2>1, EmptySeq
<1>4. ASSUME NEW s \in Seq(Names) PROVE Append(s \o r, n) = s \o Append(r, n)
  <2>1. s \o r \in Seq(Names)
    BY ConcatProperties
  <2>2. Append(s \o r, n) = (s \o r) \o <<n>>
    BY <2>1, AppendIsConcat
  <2>3. (s \o r) \o <<n>> = s \o (r \o <<n>>)
    BY <1>2, ConcatAssociative
  <2> QED
    BY <1>2, <2>2, <2>3
<1>5. /\ Append(operand.names \o r, n) = operand.names \o Append(r, n)
      /\ Append(Place(operand) \o r, n) = Place(operand) \o Append(r, n)
  BY <1>1, <1>4
<1>6. Append(t.names, n) = operand.names \o Append(r, n)
  BY <1>1, <1>5, Zenon
<1>7. Append(Place(t), n) = Place(operand) \o Append(r, n)
  BY <1>1, <1>5, Zenon
<1> QED
  BY <1>2, <1>3, <1>6, <1>7

\* join_path cuts nothing as long as every path below the operand fits.
LEMMA NotCut ==
    ASSUME TreeInv, StackInv, CallsOK, Whole, stack # <<>>, ~Reason(operand),
           NEW n \in Kids(Place(top.text))
    PROVE  /\ \E r \in Seq(Names) :
                 /\ JoinPath(top.text, n) = Text(operand.lead, operand.names \o r)
                 /\ Len(r) = Len(stack)
           /\ Place(JoinPath(top.text, n)) = Append(Place(top.text), n)
           /\ Append(Place(top.text), n) \in DOMAIN tree
<1> DEFINE t == top.text
           q == Place(t)
           x == Text(t.lead, Append(t.names, n))
           d == Place(operand)
<1>1. n \in Names /\ Append(q, n) \in DOMAIN tree
  BY DEF Kids
<1>2. Len(stack) \in Nat \ {0} /\ Len(stack) \in 1 .. Len(stack) /\ operand \in Typed
  BY StackTop
<1>3. PICK r \in Seq(Names) :
          t = Text(operand.lead, operand.names \o r) /\ Len(r) = Len(stack) - 1
  BY <1>2 DEF Whole, Way, top
<1> HIDE DEF t
<1>4. PICK e \in Seq(Names) : e = Append(r, n)
  BY <1>1, AppendProperties
<1>5. /\ Len(e) = Len(r) + 1 /\ e # <<>>
      /\ Append(t.names, n) = operand.names \o e /\ Append(q, n) = d \o e
  BY <1>1, <1>2, <1>3, <1>4, AppendPlace
<1>6. t.lead = operand.lead
  BY <1>3 DEF Text
<1>7. x = Text(operand.lead, operand.names \o e)
  BY <1>5, <1>6
<1> HIDE DEF x
<1>8. d \in Seq(Names) /\ Place(x) = d \o e /\ Under(d, Place(x))
  BY <1>2, <1>7, PlaceOf
<1>9. Place(x) = Append(q, n) /\ Place(x) \in DOMAIN start
  BY <1>1, <1>5, <1>8 DEF Whole
<1>10. SubSeq(Place(x), Len(d) + 1, Len(Place(x))) = e
  <2>1. SubSeq(d \o e, Len(d) + 1, Len(d \o e)) = e
    BY <1>5, <1>8, RestOf
  <2> QED
    BY <1>8, <2>1, Zenon
<1>11. ~(MaxPath < Width(x))
  <2>1. ~(MaxPath < Width(Text(operand.lead, operand.names \o
                              SubSeq(Place(x), Len(d) + 1, Len(Place(x))))))
    BY <1>8, <1>9, Zenon DEF Reason, PathTo
  <2> QED
    BY <1>7, <1>10, <2>1, Zenon
<1>12. IsPath(t) /\ Len(n) \in Nat \ {0} /\ SubSeq(n, 1, Len(n)) = n
  BY <1>1, NameIs, TopFrame DEF FrameOK, t
<1>13. Width(x) = Width(t) + Len(n) + 1
  BY <1>1, <1>12, CutIs, WidthAppend DEF x
<1>14. Width(t) \in Int /\ MaxPath \in Nat
  BY <1>12, WidthInt, FileAssumption
<1> DEFINE room == MaxPath - Width(t) - 1
           k == IF Len(n) < room THEN Len(n) ELSE room
<1>15. ~(room < 1) /\ k = Len(n)
  BY <1>11, <1>12, <1>13, <1>14
<1>16. JoinPath(t, n) = Text(t.lead, Append(t.names, SubSeq(n, 1, k)))
  BY <1>15 DEF JoinPath, Joined
<1>17. JoinPath(t, n) = x
  BY <1>12, <1>15, <1>16 DEF x
<1>18. Len(e) = Len(stack)
  BY <1>2, <1>3, <1>5
<1> QED
  BY <1>1, <1>7, <1>9, <1>17, <1>18, Zenon DEF t

\* f_readdir: what is left is still to be read, and the call is at the rest.
LEMMA ReadWhole ==
    ASSUME TreeInv, StackInv, CallsOK, Whole, stack # <<>>, ~Reason(operand),
           ReadEntry, ~overrun', UNCHANGED operand
    PROVE  Whole'
<1>1. top.phase = "loop" /\ UNCHANGED <<tree, cwd, start>>
  BY DEF ReadEntry
<1>2. PICK n \in Left :
          IF Len(stack) = StackFrames
          THEN overrun' = TRUE /\ UNCHANGED stack
          ELSE /\ stack' = Append(Append(Front(stack), Frame(top.text, "loop", Left \ {n})),
                                  Frame(JoinPath(top.text, n), "stat", {}))
               /\ UNCHANGED overrun
  BY DEF ReadEntry
<1>0. PICK c : c = Len(stack)
  OBVIOUS
<1> DEFINE q == Place(top.text)
           j == JoinPath(top.text, n)
           f == Frame(top.text, "loop", Left \ {n})
           e == Frame(j, "stat", {})
<1>3. f.text = top.text /\ f.phase = "loop" /\ f.left = Left \ {n} /\ e.text = j /\ e.phase = "stat"
  BY DEF Frame
<1>4. n \in Kids(q)
  BY DEF Left
<1>5. /\ \E r \in Seq(Names) : j = Text(operand.lead, operand.names \o r) /\ Len(r) = c
      /\ Place(j) = Append(q, n) /\ Append(q, n) \in DOMAIN tree
  BY <1>0, <1>4, NotCut
<1> HIDE DEF f, e, j, q
<1>6. /\ c \in Nat \ {0} /\ Len(stack') = c + 1 /\ stack'[c] = f /\ stack'[c + 1] = e
      /\ \A i \in 1 .. c - 1 : stack'[i] = stack[i]
  <2>1. PICK u : u = stack'
    OBVIOUS
  <2>2. u = Pushed(f, e)
    BY <1>2, <2>1 DEF Pushed, f, e, j
  <2>3. /\ c \in Nat \ {0} /\ Len(u) = c + 1 /\ u[c] = f /\ u[c + 1] = e
        /\ \A i \in 1 .. c - 1 : u[i] = stack[i]
    BY <1>0, <2>2, Called
  <2> QED
    BY <2>1, <2>3, Zenon
<1>7. stack[c] = top
  BY <1>0 DEF top
<1>8. \A i \in 1 .. c : stack'[i].text = stack[i].text /\ P(i)' = P(i)
  <2>1. \A i \in 1 .. c : stack'[i].text = stack[i].text
    BY <1>3, <1>6, <1>7
  <2> QED
    BY <1>1, <2>1, NextPlace DEF P
<1>9. P(c + 1)' = Append(q, n)
  BY <1>1, <1>3, <1>5, <1>6, NextPlace
<1>10. ASSUME NEW i \in 1 .. c PROVE Way(i)'
  <2>1. Way(i)
    BY <1>0, <1>10 DEF Whole
  <2>2. \E r \in Seq(Names) :
            stack'[i].text = Text(operand'.lead, operand'.names \o r) /\ Len(r) = i - 1
    BY <1>8, <2>1 DEF Way
  <2>3. P(i)' \in DOMAIN tree'
    BY <1>1, <1>8, <2>1 DEF Way
  <2>4. Kids(P(i))' = Kids(P(i))
    BY <1>1, <1>8, <1>10 DEF Kids
  <2>5. CASE i < c
    <3>1. stack'[i] = stack[i] /\ P(i + 1)' = P(i + 1)
      BY <1>6, <1>8, <2>5
    <3>2. /\ stack'[i].phase = "loop"
          /\ tree'[P(i)'] \in DirKinds
          /\ \A m \in Kids(P(i))' : m \in stack'[i].left \/ P(i + 1)' = Append(P(i)', m)
      BY <1>0, <1>1, <1>8, <2>1, <2>4, <2>5, <3>1 DEF Way
    <3> QED
      BY <1>6, <2>2, <2>3, <2>5, <3>2 DEF Way
  <2>6. CASE i = c
    <3>1. stack[i] = top /\ stack'[i] = f
      BY <1>6, <1>7, <2>6
    <3>2. P(i) = q
      BY <3>1 DEF P, q
    <3>3. P(i + 1)' = Append(q, n)
      BY <1>9, <2>6
    <3>4. tree[q] \in DirKinds /\ \A m \in Kids(q) : m \in top.left
      BY <1>0, <1>1, <1>6, <2>1, <2>6, <3>1, <3>2 DEF Way
    <3>5. \A m \in Kids(q) : m \in Left
      BY <3>4 DEF Left, q
    <3>6. P(i)' = q /\ Kids(P(i))' = Kids(q)
      BY <1>8, <2>4, <3>2
    <3>7. /\ stack'[i].phase = "loop"
          /\ tree'[P(i)'] \in DirKinds
          /\ \A m \in Kids(P(i))' : m \in stack'[i].left \/ P(i + 1)' = Append(P(i)', m)
      BY <1>1, <1>3, <3>1, <3>3, <3>4, <3>5, <3>6
    <3>8. i < Len(stack')
      BY <1>6, <2>6
    <3> QED
      BY <2>2, <2>3, <3>7, <3>8, Zenon DEF Way
  <2> QED
    BY <1>6, <2>5, <2>6
<1>11. ASSUME NEW i, i = c + 1 PROVE Way(i)'
  <2>1. stack'[i] = e
    BY <1>6, <1>11
  <2>2. \E r \in Seq(Names) :
            stack'[i].text = Text(operand'.lead, operand'.names \o r) /\ Len(r) = i - 1
    <3>1. PICK r \in Seq(Names) : j = Text(operand.lead, operand.names \o r) /\ Len(r) = c
      BY <1>5
    <3>2. Len(r) = i - 1
      BY <1>6, <1>11, <3>1
    <3>3. stack'[i].text = Text(operand'.lead, operand'.names \o r)
      BY <1>3, <2>1, <3>1
    <3> QED
      BY <3>2, <3>3
  <2>3. P(i)' = Append(q, n)
    BY <1>9, <1>11
  <2>4. P(i)' \in DOMAIN tree'
    BY <1>1, <1>5, <2>3
  <2>5. stack'[i].phase # "loop" /\ ~(i < Len(stack'))
    BY <1>3, <1>6, <1>11, <2>1
  <2> QED
    BY <2>2, <2>4, <2>5, Zenon DEF Way
<1>12. \A i \in 1 .. Len(stack') : i \in 1 .. c \/ i = c + 1
  BY <1>6
<1>13. \A i \in 1 .. Len(stack') : Way(i)'
  BY <1>10, <1>11, <1>12
<1> QED
  BY <1>1, <1>13, WholeKept

\* A removal: what the caller was waiting for is not there any more.
LEMMA ReturnWhole ==
    ASSUME TreeInv, StackInv, Whole, stack # <<>>, UNCHANGED <<cwd, start, operand>>,
           tree' = Unlinked(top.text), ReturnOk
    PROVE  Whole'
<1> DEFINE c == Len(stack)
           q == Place(top.text)
<1>1. stack' = Front(stack)
  BY DEF ReturnOk
<1>2. /\ c \in Nat \ {0} /\ Len(stack') = c - 1
      /\ \A i \in 1 .. c - 1 : stack'[i] = stack[i]
  BY <1>1, StackTop
<1>3. /\ DOMAIN tree' = DOMAIN tree \ {q} /\ \A p \in DOMAIN tree' : tree'[p] = tree[p]
  BY DEF Unlinked
<1>4. c \in 1 .. Len(stack) /\ q = P(c)
  BY <1>2 DEF P, top
<1>5. Len(q) = Len(Place(operand)) + c - 1 /\ Len(Place(operand)) \in Nat
  BY <1>4, WayFacts, LenProperties
<1> HIDE DEF q
<1>6. \A i \in 1 .. c - 1 : P(i)' = P(i)
  BY <1>2, NextPlace DEF P
<1>7. ASSUME NEW i \in 1 .. c - 1 PROVE Way(i)'
  <2>1. i \in 1 .. Len(stack) /\ i < Len(stack) /\ Way(i)
    BY <1>2, <1>7 DEF Whole
  <2>2. Len(P(i)) = Len(Place(operand)) + i - 1 /\ P(i) \in DOMAIN tree
    BY <2>1, WayFacts
  <2>3. P(i) # q
    <3>1. Len(P(i)) # Len(q)
      BY <1>2, <1>5, <1>7, <2>2
    <3> QED
      BY <3>1
  <2>4. P(i)' \in DOMAIN tree' /\ tree'[P(i)'] = tree[P(i)]
    BY <1>3, <1>6, <2>2, <2>3
  <2>5. stack'[i] = stack[i]
    BY <1>2
  <2>6. \E r \in Seq(Names) :
            stack'[i].text = Text(operand'.lead, operand'.names \o r) /\ Len(r) = i - 1
    BY <2>1, <2>5 DEF Way
  <2>7. /\ stack'[i].phase = "loop" /\ tree'[P(i)'] \in DirKinds
        /\ \A m \in Kids(P(i)) : m \in stack[i].left \/ P(i + 1) = Append(P(i), m)
    BY <2>1, <2>4, <2>5 DEF Way
  <2>8. \A m \in Kids(P(i))' : m \in Kids(P(i)) /\ Append(P(i), m) # q
    BY <1>3, <1>6 DEF Kids
  <2>9. CASE i = c - 1
    <3>1. i + 1 = c
      BY <1>2, <2>9
    <3>2. P(i + 1) = q
      BY <1>4, <3>1, Zenon
    <3>3. \A m \in Kids(P(i))' : m \in stack'[i].left
      BY <2>5, <2>7, <2>8, <3>2
    <3> QED
      BY <2>4, <2>6, <2>7, <3>3, Zenon DEF Way
  <2>10. CASE i # c - 1
    <3>1. i < Len(stack') /\ P(i + 1)' = P(i + 1)
      BY <1>2, <1>6, <2>10
    <3>2. \A m \in Kids(P(i))' : m \in stack'[i].left \/ P(i + 1)' = Append(P(i)', m)
      BY <1>6, <2>5, <2>7, <2>8, <3>1
    <3> QED
      BY <2>4, <2>6, <2>7, <3>1, <3>2, Zenon DEF Way
  <2> QED
    BY <2>9, <2>10
<1>8. \A i \in 1 .. Len(stack') : Way(i)'
  BY <1>2, <1>7
<1> QED
  BY <1>3, <1>8, WholeKept

LEMMA NextFail ==
    ASSUME TreeInv, StackInv, CallsOK, ToldInv, FailInv, [Next]_vars
    PROVE  FailInv'
<1>1. CASE RemoveStep
  <2>1. stack # <<>> /\ ~overrun /\ UNCHANGED <<cwd, start, faults>>
    BY <1>1 DEF RemoveStep, NotFound, RemoveFile, OpenDir, ReadEntry, ReadFails,
                RemoveDir, Running
  <2>3. ASSUME NoReason' PROVE Whole'
    <3>1. stack' # <<>> /\ ~faults /\ ~overrun' /\ ~Reason(operand)'
      BY <2>1, <2>3 DEF NoReason
    <3>2. UNCHANGED operand
      BY <1>1, <2>1, <3>1, SameOperand
    <3>3. ~Reason(operand)
      BY <2>1, <3>1, <3>2, ReasonIs, Zenon
    <3>4. NoReason /\ Whole
      BY <2>1, <3>1, <3>3 DEF NoReason, FailInv
    <3>5. CASE OpenDir
      BY <2>1, <3>2, <3>4, <3>5, OpenWhole
    <3>6. CASE ReadEntry
      BY <2>1, <3>1, <3>2, <3>3, <3>4, <3>6, ReadWhole
    <3>7. CASE tree' = Unlinked(top.text) /\ ReturnOk
      BY <2>1, <3>2, <3>4, <3>7, ReturnWhole
    <3> QED
      BY <1>1, <3>4, <3>5, <3>6, <3>7, GoodStep
  <2>4. ASSUME result'.cmd = "rm_r", ~result'.ok, ~faults'
        PROVE  Reason(result.text)'
    <3>1. CASE Reason(operand)
      <4>1. result' # NoResult /\ result' # result
        BY <2>1, <2>4, Said DEF ToldInv
      <4>2. \E ok \in BOOLEAN : result' = Result("rm_r", operand, ok)
        BY <1>1, <4>1 DEF RemoveStep, NotFound, RemoveFile, OpenDir, ReadEntry, ReadFails,
                         RemoveDir, UnlinkTop, ReturnOk, ReturnError
      <4>3. result'.text = operand
        BY <4>2, Said
      <4> QED
        BY <2>1, <3>1, <4>3, ReasonIs, Zenon
    <3>2. CASE ~Reason(operand)
      <4>1. NoReason /\ Whole
        BY <2>1, <2>4, <3>2 DEF NoReason, FailInv
      <4>2. OpenDir \/ ReadEntry \/ ReturnOk
        BY <1>1, <4>1, GoodStep
      <4>3. result' = result \/ result' = NoResult \/ result' = Result("rm_r", operand, TRUE)
        BY <4>2 DEF OpenDir, ReadEntry, ReturnOk
      <4> QED
        <5>1. CASE result' = result \/ result' = NoResult
          BY <2>1, <2>4, <5>1, Said DEF ToldInv
        <5>2. CASE result' = Result("rm_r", operand, TRUE)
          <6>1. result'.ok = TRUE
            BY <5>2, Said, Zenon
          <6> QED
            BY <2>4, <6>1, Zenon
        <5> QED
          BY <4>3, <5>1, <5>2
    <3> QED
      BY <3>1, <3>2
  <2> QED
    BY <2>3, <2>4 DEF FailInv, FailureExplained
<1>2. ASSUME NEW t \in Typed, MakeDir(t) \/ MakeFile(t) \/ Cd(t) \/ RmFile(t)
      PROVE  FailInv'
  <2>1. stack' = <<>>
    BY <1>2 DEF MakeDir, MakeFile, Make, Cd, RmFile, Prompt
  <2>2. result' = NoResult \/ \E ok \in BOOLEAN : result' = Result("rm", t, ok)
    BY <1>2 DEF MakeDir, MakeFile, Make, Cd, RmFile
  <2>3. result'.cmd # "rm_r"
    BY <2>2, Said
  <2> QED
    BY <2>1, <2>3 DEF FailInv, FailureExplained, NoReason
<1>3. ASSUME NEW t \in Typed, RmRecursive(t) PROVE FailInv'
  <2>1. result'.cmd # "rm_r"
    BY <1>3, Said DEF RmRecursive
  <2>2. NoReason' => Whole'
    BY <1>3, StartWhole
  <2> QED
    BY <2>1, <2>2 DEF FailInv, FailureExplained
<1>4. CASE UNCHANGED vars
  <2>1. UNCHANGED <<tree, cwd, stack, overrun, start, result, faults, operand>>
    BY <1>4 DEF vars, operand
  <2>2. (Reason(operand)' <=> Reason(operand)) /\ (Reason(result.text)' <=> Reason(result.text))
    BY <2>1, ReasonIs, Zenon
  <2>3. NoReason' => NoReason
    BY <2>1, <2>2 DEF NoReason
  <2>4. FailureExplained'
    BY <2>1, <2>2 DEF FailInv, FailureExplained
  <2>5. ASSUME Whole PROVE Whole'
    <3>1. \A i \in 1 .. Len(stack) : Way(i)'
      <4>1. \A i : P(i)' = P(i) /\ Kids(P(i))' = Kids(P(i))
        BY <2>1, Zenon DEF P, Place, Origin, Kids
      <4> SUFFICES ASSUME NEW i \in 1 .. Len(stack) PROVE Way(i)'
        OBVIOUS
      <4>2. Way(i)
        BY <2>5 DEF Whole
      <4>3. P(i)' = P(i) /\ P(i + 1)' = P(i + 1) /\ Kids(P(i))' = Kids(P(i))
        BY <4>1
      <4> QED
        BY <2>1, <4>2, <4>3 DEF Way
    <3> QED
      BY <2>1, <2>5, <3>1, WholeKept
  <2> QED
    BY <2>3, <2>4, <2>5 DEF FailInv
<1> QED
  BY <1>1, <1>2, <1>3, <1>4 DEF Next, Commands

\* For all names, trees, buffers and stacks: with a disk that does not fail,
\* rm -r says that it failed only for an operand that is missing or "." or
\* "..", a read-only file, the current directory, or a path longer than
\* subpath[] (rm_recursive, fshelpers.c:174).
THEOREM FailuresExplained == Spec => []FailureExplained
<1> DEFINE Inv == TreeInv /\ StackInv /\ CallsOK /\ ToldInv /\ FailInv
<1>1. Init => Inv
  <2>1. Init => ToldInv
    BY InitTold
  <2>2. Init => FailInv
    BY Said DEF Init, FailInv, FailureExplained, NoReason
  <2> QED
    BY <2>1, <2>2, InitTree, InitStack, InitCalls
<1>2. Inv /\ [Next]_vars => Inv'
  BY NextTree, NextStack, NextCalls, NextTold, NextFail
<1>3. Inv => FailureExplained
  BY DEF FailInv
<1> QED
  BY <1>1, <1>2, <1>3, PTL DEF Spec

(***************************************************************************)
(* The invariant.  While fs_init runs nothing has been written; the disk   *)
(* it will offer to format is one on which it saw that no volume is.  A    *)
(* table differs from the one before only when f_mkfs ended its work.      *)
(***************************************************************************)
Starting   == pc \in {"initialize", "mount", "choose"}
Formatting == pc \in {"ask", "mkfs", "vbr", "fat", "mbr", "sync", "remount"}

MayFormat(d) == d \in misread \/ Usable(before[d]) \cap {"fat", "half"} = {}

First == [ready : Drives \cup {-1}, mounted : Drives \cup {-1}, error : Results \ {"OK"}]

Types ==
    /\ disk \in [Drives -> Disk] /\ before \in [Drives -> Disk]
    /\ old \in [Drives -> Tables]
    /\ status \in [Drives -> BOOLEAN] /\ probed \in BOOLEAN
    /\ registered \subseteq Drives
    /\ mounted \in [Drives -> Places \cup {SectorZero, NoPlace}]
    /\ curr \in Drives /\ active \in Drives /\ vol \in Drives
    /\ first \in First /\ fs_result \in Results

DiskInv   == \A d \in Drives : disk[d].table # NoParts => disk[d].zero = "other"
ProbeInv  == ~probed => \A d \in Ahci : ~status[d]
LoopInv   ==
    pc \in {"initialize", "mount"} => \A d \in Drives : d >= vol => mounted[d] = NoPlace
FirstInv  ==
    Starting =>
        /\ disk = before
        /\ first.mounted >= 0 =>
              first.mounted \in registered /\ mounted[first.mounted] # NoPlace
        /\ pc = "initialize" => first.ready < vol
        /\ pc = "mount" => first.ready <= vol
        /\ first.mounted < 0 /\ first.error = "NO_FILESYSTEM" =>
              \A d \in Drives : d = first.ready /\ (d < vol \/ pc = "choose") => MayFormat(d)
FormatInv ==
    Formatting =>
        /\ fs_result = "NO_FILESYSTEM"
        /\ \A d \in Drives : d = active =>
              /\ MayFormat(d)
              /\ pc \in {"vbr", "fat", "mbr", "sync", "remount"} => mounted[d] = NoPlace
              /\ pc \in {"vbr", "fat", "mbr"} => old[d] = disk[d].table
              /\ pc = "mbr" => disk[d].at[Track] = "fat"
TableInv  ==
    \A d \in Drives : disk[d].table # old[d] =>
        Parted(disk[d]) = {Track} /\ disk[d].at[Track] # "half"
MountInv  == \A d \in Drives : mounted[d] \in Places => mounted[d] \in Parted(disk[d])

Inv ==
    /\ Types /\ DiskInv /\ ProbeInv /\ LoopInv /\ FirstInv /\ FormatInv
    /\ TableInv /\ MountInv /\ DataKept /\ MountedIsReady /\ CurrentIsMounted

(***************************************************************************)
(* Reading a disk.                                                         *)
(***************************************************************************)
\* What check_fs makes of a sector it can read.
LEMMA CheckFs ==
    ASSUME Types, NEW d \in Drives, NEW lost, NEW s \in Places \cup {SectorZero, NoPlace}
    PROVE  /\ check_fs(d, s, lost) = "FAT" => s # NoPlace /\ Holds(d, s) \in {"fat", "half", "bad"}
           /\ check_fs(d, s, lost) = "not_FAT" => s # NoPlace /\ Holds(d, s) = "other"
           /\ s # NoPlace /\ s \notin lost /\ Holds(d, s) \in {"fat", "half"} =>
                 check_fs(d, s, lost) = "FAT"
           /\ check_fs(d, s, lost) = "not_BS" => s = NoPlace \/ Holds(d, s) = "blank"
<1>1. disk[d] \in Disk
  BY DEF Types
<1>2. SectorZero # NoPlace /\ NoPlace \notin Places
  BY VolumesAssumption
<1>3. s # NoPlace => Holds(d, s) \in SectorKinds
  BY <1>1 DEF Holds, Disk
<1>4. check_fs(d, NoPlace, lost) = "not_BS"
  BY DEF check_fs
<1>5. CASE s = NoPlace
  BY <1>2, <1>4, <1>5
<1>6. CASE s # NoPlace /\ s \in lost
  <2>1. check_fs(d, s, lost) = "disk_error"
    BY <1>6 DEF check_fs
  <2> QED
    BY <1>6, <2>1
<1>7. CASE s # NoPlace /\ s \notin lost
  <2>1. CASE Holds(d, s) \in {"fat", "half", "bad"}
    <3>1. check_fs(d, s, lost) = "FAT"
      BY <1>7, <2>1 DEF check_fs, Holds
    <3> QED
      BY <1>7, <2>1, <3>1
  <2>2. CASE Holds(d, s) = "other"
    <3>1. check_fs(d, s, lost) = "not_FAT"
      BY <1>7, <2>2 DEF check_fs, Holds
    <3> QED
      BY <1>7, <2>2, <3>1
  <2>3. CASE Holds(d, s) = "blank"
    <3>1. check_fs(d, s, lost) = "not_BS"
      BY <1>7, <2>3 DEF check_fs, Holds
    <3> QED
      BY <1>7, <2>3, <3>1
  <2> QED
    BY <1>3, <1>7, <2>1, <2>2, <2>3 DEF SectorKinds
<1> QED
  BY <1>5, <1>6, <1>7

\* The entry find_volume stops at is one of the table.
LEMMA FindVolume ==
    ASSUME Types, NEW d \in Drives, NEW lost, NEW found, found = find_volume(d, lost)
    PROVE  /\ found.bsect \in Places \cup {SectorZero, NoPlace}
           /\ found.bsect \in Places => found.bsect \in Parted(disk[d])
           /\ found.fmt = "FAT" => found.bsect # NoPlace
<1> DEFINE table   == disk[d].table
           scanned == [i \in 1 .. Parts |-> check_fs(d, table[i], lost)]
           zero    == check_fs(d, SectorZero, lost)
           isFat   == {i \in 1 .. Parts :
                          scanned[i] = "FAT" /\ \A j \in 1 .. i - 1 : scanned[j] # "FAT"}
           stop    == IF isFat = {} THEN Parts ELSE CHOOSE i \in isFat : TRUE
<1>1. table \in Tables
  BY DEF Types, Disk
<1>2. stop \in 1 .. Parts
  <2>1. Parts \in 1 .. Parts
    BY VolumesAssumption
  <2>2. isFat # {} => (CHOOSE i \in isFat : TRUE) \in 1 .. Parts
    OBVIOUS
  <2> QED
    BY <2>1, <2>2
<1>3. found = IF zero # "not_FAT" THEN [fmt |-> zero, bsect |-> SectorZero]
                                  ELSE [fmt |-> scanned[stop], bsect |-> table[stop]]
  BY DEF find_volume
<1> HIDE DEF stop, isFat
<1>4. table[stop] \in Places \cup {NoPlace}
  BY <1>1, <1>2 DEF Tables
<1>5. table[stop] \in Places => table[stop] \in Parted(disk[d])
  <2>1. table[stop] # NoPlace <=> table[stop] \in Places
    BY <1>4, VolumesAssumption
  <2> QED
    BY <1>2, <2>1 DEF Parted
<1>6. scanned[stop] = "FAT" => table[stop] # NoPlace
  <2>1. scanned[stop] = check_fs(d, table[stop], lost)
    BY <1>2
  <2> QED
    BY <1>4, <2>1, CheckFs
<1> HIDE DEF table, scanned, zero
<1>7. SectorZero \notin Places \cup {NoPlace}
  BY VolumesAssumption
<1>8. CASE zero # "not_FAT"
  BY <1>3, <1>7, <1>8
<1>9. CASE zero = "not_FAT"
  <2>1. found.fmt = scanned[stop] /\ found.bsect = table[stop]
    BY <1>3, <1>9
  <2> QED
    BY <1>4, <1>5, <1>6, <2>1
<1> QED
  BY <1>8, <1>9

\* When every partition can be read and one of them is a FAT volume, such a one is found.
LEMMA FoundIfThere ==
    ASSUME Types, NEW d \in Drives, NEW lost,
           check_fs(d, SectorZero, lost) = "not_FAT",
           ~Misread(d, lost),
           NEW p \in Parted(disk[d]), disk[d].at[p] \in {"fat", "half"}
    PROVE  Outcome(d, find_volume(d, lost)) = "OK"
<1> DEFINE table   == disk[d].table
           scanned == [i \in 1 .. Parts |-> check_fs(d, table[i], lost)]
           isFat   == {i \in 1 .. Parts :
                          scanned[i] = "FAT" /\ \A j \in 1 .. i - 1 : scanned[j] # "FAT"}
           stop    == IF isFat = {} THEN Parts ELSE CHOOSE i \in isFat : TRUE
           fats    == {i \in 1 .. Parts : scanned[i] = "FAT"}
<1>1. table \in Tables /\ Parts \in Nat /\ SectorZero \notin Places /\ NoPlace \notin Places
  BY VolumesAssumption DEF Types, Disk
<1>2. \A q \in Parted(disk[d]) :
         q \in Places /\ q \notin lost /\ disk[d].at[q] # "bad" /\ Holds(d, q) = disk[d].at[q]
  <2> SUFFICES ASSUME NEW q \in Parted(disk[d])
               PROVE  q \in Places /\ q \notin lost /\ disk[d].at[q] # "bad"
                      /\ Holds(d, q) = disk[d].at[q]
    OBVIOUS
  <2>1. q \in Places
    BY <1>1 DEF Parted, Tables
  <2> QED
    BY <1>1, <2>1 DEF Misread, Holds
<1>3. fats # {}
  <2>1. PICK i \in 1 .. Parts : table[i] = p
    BY DEF Parted
  <2>2. p \in Places /\ p \notin lost /\ p # NoPlace /\ Holds(d, p) \in {"fat", "half"}
    BY <1>1, <1>2
  <2>3. check_fs(d, p, lost) = "FAT"
    BY <2>2, CheckFs
  <2>4. scanned[i] = "FAT"
    BY <2>1, <2>3
  <2> QED
    BY <2>4
<1>4. PICK m \in fats : \A k \in fats : m <= k
  <2>1. fats \in SUBSET Nat
    <3>1. fats \subseteq 1 .. Parts
      OBVIOUS
    <3> HIDE DEF fats
    <3> QED
      BY <1>1, <3>1
  <2> HIDE DEF fats
  <2> QED
    BY <1>3, <2>1, LeastNat
<1>5. m \in isFat
  <2>1. m \in 1 .. Parts /\ scanned[m] = "FAT"
    OBVIOUS
  <2>2. ASSUME NEW j \in 1 .. m - 1 PROVE scanned[j] # "FAT"
    <3>1. j \in 1 .. Parts /\ ~(m <= j)
      BY <1>1, <2>1
    <3>2. j \notin fats
      <4> HIDE DEF fats
      <4> QED
        BY <1>4, <3>1
    <3> QED
      BY <3>1, <3>2
  <2> QED
    BY <2>1, <2>2
<1>6. stop \in 1 .. Parts /\ scanned[stop] = "FAT"
  <2>1. stop \in isFat
    <3> HIDE DEF isFat
    <3> QED
      BY <1>5
  <2> QED
    BY <2>1
<1>7. find_volume(d, lost) = [fmt |-> scanned[stop], bsect |-> table[stop]]
  BY DEF find_volume
<1> HIDE DEF stop, isFat, fats
<1>8. table[stop] \in Parted(disk[d])
  <2>1. table[stop] \in Places \cup {NoPlace} /\ scanned[stop] = check_fs(d, table[stop], lost)
    BY <1>1, <1>6 DEF Tables
  <2>2. table[stop] # NoPlace
    BY <1>6, <2>1, CheckFs
  <2> QED
    BY <1>6, <2>2 DEF Parted
<1> HIDE DEF table, scanned
<1>9. /\ find_volume(d, lost).fmt = "FAT"
      /\ find_volume(d, lost).bsect \in Parted(disk[d])
  BY <1>6, <1>7, <1>8
<1>10. Holds(d, find_volume(d, lost).bsect) # "bad"
  BY <1>2, <1>9
<1> QED
  BY <1>9, <1>10 DEF Outcome

\* A disk on which no filesystem is found holds none, or was not read well.
LEMMA NoFilesystem ==
    ASSUME Types, DiskInv, NEW d \in Drives, NEW lost,
           Outcome(d, find_volume(d, lost)) = "NO_FILESYSTEM"
    PROVE  Misread(d, lost) \/ Usable(disk[d]) \cap {"fat", "half"} = {}
<1> DEFINE zero == check_fs(d, SectorZero, lost)
<1>1. disk[d] \in Disk
  BY DEF Types
<1>2. CASE zero = "not_FAT"
  <2>1. disk[d].zero = "other"
    BY <1>2, CheckFs DEF Holds
  <2>2. Misread(d, lost) \/ \A p \in Parted(disk[d]) : disk[d].at[p] \notin {"fat", "half"}
    BY <1>2, FoundIfThere
  <2> QED
    BY <2>1, <2>2 DEF Usable
<1>3. CASE zero # "not_FAT"
  <2>1. find_volume(d, lost) = [fmt |-> zero, bsect |-> SectorZero]
    BY <1>3 DEF find_volume
  <2>2. Holds(d, SectorZero) = disk[d].zero
    BY DEF Holds
  <2>3. disk[d].zero \in {"blank", "bad"}
    <3>1. SectorZero # NoPlace
      BY VolumesAssumption
    <3>2. CASE zero = "FAT"
      BY <2>1, <2>2, <3>2 DEF Outcome
    <3>3. CASE zero = "not_BS"
      BY <2>2, <3>1, <3>3, CheckFs
    <3>4. zero # "disk_error"
      BY <2>1 DEF Outcome
    <3>5. zero \in {"not_BS", "disk_error", "FAT", "not_FAT"}
      BY DEF check_fs
    <3> QED
      BY <1>3, <3>2, <3>3, <3>4, <3>5
  <2>4. disk[d].table = NoParts
    BY <2>3 DEF DiskInv
  <2>5. Parted(disk[d]) = {}
    BY <2>4 DEF Parted, NoParts
  <2> QED
    BY <2>3, <2>5 DEF Usable
<1> QED
  BY <1>2, <1>3

----------------------------------------------------------------------------
(* Initialising a disk leaves every other disk that was ready as it was. *)
LEMMA Initialize ==
    ASSUME Types, ProbeInv, NEW d \in Drives, disk_initialize(d)
    PROVE  /\ status' \in [Drives -> BOOLEAN] /\ probed' \in BOOLEAN /\ ProbeInv'
           /\ \A x \in Drives : x # d /\ status[x] => status'[x]
           /\ status'[d] \in BOOLEAN
<1>1. CASE d \notin Ahci
  <2>1. PICK ok \in BOOLEAN : status' = [status EXCEPT ![d] = ok]
    BY <1>1 DEF disk_initialize, Initialized
  <2>2. probed' = probed
    BY <1>1 DEF disk_initialize, Types
  <2> QED
    BY <1>1, <2>1, <2>2 DEF Types, ProbeInv, Ahci
<1>2. CASE d \in Ahci /\ ~probed
  <2>1. PICK n \in 0 .. Cardinality(Ahci) :
           status' = [x \in Drives |-> IF x \in Ahci THEN x - FirstAhci < n ELSE status[x]]
    BY <1>2 DEF disk_initialize, Initialized
  <2>2. probed'
    BY <1>2 DEF disk_initialize
  <2> DEFINE now == [x \in Drives |-> IF x \in Ahci THEN x - FirstAhci < n ELSE status[x]]
  <2>3. now \in [Drives -> BOOLEAN]
    <3>1. \A x \in Drives : status[x] \in BOOLEAN
      BY DEF Types
    <3>2. ASSUME NEW x \in Drives
          PROVE  (IF x \in Ahci THEN x - FirstAhci < n ELSE status[x]) \in BOOLEAN
      <4>1. CASE x \in Ahci
        <5>1. (x - FirstAhci < n) \in BOOLEAN
          OBVIOUS
        <5> QED
          BY <4>1, <5>1
      <4>2. CASE x \notin Ahci
        BY <3>1, <4>2
      <4> QED
        BY <4>1, <4>2
    <3> QED
      BY <3>2
  <2>4. \A x \in Drives : x # d /\ status[x] => status'[x]
    BY <1>2, <2>1 DEF ProbeInv
  <2> QED
    BY <2>1, <2>2, <2>3, <2>4 DEF ProbeInv
<1>3. CASE d \in Ahci /\ probed
  <2>1. status' = status /\ probed'
    BY <1>3 DEF disk_initialize, Initialized
  <2> QED
    BY <2>1 DEF Types, ProbeInv
<1> QED
  BY <1>1, <1>2, <1>3 DEF Types

\* What an attempt to mount volume v may do, and what its result tells.
LEMMA AttemptFacts ==
    ASSUME Types, DiskInv, ProbeInv, MountedIsReady,
           NEW v \in Drives, NEW res, Attempt(v, res), disk' = disk
    PROVE  /\ status' \in [Drives -> BOOLEAN] /\ probed' \in BOOLEAN /\ ProbeInv'
           /\ MountedIsReady'
           /\ mounted' \in [Drives -> Places \cup {SectorZero, NoPlace}]
           /\ \A x \in Drives : x # v => mounted'[x] = mounted[x]
           /\ mounted'[v] \in Places => mounted'[v] \in Parted(disk[v])
           /\ res = "OK" => mounted'[v] # NoPlace
           /\ misread \subseteq misread'
           /\ res = "NO_FILESYSTEM" =>
                 v \in misread' \/ Usable(disk[v]) \cap {"fat", "half"} = {}
<1>1. /\ status' \in [Drives -> BOOLEAN] /\ probed' \in BOOLEAN /\ ProbeInv'
      /\ \A x \in Drives : x # v /\ status[x] => status'[x]
  BY Initialize DEF Attempt
<1>2. CASE /\ ~status'[v] /\ res = "NOT_READY"
           /\ mounted' = [mounted EXCEPT ![v] = NoPlace]
           /\ UNCHANGED misread
  <2>1. /\ mounted' \in [Drives -> Places \cup {SectorZero, NoPlace}]
        /\ mounted'[v] = NoPlace
        /\ \A x \in Drives : x # v => mounted'[x] = mounted[x]
    BY <1>2 DEF Types
  <2>2. MountedIsReady'
    BY <1>1, <2>1 DEF MountedIsReady
  <2> QED
    BY <1>1, <1>2, <2>1, <2>2, VolumesAssumption
<1>3. ASSUME status'[v], NEW lost, NEW found, found = find_volume(v, lost),
             res = Outcome(v, found),
             mounted' = [mounted EXCEPT ![v] = IF res = "OK" THEN found.bsect ELSE NoPlace],
             misread' = IF Misread(v, lost) THEN misread \cup {v} ELSE misread
      PROVE  /\ MountedIsReady'
             /\ mounted' \in [Drives -> Places \cup {SectorZero, NoPlace}]
             /\ \A x \in Drives : x # v => mounted'[x] = mounted[x]
             /\ mounted'[v] \in Places => mounted'[v] \in Parted(disk[v])
             /\ res = "OK" => mounted'[v] # NoPlace
             /\ misread \subseteq misread'
             /\ res = "NO_FILESYSTEM" =>
                   v \in misread' \/ Usable(disk[v]) \cap {"fat", "half"} = {}
  <2>1. /\ found.bsect \in Places \cup {SectorZero, NoPlace}
        /\ found.bsect \in Places => found.bsect \in Parted(disk[v])
        /\ found.fmt = "FAT" => found.bsect # NoPlace
    BY <1>3, FindVolume
  <2>2. res = "OK" => found.fmt = "FAT"
    BY <1>3 DEF Outcome
  <2>3. res = "NO_FILESYSTEM" => v \in misread' \/ Usable(disk[v]) \cap {"fat", "half"} = {}
    BY <1>3, NoFilesystem
  <2>4. mounted'[v] = IF res = "OK" THEN found.bsect ELSE NoPlace
    BY <1>3 DEF Types
  <2>5. \A x \in Drives : x # v => mounted'[x] = mounted[x]
    BY <1>3 DEF Types
  <2>6. mounted' \in [Drives -> Places \cup {SectorZero, NoPlace}]
    BY <1>3, <2>1 DEF Types
  <2>7. MountedIsReady'
    BY <1>1, <1>3, <2>5 DEF MountedIsReady
  <2>8. NoPlace \notin Places
    BY VolumesAssumption
  <2> QED
    BY <1>3, <2>1, <2>2, <2>3, <2>4, <2>5, <2>6, <2>7, <2>8
<1> QED
  BY <1>1, <1>2, <1>3 DEF Attempt

----------------------------------------------------------------------------
(* One lemma for each action. *)
LEMMA InitInv == VolumesInit => Inv
<1> SUFFICES ASSUME VolumesInit PROVE Inv
  OBVIOUS
<1>1. 0 \in Drives /\ Layouts \subseteq Disk
  BY VolumesAssumption DEF Drives
<1>2. disk \in [Drives -> Disk] /\ before = disk
  BY <1>1 DEF VolumesInit
<1>3. Types
  <2>1. old \in [Drives -> Tables]
    BY <1>2 DEF VolumesInit, Disk
  <2>2. first \in First /\ fs_result \in Results
    BY DEF VolumesInit, First, Start, Results
  <2> QED
    BY <1>1, <1>2, <2>1, <2>2 DEF Types, VolumesInit, Down, None
<1>4. DiskInv
  <2>1. \A d \in Drives : disk[d] \in Layouts
    BY DEF VolumesInit
  <2> QED
    BY <2>1, VolumesAssumption DEF DiskInv
<1>5. TableInv
  BY <1>2 DEF TableInv, VolumesInit
<1>6. ProbeInv /\ LoopInv /\ FormatInv /\ CurrentIsMounted
  BY DEF VolumesInit, ProbeInv, LoopInv, FormatInv, Formatting, CurrentIsMounted, Down, None, Ahci
<1>7. FirstInv
  BY DEF FirstInv, VolumesInit, Start, Starting, Drives
<1>8. MountInv /\ MountedIsReady /\ DataKept
  <2>1. \A d \in Drives : mounted[d] = NoPlace
    BY DEF VolumesInit, None
  <2> QED
    BY <1>2, <2>1, VolumesAssumption DEF MountInv, MountedIsReady, DataKept
<1> QED
  BY <1>3, <1>4, <1>5, <1>6, <1>7, <1>8 DEF Inv

\* A step that writes nothing keeps what is known of the disks.
LEMMA DisksKept ==
    ASSUME DiskInv, TableInv, DataKept, UNCHANGED <<disk, before, old>>,
           misread \subseteq misread'
    PROVE  DiskInv' /\ TableInv' /\ DataKept'
<1>1. DiskInv' /\ TableInv'
  BY DEF DiskInv, TableInv, Parted
<1>2. DataKept'
  BY DEF DataKept, Usable, Parted
<1> QED
  BY <1>1, <1>2

LEMMA NextVolumeFacts ==
    ASSUME vol \in Drives, NextVolume
    PROVE  /\ vol' \in Drives
           /\ \/ pc' = "initialize" /\ vol' = vol + 1
              \/ pc' = "choose" /\ \A d \in Drives : d <= vol
  BY VolumesAssumption DEF NextVolume, Drives

LEMMA InitializeVolumeStep == Inv /\ InitializeVolume => Inv'
<1> SUFFICES ASSUME Inv, InitializeVolume PROVE Inv'
  OBVIOUS
<1> USE DEF Inv
<1>1. /\ status' \in [Drives -> BOOLEAN] /\ probed' \in BOOLEAN /\ ProbeInv'
      /\ \A x \in Drives : x # vol /\ status[x] => status'[x]
  BY Initialize DEF InitializeVolume, Types
<1>2. UNCHANGED <<disk, registered, mounted, curr, active, fs_result, before, misread, old>>
  BY DEF InitializeVolume, ghosts
<1>3. \/ /\ pc' = "mount" /\ vol' = vol
         /\ first' = IF first.ready < 0 THEN [first EXCEPT !.ready = vol] ELSE first
      \/ NextVolume /\ first' = first
  BY DEF InitializeVolume
<1>4. vol' \in Drives
  BY <1>3, NextVolumeFacts DEF Types
<1>5. first' \in First
  BY <1>3 DEF Types, First
<1>6. Types'
  BY <1>1, <1>2, <1>4, <1>5 DEF Types
<1>7. DiskInv' /\ TableInv' /\ DataKept'
  BY <1>2, DisksKept
<1>8. MountInv'
  BY <1>2 DEF MountInv, Parted
<1>9. MountedIsReady'
  <2>1. mounted[vol] = NoPlace
    BY DEF LoopInv, InitializeVolume, Types, Drives
  <2> QED
    BY <1>1, <1>2, <2>1 DEF MountedIsReady
<1>10. LoopInv'
  BY <1>2, <1>3, NextVolumeFacts DEF LoopInv, InitializeVolume, Types, Drives
<1>11. FirstInv'
  <2>1. /\ disk = before /\ first.ready < vol
        /\ first.mounted >= 0 =>
              first.mounted \in registered /\ mounted[first.mounted] # NoPlace
        /\ first.mounted < 0 /\ first.error = "NO_FILESYSTEM" =>
              \A d \in Drives : d = first.ready /\ d < vol => MayFormat(d)
    BY DEF FirstInv, Starting, InitializeVolume
  <2>2. first'.mounted = first.mounted /\ first'.error = first.error
    BY <1>3 DEF Types, First
  <2>3. \A d \in Drives : MayFormat(d)' = MayFormat(d)
    BY <1>2 DEF MayFormat, Usable, Parted
  <2>4. CASE pc' = "mount" /\ vol' = vol
    <3>1. first'.ready = first.ready \/ first'.ready = vol
      BY <1>3, <2>4, NextVolumeFacts DEF Types, First
    <3>2. first'.ready <= vol'
      BY <2>1, <2>4, <3>1 DEF Types, First, Drives
    <3>3. \A d \in Drives : d = first'.ready /\ d < vol => d = first.ready
      BY <3>1 DEF Types, Drives
    <3> QED
      BY <1>2, <2>1, <2>2, <2>3, <2>4, <3>2, <3>3 DEF FirstInv, Starting
  <2>5. CASE NextVolume /\ first' = first
    <3>1. pc' \in {"initialize", "choose"} /\ (pc' = "initialize" => vol' = vol + 1)
      BY <2>5, NextVolumeFacts DEF Types
    <3>2. pc' = "initialize" => first'.ready < vol'
      BY <2>1, <2>5, <3>1 DEF Types, First, Drives
    <3> QED
      BY <1>2, <2>1, <2>2, <2>3, <2>5, <3>1, <3>2 DEF FirstInv, Starting
  <2> QED
    BY <1>3, <2>4, <2>5
<1>12. pc' \in {"initialize", "mount", "choose"}
  BY <1>3, NextVolumeFacts DEF Types
<1>13. FormatInv' /\ CurrentIsMounted'
  BY <1>12 DEF FormatInv, Formatting, CurrentIsMounted
<1> QED
  BY <1>1, <1>6, <1>7, <1>8, <1>9, <1>10, <1>11, <1>13

\* The facts a mount leaves behind, whatever the phase.
LEMMA Mounting ==
    ASSUME Inv, NEW v \in Drives, NEW res, Attempt(v, res), UNCHANGED <<disk, before, old>>
    PROVE  /\ status' \in [Drives -> BOOLEAN] /\ probed' \in BOOLEAN /\ ProbeInv'
           /\ mounted' \in [Drives -> Places \cup {SectorZero, NoPlace}]
           /\ DiskInv' /\ TableInv' /\ DataKept' /\ MountInv' /\ MountedIsReady'
<1> USE DEF Inv
<1>1. /\ status' \in [Drives -> BOOLEAN] /\ probed' \in BOOLEAN /\ ProbeInv'
      /\ MountedIsReady'
      /\ mounted' \in [Drives -> Places \cup {SectorZero, NoPlace}]
      /\ \A x \in Drives : x # v => mounted'[x] = mounted[x]
      /\ mounted'[v] \in Places => mounted'[v] \in Parted(disk[v])
      /\ misread \subseteq misread'
  BY AttemptFacts
<1>2. MountInv'
  BY <1>1 DEF MountInv, Parted
<1> QED
  BY <1>1, <1>2, DisksKept

LEMMA MountVolumeStep == Inv /\ MountVolume => Inv'
<1> SUFFICES ASSUME Inv, MountVolume PROVE Inv'
  OBVIOUS
<1> USE DEF Inv
<1>1. PICK res \in Results : f_mount(vol, res) /\ first' = Noted(res)
  BY DEF MountVolume
<1>2. /\ UNCHANGED <<disk, curr, active, fs_result, before, old>> /\ NextVolume
      /\ pc = "mount" /\ vol \in Drives
  BY DEF MountVolume, Types
<1>3. Attempt(vol, res) /\ registered' = registered \cup {vol}
  BY <1>1 DEF f_mount
<1>4. /\ status' \in [Drives -> BOOLEAN] /\ probed' \in BOOLEAN /\ ProbeInv'
      /\ mounted' \in [Drives -> Places \cup {SectorZero, NoPlace}]
      /\ DiskInv' /\ TableInv' /\ DataKept' /\ MountInv' /\ MountedIsReady'
  BY <1>2, <1>3, Mounting
<1>5. /\ \A x \in Drives : x # vol => mounted'[x] = mounted[x]
      /\ res = "OK" => mounted'[vol] # NoPlace
      /\ misread \subseteq misread'
      /\ res = "NO_FILESYSTEM" =>
            vol \in misread' \/ Usable(disk[vol]) \cap {"fat", "half"} = {}
  BY <1>2, <1>3, AttemptFacts
<1>6. /\ vol' \in Drives
      /\ \/ pc' = "initialize" /\ vol' = vol + 1
         \/ pc' = "choose" /\ \A d \in Drives : d <= vol
  BY <1>2, NextVolumeFacts
<1>7. first' \in First
  BY <1>1, <1>2 DEF Noted, First, Types
<1>8. Types'
  BY <1>2, <1>3, <1>4, <1>6, <1>7 DEF Types
<1>9. LoopInv'
  BY <1>2, <1>5, <1>6 DEF LoopInv, Drives
<1>10. FirstInv'
  <2>1. /\ disk = before /\ first.ready <= vol
        /\ first.mounted >= 0 =>
              first.mounted \in registered /\ mounted[first.mounted] # NoPlace
        /\ first.mounted < 0 /\ first.error = "NO_FILESYSTEM" =>
              \A d \in Drives : d = first.ready /\ d < vol => MayFormat(d)
    BY <1>2 DEF FirstInv, Starting
  <2>2. first'.ready = first.ready
    BY <1>1 DEF Noted, Types, First
  <2>3. \/ first'.mounted = first.mounted
        \/ first'.mounted = vol /\ res = "OK"
    BY <1>1 DEF Noted, Types, First
  <2>4. first'.mounted >= 0 =>
           first'.mounted \in registered' /\ mounted'[first'.mounted] # NoPlace
    <3>1. CASE first'.mounted = vol /\ res = "OK"
      BY <1>2, <1>3, <1>5, <3>1
    <3>2. CASE first'.mounted = first.mounted /\ first.mounted >= 0
      <4>1. first.mounted \in Drives /\ mounted[vol] = NoPlace
        BY <1>2, <3>2 DEF Types, First, LoopInv, Drives
      <4> QED
        BY <1>3, <1>5, <2>1, <3>2, <4>1
    <3> QED
      BY <2>3, <3>1, <3>2
  <2>5. pc' = "initialize" => first'.ready < vol'
    BY <1>2, <1>6, <2>1, <2>2 DEF Types, First, Drives
  <2>6. ASSUME first'.mounted < 0, first'.error = "NO_FILESYSTEM",
               NEW d \in Drives, d = first'.ready
        PROVE  MayFormat(d)'
    <3>1. first.mounted < 0 /\ first.error = "NO_FILESYSTEM" /\ res = "NO_FILESYSTEM"
      BY <1>1, <1>2, <2>6 DEF Noted, Types, First, Drives
    <3>2. CASE d = vol
      BY <1>2, <1>5, <2>1, <3>1, <3>2 DEF MayFormat, Usable, Parted
    <3>3. CASE d # vol
      <4>1. d < vol
        BY <1>2, <2>1, <2>2, <2>6, <3>3 DEF Drives
      <4>2. MayFormat(d)
        BY <2>1, <2>2, <2>6, <3>1, <4>1
      <4> QED
        BY <1>2, <1>5, <4>2 DEF MayFormat, Usable, Parted
    <3> QED
      BY <3>2, <3>3
  <2>7. disk' = before'
    BY <1>2, <2>1
  <2>8. pc' # "mount"
    BY <1>6
  <2> QED
    BY <2>4, <2>5, <2>6, <2>7, <2>8 DEF FirstInv, Starting
<1>11. FormatInv' /\ CurrentIsMounted'
  BY <1>6 DEF FormatInv, Formatting, CurrentIsMounted
<1> QED
  BY <1>4, <1>8, <1>9, <1>10, <1>11

LEMMA ChooseStep == Inv /\ Choose => Inv'
<1> SUFFICES ASSUME Inv, Choose PROVE Inv'
  OBVIOUS
<1> USE DEF Inv
<1>1. UNCHANGED <<disk, status, probed, registered, mounted, vol, first, before, misread, old>>
  BY DEF Choose, ghosts
<1>2. /\ first.mounted \in Drives \cup {-1} /\ first.ready \in Drives \cup {-1}
      /\ first.error \in Results /\ first.error # "OK"
  BY DEF Types, First
<1>3. /\ disk = before
      /\ first.mounted >= 0 =>
            first.mounted \in registered /\ mounted[first.mounted] # NoPlace
      /\ first.mounted < 0 /\ first.error = "NO_FILESYSTEM" =>
            \A d \in Drives : d = first.ready => MayFormat(d)
  BY DEF FirstInv, Starting, Choose
<1>4. CASE first.mounted >= 0
  <2>1. /\ active' = first.mounted /\ curr' = first.mounted /\ fs_result' = "OK" /\ pc' = "shell"
    BY <1>2, <1>4 DEF Choose, ChosenCurrent, Drives
  <2>2. Types'
    BY <1>1, <1>2, <1>4, <2>1 DEF Types, Results, Drives
  <2>3. CurrentIsMounted'
    BY <1>1, <1>3, <1>4, <2>1 DEF CurrentIsMounted
  <2>4. FormatInv' /\ FirstInv' /\ LoopInv'
    BY <2>1 DEF FormatInv, Formatting, FirstInv, Starting, LoopInv
  <2> QED
    BY <1>1, <2>2, <2>3, <2>4, DisksKept DEF ProbeInv, MountInv, MountedIsReady, Parted
<1>5. CASE first.mounted < 0
  <2>1. /\ curr' = curr
        /\ active' = IF first.ready >= 0 THEN first.ready ELSE active
        /\ fs_result' = IF first.ready < 0 THEN "NOT_READY" ELSE first.error
        /\ pc' = IF fs_result' = "NO_FILESYSTEM" THEN "ask" ELSE "shell"
    BY <1>2, <1>5 DEF Choose, ChosenCurrent, Drives
  <2>2. Types'
    BY <1>1, <1>2, <2>1 DEF Types, Results, Drives
  <2>3. CurrentIsMounted'
    BY <1>2, <2>1 DEF CurrentIsMounted
  <2>4. FormatInv'
    <3>1. \A d \in Drives : MayFormat(d)' = MayFormat(d)
      BY <1>1 DEF MayFormat, Usable, Parted
    <3>2. ASSUME pc' = "ask" PROVE \A d \in Drives : d = active' => MayFormat(d)
      <4>1. first.ready >= 0 /\ first.error = "NO_FILESYSTEM"
        BY <1>2, <2>1, <3>2 DEF Drives
      <4> QED
        BY <1>3, <1>5, <2>1, <4>1
    <3> QED
      BY <2>1, <3>1, <3>2 DEF FormatInv, Formatting
  <2>5. FirstInv' /\ LoopInv'
    BY <2>1 DEF FirstInv, Starting, LoopInv
  <2> QED
    BY <1>1, <2>2, <2>3, <2>4, <2>5, DisksKept DEF ProbeInv, MountInv, MountedIsReady, Parted
<1> QED
  BY <1>2, <1>4, <1>5 DEF Drives

LEMMA AnswerStep == Inv /\ Answer => Inv'
<1> SUFFICES ASSUME Inv, Answer PROVE Inv'
  OBVIOUS
<1> USE DEF Inv
<1>1. /\ UNCHANGED <<disk, status, probed, registered, mounted, curr, active, first, fs_result,
                     vol, before, misread, old>>
      /\ pc = "ask" /\ pc' \in {"mkfs", "shell"}
  BY DEF Answer, memory, ghosts
<1>2. Types' /\ ProbeInv' /\ MountInv' /\ MountedIsReady'
  BY <1>1 DEF Types, ProbeInv, MountInv, MountedIsReady, Parted
<1>3. FormatInv' /\ CurrentIsMounted'
  <2>1. \A d \in Drives : MayFormat(d)' = MayFormat(d)
    BY <1>1 DEF MayFormat, Usable, Parted
  <2> QED
    BY <1>1, <2>1 DEF FormatInv, Formatting, CurrentIsMounted
<1>4. FirstInv' /\ LoopInv'
  BY <1>1 DEF FirstInv, Starting, LoopInv
<1> QED
  BY <1>1, <1>2, <1>3, <1>4, DisksKept

LEMMA MkfsBeginStep == Inv /\ MkfsBegin => Inv'
<1> SUFFICES ASSUME Inv, MkfsBegin PROVE Inv'
  OBVIOUS
<1> USE DEF Inv
<1>1. /\ UNCHANGED <<disk, registered, curr, active, vol, first, before, misread>>
      /\ mounted' = [mounted EXCEPT ![active] = NoPlace]
      /\ old' = [old EXCEPT ![active] = disk[active].table]
      /\ pc = "mkfs" /\ active \in Drives
  BY DEF MkfsBegin, Unmounted, Types
<1>2. /\ status' \in [Drives -> BOOLEAN] /\ probed' \in BOOLEAN /\ ProbeInv'
      /\ \A x \in Drives : x # active /\ status[x] => status'[x]
  BY Initialize DEF MkfsBegin, Types
<1>3. \/ pc' = "vbr" /\ fs_result' = fs_result
      \/ pc' = "shell" /\ fs_result' \in {"NOT_READY", "MKFS_ABORTED"}
  BY DEF MkfsBegin, End
<1>4. mounted'[active] = NoPlace /\ \A x \in Drives : x # active => mounted'[x] = mounted[x]
  BY <1>1 DEF Types
<1>5. old'[active] = disk[active].table /\ \A x \in Drives : x # active => old'[x] = old[x]
  BY <1>1 DEF Types
<1>6. Types'
  <2>1. old' \in [Drives -> Tables]
    BY <1>1 DEF Types, Disk
  <2>2. mounted' \in [Drives -> Places \cup {SectorZero, NoPlace}]
    BY <1>1 DEF Types
  <2>3. fs_result' \in Results
    BY <1>3 DEF Types, Results
  <2> QED
    BY <1>1, <1>2, <2>1, <2>2, <2>3 DEF Types
<1>7. DiskInv' /\ DataKept'
  BY <1>1 DEF DiskInv, DataKept, Usable, Parted
<1>8. TableInv'
  BY <1>1, <1>5 DEF TableInv, Parted
<1>9. MountInv' /\ MountedIsReady'
  BY <1>1, <1>2, <1>4, VolumesAssumption DEF MountInv, MountedIsReady, Parted
<1>10. FormatInv'
  <2>1. \A d \in Drives : MayFormat(d)' = MayFormat(d)
    BY <1>1 DEF MayFormat, Usable, Parted
  <2>2. fs_result = "NO_FILESYSTEM" /\ MayFormat(active)
    BY <1>1 DEF FormatInv, Formatting
  <2> QED
    BY <1>1, <1>3, <1>4, <1>5, <2>1, <2>2 DEF FormatInv, Formatting
<1>11. LoopInv' /\ FirstInv' /\ CurrentIsMounted'
  <2>1. pc' = "vbr" \/ (pc' = "shell" /\ fs_result' # "OK")
    BY <1>3
  <2> QED
    BY <2>1 DEF LoopInv, FirstInv, Starting, CurrentIsMounted
<1> QED
  BY <1>2, <1>6, <1>7, <1>8, <1>9, <1>10, <1>11

LEMMA MkfsWriteStep == Inv /\ MkfsWrite => Inv'
<1> SUFFICES ASSUME Inv, MkfsWrite PROVE Inv'
  OBVIOUS
<1> USE DEF Inv
<1>1. /\ UNCHANGED <<status, probed, registered, mounted, curr, active, vol, first,
                     before, misread, old>>
      /\ pc \in {"vbr", "fat", "mbr"} /\ active \in Drives
  BY DEF MkfsWrite, ghosts, Types
<1>2. /\ fs_result = "NO_FILESYSTEM" /\ MayFormat(active)
      /\ mounted[active] = NoPlace /\ old[active] = disk[active].table
      /\ pc = "mbr" => disk[active].at[Track] = "fat"
  BY <1>1 DEF FormatInv, Formatting
<1>3. \A d \in Drives : MayFormat(d)' = MayFormat(d)
  BY <1>1 DEF MayFormat, Usable, Parted
<1>4. ProbeInv' /\ MountedIsReady'
  BY <1>1 DEF ProbeInv, MountedIsReady
<1>5. disk[active] \in Disk /\ Track \in Places /\ 1 \in 1 .. Parts /\ NoPlace \notin Places
  BY <1>1, VolumesAssumption DEF Types
<1>6. CASE UNCHANGED disk /\ Broken
  <2>1. pc' = "shell" /\ fs_result' = "DISK_ERR"
    BY <1>6 DEF Broken, End
  <2>2. Types'
    BY <1>1, <1>6, <2>1 DEF Types, Results
  <2>3. DiskInv' /\ TableInv' /\ DataKept' /\ MountInv'
    BY <1>1, <1>6, DisksKept DEF MountInv, Parted
  <2>4. LoopInv' /\ FirstInv' /\ FormatInv' /\ CurrentIsMounted'
    BY <2>1 DEF LoopInv, FirstInv, Starting, FormatInv, Formatting, CurrentIsMounted
  <2> QED
    BY <1>4, <2>2, <2>3, <2>4
<1>7. CASE disk' = [disk EXCEPT ![active] = Written(@, pc)]
  <2> DEFINE l == disk[active]
             w == Written(l, pc)
  <2>1. disk'[active] = w /\ \A d \in Drives : d # active => disk'[d] = disk[d]
    BY <1>1, <1>7 DEF Types
  <2>2. \/ /\ pc = "vbr" /\ w = [l EXCEPT !.at[Track] = "half"]
           /\ ((pc' = "fat" /\ fs_result' = fs_result) \/ (pc' = "shell" /\ fs_result' = "DISK_ERR"))
        \/ /\ pc = "fat" /\ w = [l EXCEPT !.at[Track] = "fat"]
           /\ ((pc' = "mbr" /\ fs_result' = fs_result) \/ (pc' = "shell" /\ fs_result' = "DISK_ERR"))
        \/ /\ pc = "mbr" /\ w = [l EXCEPT !.zero = "other", !.table = [NoParts EXCEPT ![1] = Track]]
           /\ ((pc' = "sync" /\ fs_result' = fs_result) \/ (pc' = "shell" /\ fs_result' = "DISK_ERR"))
    BY <1>1 DEF MkfsWrite, Written, AfterWrite, Broken, End
  <2>3. pc # "mbr" => /\ w.table = l.table /\ w.zero = l.zero
                      /\ w.at \in [Places -> SectorKinds]
                      /\ w.at[Track] = IF pc = "vbr" THEN "half" ELSE "fat"
    BY <1>5, <2>2 DEF Disk, SectorKinds
  <2>4. pc = "mbr" => /\ w.table = [NoParts EXCEPT ![1] = Track] /\ w.zero = "other"
                      /\ w.at = l.at
    BY <1>5, <2>2 DEF Disk
  <2>5. [NoParts EXCEPT ![1] = Track] \in Tables
    BY <1>5 DEF NoParts, Tables
  <2>6. w \in Disk
    <3>1. CASE pc = "vbr" \/ pc = "fat"
      BY <1>5, <2>2, <3>1 DEF Disk, SectorKinds
    <3>2. CASE pc = "mbr"
      BY <1>5, <2>2, <2>5, <3>2 DEF Disk, SectorKinds
    <3> QED
      BY <1>1, <3>1, <3>2
  <2>7. pc = "mbr" => Parted(w) = {Track}
    <3> SUFFICES ASSUME pc = "mbr" PROVE Parted(w) = {Track}
      OBVIOUS
    <3> DEFINE tab == [NoParts EXCEPT ![1] = Track]
    <3>1. w.table = tab
      BY <2>4
    <3>2. tab[1] = Track /\ \A i \in 1 .. Parts : i # 1 => tab[i] = NoPlace
      BY <1>5 DEF NoParts
    <3> HIDE DEF tab, w
    <3>3. {tab[i] : i \in 1 .. Parts} \ {NoPlace} = {Track}
      BY <1>5, <3>2
    <3> QED
      BY <3>1, <3>3 DEF Parted
  <2> HIDE DEF l, w
  <2>8. disk' \in [Drives -> Disk]
    BY <1>1, <1>7, <2>6 DEF Types, l, w
  <2>9. /\ fs_result' \in Results
        /\ \/ pc' = "shell" /\ fs_result' # "OK"
           \/ pc' \in {"fat", "mbr", "sync"} /\ fs_result' = fs_result
    BY <2>2 DEF Types, Results
  <2>10. Types'
    BY <1>1, <2>8, <2>9 DEF Types
  <2>11. DiskInv'
    BY <1>1, <2>1, <2>3, <2>4 DEF DiskInv, l
  <2>12. TableInv'
    <3>1. pc # "mbr" => w.table = old[active]
      BY <1>2, <2>3 DEF l
    <3>2. pc = "mbr" => Parted(w) = {Track} /\ w.at[Track] # "half"
      BY <1>2, <2>4, <2>7 DEF l
    <3>3. ASSUME NEW d \in Drives, disk'[d].table # old'[d]
          PROVE  Parted(disk'[d]) = {Track} /\ disk'[d].at[Track] # "half"
      <4>1. CASE d = active
        BY <1>1, <2>1, <3>1, <3>2, <3>3, <4>1
      <4>2. CASE d # active
        BY <1>1, <2>1, <3>3, <4>2 DEF TableInv
      <4> QED
        BY <4>1, <4>2
    <3> QED
      BY <3>3 DEF TableInv, Parted
  <2>13. MountInv'
    <3>1. ASSUME NEW d \in Drives, mounted'[d] \in Places
          PROVE  mounted'[d] \in Parted(disk'[d])
      <4>1. d # active
        BY <1>1, <1>2, <1>5, <3>1
      <4> QED
        BY <1>1, <2>1, <3>1, <4>1 DEF MountInv
    <3> QED
      BY <3>1 DEF MountInv, Parted
  <2>14. DataKept'
    <3>1. ASSUME NEW d \in Drives, disk'[d] # before'[d] PROVE MayFormat(d)
      BY <1>1, <1>2, <2>1, <3>1 DEF DataKept, MayFormat
    <3> QED
      BY <1>1, <3>1 DEF DataKept, MayFormat, Usable, Parted
  <2>15. FormatInv'
    <3>1. pc' \in {"fat", "mbr"} => old'[active] = disk'[active].table
      BY <1>1, <1>2, <2>1, <2>2, <2>3 DEF l
    <3>2. pc' = "mbr" => disk'[active].at[Track] = "fat"
      BY <2>1, <2>2, <2>3
    <3> QED
      BY <1>1, <1>2, <1>3, <2>9, <3>1, <3>2 DEF FormatInv, Formatting
  <2>16. LoopInv' /\ FirstInv' /\ CurrentIsMounted'
    BY <2>9 DEF LoopInv, FirstInv, Starting, CurrentIsMounted
  <2> QED
    BY <1>4, <2>10, <2>11, <2>12, <2>13, <2>14, <2>15, <2>16
<1> QED
  BY <1>6, <1>7 DEF MkfsWrite

LEMMA MkfsSyncStep == Inv /\ MkfsSync => Inv'
<1> SUFFICES ASSUME Inv, MkfsSync PROVE Inv'
  OBVIOUS
<1> USE DEF Inv
<1>1. /\ UNCHANGED <<disk, status, probed, registered, mounted, curr, active, vol, first,
                     before, misread, old>>
      /\ pc = "sync"
      /\ \/ pc' = "remount" /\ fs_result' = fs_result
         \/ pc' = "shell" /\ fs_result' = "DISK_ERR"
  BY DEF MkfsSync, ghosts, Broken, End
<1>2. Types' /\ ProbeInv' /\ MountInv' /\ MountedIsReady'
  BY <1>1 DEF Types, Results, ProbeInv, MountInv, MountedIsReady, Parted
<1>3. FormatInv'
  <2>1. \A d \in Drives : MayFormat(d)' = MayFormat(d)
    BY <1>1 DEF MayFormat, Usable, Parted
  <2> QED
    BY <1>1, <2>1 DEF FormatInv, Formatting
<1>4. FirstInv' /\ LoopInv' /\ CurrentIsMounted'
  BY <1>1 DEF FirstInv, Starting, LoopInv, CurrentIsMounted
<1> QED
  BY <1>1, <1>2, <1>3, <1>4, DisksKept

LEMMA MountFormattedStep == Inv /\ MountFormatted => Inv'
<1> SUFFICES ASSUME Inv, MountFormatted PROVE Inv'
  OBVIOUS
<1> USE DEF Inv
<1>1. PICK res \in Results :
         /\ f_mount(active, res) /\ curr' = (IF res = "OK" THEN active ELSE curr)
         /\ pc' = "shell" /\ fs_result' = res
  BY DEF MountFormatted, End
<1>2. /\ UNCHANGED <<disk, active, vol, first, before, old>> /\ active \in Drives
      /\ Attempt(active, res) /\ registered' = registered \cup {active}
  BY <1>1 DEF MountFormatted, f_mount, Types
<1>3. /\ status' \in [Drives -> BOOLEAN] /\ probed' \in BOOLEAN /\ ProbeInv'
      /\ mounted' \in [Drives -> Places \cup {SectorZero, NoPlace}]
      /\ DiskInv' /\ TableInv' /\ DataKept' /\ MountInv' /\ MountedIsReady'
  BY <1>2, Mounting
<1>4. res = "OK" => mounted'[active] # NoPlace
  BY <1>2, AttemptFacts
<1>5. Types'
  BY <1>1, <1>2, <1>3 DEF Types
<1>6. CurrentIsMounted'
  BY <1>1, <1>2, <1>4 DEF CurrentIsMounted
<1>7. FormatInv' /\ FirstInv' /\ LoopInv'
  BY <1>1 DEF FormatInv, Formatting, FirstInv, Starting, LoopInv
<1> QED
  BY <1>3, <1>5, <1>6, <1>7

\* A call of the shell may mount a volume again; the one that is current stays mounted.
LEMMA Calling ==
    ASSUME Inv, NEW v \in Drives, NEW res \in Results, mount_volume(v, res),
           pc \in {"shell", "label"}, pc' \in {"shell", "list"}, vol' \in Drives,
           UNCHANGED <<disk, registered, curr, active, first, fs_result, before, old>>
    PROVE  Inv'
<1> USE DEF Inv
<1>1. /\ status' \in [Drives -> BOOLEAN] /\ probed' \in BOOLEAN /\ ProbeInv'
      /\ mounted' \in [Drives -> Places \cup {SectorZero, NoPlace}]
      /\ DiskInv' /\ TableInv' /\ DataKept' /\ MountInv' /\ MountedIsReady'
  <2>1. CASE Attempt(v, res)
    BY <2>1, Mounting
  <2>2. CASE UNCHANGED <<status, probed, mounted, misread>>
    <3>1. DiskInv' /\ TableInv' /\ DataKept'
      BY <2>2, DisksKept
    <3> QED
      BY <2>2, <3>1 DEF Types, ProbeInv, MountInv, MountedIsReady, Parted
  <2> QED
    BY <2>1, <2>2 DEF mount_volume
<1>2. mounted[curr] # NoPlace => mounted'[curr] # NoPlace
  <2> SUFFICES ASSUME mounted[curr] # NoPlace PROVE mounted'[curr] # NoPlace
    OBVIOUS
  <2>1. curr \in Drives /\ Valid(curr)
    BY DEF Types, MountedIsReady, Valid
  <2>2. CASE Attempt(v, res) /\ ~Valid(v)
    BY <2>1, <2>2, AttemptFacts
  <2>3. CASE UNCHANGED mounted
    BY <2>3
  <2> QED
    BY <2>2, <2>3 DEF mount_volume
<1>3. Types'
  BY <1>1 DEF Types
<1>4. CurrentIsMounted'
  BY <1>2 DEF CurrentIsMounted
<1>5. FormatInv' /\ FirstInv' /\ LoopInv'
  BY DEF FormatInv, Formatting, FirstInv, Starting, LoopInv
<1> QED
  BY <1>1, <1>3, <1>4, <1>5

LEMMA NextListedFacts ==
    ASSUME vol \in Drives, NextListed
    PROVE  vol' \in Drives /\ pc' \in {"list", "shell"}
  BY VolumesAssumption DEF NextListed, Drives

LEMMA FileCallStep == ASSUME Inv, NEW v \in Drives, FileCall(v) PROVE Inv'
<1>1. PICK res \in Results : mount_volume(v, res)
  BY DEF FileCall
<1>2. /\ pc = "shell" /\ pc' = "shell" /\ vol' \in Drives
      /\ UNCHANGED <<disk, registered, curr, active, first, fs_result, before, old>>
  BY DEF FileCall, Inv, Types
<1> QED
  BY <1>1, <1>2, Calling

LEMMA GetLabelStep == Inv /\ f_getlabel => Inv'
<1> SUFFICES ASSUME Inv, f_getlabel PROVE Inv'
  OBVIOUS
<1>1. vol \in Drives
  BY DEF Inv, Types
<1>2. PICK res \in Results : mount_volume(vol, res)
  BY DEF f_getlabel
<1>3. /\ pc = "label" /\ pc' \in {"list", "shell"} /\ vol' \in Drives
      /\ UNCHANGED <<disk, registered, curr, active, first, fs_result, before, old>>
  BY <1>1, NextListedFacts DEF f_getlabel
<1> QED
  BY <1>1, <1>2, <1>3, Calling

LEMMA ListingStep == Inv /\ (list_drives \/ ListVolume) => Inv'
<1> SUFFICES ASSUME Inv, list_drives \/ ListVolume PROVE Inv'
  OBVIOUS
<1> USE DEF Inv
<1>1. /\ UNCHANGED <<disk, registered, mounted, curr, active, first, fs_result,
                     before, misread, old>>
      /\ pc \in {"shell", "list"} /\ pc' \in {"list", "label", "shell"} /\ vol' \in Drives
  BY NextListedFacts, VolumesAssumption
     DEF list_drives, ListVolume, memory, ghosts, Types, Drives
<1>2. /\ status' \in [Drives -> BOOLEAN] /\ probed' \in BOOLEAN /\ ProbeInv'
      /\ \A x \in Drives : status[x] => status'[x]
  <2>1. CASE UNCHANGED <<status, probed>>
    BY <2>1 DEF Types, ProbeInv
  <2>2. CASE MustInitialize(vol) /\ disk_initialize(vol)
    BY <2>2, Initialize DEF MustInitialize, Types
  <2> QED
    BY <2>1, <2>2 DEF list_drives, ListVolume
<1>3. Types'
  BY <1>1, <1>2 DEF Types
<1>4. MountInv' /\ MountedIsReady' /\ CurrentIsMounted'
  BY <1>1, <1>2 DEF MountInv, MountedIsReady, CurrentIsMounted, Parted
<1>5. FormatInv' /\ FirstInv' /\ LoopInv'
  BY <1>1 DEF FormatInv, Formatting, FirstInv, Starting, LoopInv
<1> QED
  BY <1>1, <1>2, <1>3, <1>4, <1>5, DisksKept

LEMMA PowerLossStep == Inv /\ PowerLoss => Inv'
<1> SUFFICES ASSUME Inv, PowerLoss PROVE Inv'
  OBVIOUS
<1> USE DEF Inv
<1>1. /\ UNCHANGED <<disk, old>> /\ before' = disk /\ misread' = {}
      /\ status' = Down /\ probed' = FALSE /\ registered' = {} /\ mounted' = None
      /\ curr' = 0 /\ active' = 0 /\ first' = Start /\ fs_result' = "OK"
      /\ pc' = "initialize" /\ vol' = 0
  BY DEF PowerLoss
<1>2. 0 \in Drives
  BY VolumesAssumption DEF Drives
<1>3. Types'
  <2>1. first' \in First /\ fs_result' \in Results
    BY <1>1 DEF First, Start, Results
  <2> QED
    BY <1>1, <1>2, <2>1 DEF Types, Down, None
<1>4. DiskInv' /\ TableInv' /\ DataKept'
  BY <1>1 DEF DiskInv, TableInv, DataKept, Parted
<1>5. ProbeInv' /\ LoopInv' /\ FormatInv' /\ CurrentIsMounted'
  BY <1>1 DEF ProbeInv, LoopInv, FormatInv, Formatting, CurrentIsMounted, Down, None, Ahci
<1>6. FirstInv'
  BY <1>1 DEF FirstInv, Start, Starting, Drives
<1>7. MountInv' /\ MountedIsReady'
  BY <1>1, VolumesAssumption DEF MountInv, MountedIsReady, None
<1> QED
  BY <1>3, <1>4, <1>5, <1>6, <1>7

LEMMA Stutter == Inv /\ UNCHANGED volumesVars => Inv'
<1> SUFFICES ASSUME Inv, UNCHANGED volumesVars PROVE Inv'
  OBVIOUS
<1> USE DEF Inv, volumesVars
<1>1. Types' /\ ProbeInv' /\ LoopInv' /\ MountInv' /\ MountedIsReady' /\ CurrentIsMounted'
  BY DEF Types, ProbeInv, LoopInv, MountInv, MountedIsReady, CurrentIsMounted, Parted
<1>2. DiskInv' /\ TableInv' /\ DataKept'
  BY DisksKept
<1>3. FirstInv' /\ FormatInv'
  <2>1. \A d \in Drives : MayFormat(d)' = MayFormat(d)
    BY DEF MayFormat, Usable, Parted
  <2> QED
    BY <2>1 DEF FirstInv, Starting, FormatInv, Formatting
<1> QED
  BY <1>1, <1>2, <1>3

LEMMA NextInv == Inv /\ [VolumesNext]_volumesVars => Inv'
<1> SUFFICES ASSUME Inv, [VolumesNext]_volumesVars PROVE Inv'
  OBVIOUS
<1>1. CASE VolumesNext
  BY <1>1, InitializeVolumeStep, MountVolumeStep, ChooseStep, AnswerStep, MkfsBeginStep,
     MkfsWriteStep, MkfsSyncStep, MountFormattedStep, FileCallStep, ListingStep,
     GetLabelStep, PowerLossStep DEF VolumesNext
<1>2. CASE UNCHANGED volumesVars
  BY <1>2, Stutter
<1> QED
  BY <1>1, <1>2

LEMMA Invariance == VolumesSpec => []Inv
  BY InitInv, NextInv, PTL DEF VolumesSpec

----------------------------------------------------------------------------
(* Whatever the answer to the offer is, a disk that held a FAT volume when *)
(* the machine was started is written only after one of its partitions     *)
(* could not be read or used (fs_init and find_volume).                    *)
THEOREM FormatSparesVolumes == VolumesSpec => []DataKept
<1>1. Inv => DataKept
  BY DEF Inv
<1> QED
  BY <1>1, Invariance, PTL

(* A volume f_mkfs did not finish is mounted only where the partition      *)
(* table of before led to it: the table is written last.                   *)
THEOREM UnfinishedIsHidden == VolumesSpec => []WholeVolume
<1>1. Inv => WholeVolume
  <2> SUFFICES ASSUME Inv, NEW d \in Drives, mounted[d] \in Places,
                      disk[d].at[mounted[d]] = "half"
               PROVE  mounted[d] \in Parted([table |-> old[d]])
    BY DEF WholeVolume
  <2>1. mounted[d] \in Parted(disk[d])
    BY DEF Inv, MountInv
  <2>2. CASE disk[d].table = old[d]
    BY <2>1, <2>2 DEF Parted
  <2>3. CASE disk[d].table # old[d]
    BY <2>1, <2>3 DEF Inv, TableInv
  <2> QED
    BY <2>2, <2>3
<1> QED
  BY <1>1, Invariance, PTL

(* No sequence of commands leaves a volume mounted on a disk that is not   *)
(* ready (disk_initialize, mount_volume, list_drives).                     *)
THEOREM NeverMountedBehind == VolumesSpec => []MountedIsReady
<1>1. Inv => MountedIsReady
  BY DEF Inv
<1> QED
  BY <1>1, Invariance, PTL

(* After a startup that ended well the current volume stays the one that   *)
(* was chosen, registered and mounted (fs_init, fs_format).                *)
THEOREM WorksOnChosenVolume == VolumesSpec => []CurrentIsMounted
<1>1. Inv => CurrentIsMounted
  BY DEF Inv
<1> QED
  BY <1>1, Invariance, PTL
=============================================================================
