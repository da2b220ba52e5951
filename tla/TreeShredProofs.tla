---------------------------- MODULE TreeShredProofs ----------------------------
(***************************************************************************)
(* What shred removes of a tree, for any tree, any links in it and other   *)
(* processes that change it at any time.                                   *)
(***************************************************************************)
EXTENDS TreeShred, FiniteSetTheorems, TLAPS

\* What belongs to no directory elsewhere, and of that what is not a file.
Ours    == Entries \ Elsewhere
NoFiles == {e \in Ours : Kind[e] # "file"}

Statuses == Overwritten \union {"PENDING", "FAILED_OVERWRITE", "SKIPPED_NOT_REGULAR_FILE"}

Records == [target : Ours, status : Statuses]

\* Types, and that nothing elsewhere is ever listed.
TypeInv ==
  /\ Present \subseteq Initial \union created
  /\ created \subseteq Entries \ Initial
  /\ target \in Ours
  /\ Kind[target] \in {"file", "dir"}
  /\ current \in Ours
  /\ status \in Statuses
  /\ stack \in Seq(SUBSET Ours)
  /\ files_to_shred \in Seq(Ours)
  /\ dirs_to_remove \in Seq(NoFiles)
  /\ records \in Seq(Records)

\* Only what is not a file is removed as a directory; a file's name goes in a
\* call that ends with a record of its overwrite.
IInv ==
  /\ TypeInv
  /\ pc = "remove" => Kind[target] # "file"
  /\ NothingUnshreddedRemoved
  /\ ElsewhereKeepsItsEntries

LEMMA InvInit == Init => IInv
<1> SUFFICES ASSUME Init PROVE IInv
  OBVIOUS
<1>1. /\ Initial \subseteq Entries /\ Elsewhere \subseteq Initial
      /\ target \in Ours /\ Kind[target] \in {"file", "dir"}
  BY TreeAssumption DEF TreeAssumption, Init, Ours
<1>2. Present = Initial
  BY DEF Init, Present
<1>3. status = "PENDING" /\ created = {} /\ current = target
  BY DEF Init, C!Init
<1>4. TypeInv
  BY <1>1, <1>2, <1>3 DEF Init, TypeInv, Statuses
<1>5. NothingUnshreddedRemoved /\ ElsewhereKeepsItsEntries
  BY <1>1, <1>2, <1>3 DEF NothingUnshreddedRemoved, RegularFiles, ElsewhereKeepsItsEntries
<1>6. QED  BY <1>4, <1>5 DEF IInv, Init

\* What the list operations do to the set of what is listed.
LEMMA AppendRange ==
  ASSUME NEW S, NEW s \in Seq(S), NEW x \in S
  PROVE  /\ Append(s, x) \in Seq(S)
         /\ Range(Append(s, x)) = Range(s) \union {x}
<1>1. /\ Append(s, x) \in Seq(S)
      /\ DOMAIN Append(s, x) = DOMAIN s \union {Len(s) + 1}
      /\ \A i \in DOMAIN s : Append(s, x)[i] = s[i]
      /\ Append(s, x)[Len(s) + 1] = x
  OBVIOUS
<1>2. QED  BY <1>1 DEF Range

LEMMA SingletonSeq ==
  ASSUME NEW S, NEW x \in S
  PROVE  /\ <<x>> \in Seq(S) /\ Range(<<x>>) = {x}
         /\ <<>> \in Seq(S) /\ Range(<<>>) = {}
BY DEF Range

LEMMA TailRange ==
  ASSUME NEW S, NEW s \in Seq(S), s # <<>>
  PROVE  /\ Head(s) \in S /\ Tail(s) \in Seq(S)
         /\ Range(s) = {Head(s)} \union Range(Tail(s))
<1>1. /\ Tail(s) \in Seq(S) /\ Head(s) = s[1] /\ Head(s) \in S
      /\ Len(s) \in Nat \ {0} /\ DOMAIN s = 1 .. Len(s)
      /\ DOMAIN Tail(s) = 1 .. (Len(s) - 1)
      /\ \A i \in 1 .. (Len(s) - 1) : Tail(s)[i] = s[i + 1]
  OBVIOUS
<1>2. ASSUME NEW i \in DOMAIN s PROVE s[i] \in {Head(s)} \union Range(Tail(s))
  <2>1. CASE i = 1
    BY <1>1, <2>1
  <2>2. CASE i # 1
    <3>1. i - 1 \in 1 .. (Len(s) - 1) /\ Tail(s)[i - 1] = s[i]
      BY <1>1, <2>2
    <3>2. QED  BY <1>1, <3>1 DEF Range
  <2>3. QED  BY <2>1, <2>2
<1>3. ASSUME NEW i \in DOMAIN Tail(s) PROVE Tail(s)[i] \in Range(s)
  <2>1. i + 1 \in DOMAIN s /\ Tail(s)[i] = s[i + 1]
    BY <1>1
  <2>2. QED  BY <2>1 DEF Range
<1>4. Head(s) \in Range(s)
  BY <1>1 DEF Range
<1>5. QED  BY <1>1, <1>2, <1>3, <1>4 DEF Range

LEMMA RemoveLast ==
  ASSUME NEW S, NEW s \in Seq(S), s # <<>>
  PROVE  /\ Len(s) \in DOMAIN s /\ s[Len(s)] \in S
         /\ RemoveAt(s, Len(s)) \in Seq(S)
         /\ DOMAIN RemoveAt(s, Len(s)) = 1 .. (Len(s) - 1)
         /\ \A i \in 1 .. (Len(s) - 1) : RemoveAt(s, Len(s))[i] = s[i]
         /\ Range(s) = Range(RemoveAt(s, Len(s))) \union {s[Len(s)]}
<1> DEFINE t == RemoveAt(s, Len(s))
<1>1. /\ Len(s) \in Nat \ {0} /\ DOMAIN s = 1 .. Len(s) /\ s[Len(s)] \in S
  OBVIOUS
<1>2. /\ t \in Seq(S) /\ DOMAIN t = 1 .. (Len(s) - 1)
      /\ \A i \in 1 .. (Len(s) - 1) : t[i] = s[i]
  BY <1>1 DEF RemoveAt
<1>3. Range(s) = Range(t) \union {s[Len(s)]}
  <2> HIDE DEF t
  <2>1. ASSUME NEW i \in DOMAIN s PROVE s[i] \in Range(t) \union {s[Len(s)]}
    BY <1>1, <1>2 DEF Range
  <2>2. ASSUME NEW i \in DOMAIN t PROVE t[i] \in Range(s)
    BY <1>1, <1>2 DEF Range
  <2>3. QED  BY <1>1, <2>1, <2>2 DEF Range
<1>4. QED  BY <1>1, <1>2, <1>3

LEMMA FrontOfSeq ==
  ASSUME NEW S, NEW s \in Seq(S), s # <<>>
  PROVE  Front(s) \in Seq(S)
BY DEF Front

\* A step after which each file is where it was, or reported, or taken by others.
LEMMA NothingLost ==
  ASSUME IInv,
         created' = created,
         vanished \subseteq vanished',
         Range(records) \subseteq Range(records'),
         \A e \in RegularFiles : e \in Present =>
           e \in Present' \/ e \in vanished' \/ Reported(e, Overwritten)',
         \A e \in Elsewhere : e \in Present => e \in Present' \/ e \in vanished'
  PROVE  NothingUnshreddedRemoved' /\ ElsewhereKeepsItsEntries'
<1>1. RegularFiles' = RegularFiles
  BY DEF RegularFiles
<1>2. \A e : Reported(e, Overwritten) => Reported(e, Overwritten)'
  BY DEF Reported, Overwritten
<1>3. QED  BY <1>1, <1>2 DEF IInv, NothingUnshreddedRemoved, ElsewhereKeepsItsEntries

\* Steps that leave the tree and the records alone.
LEMMA TreeUntouched ==
  ASSUME IInv, TypeInv', UNCHANGED <<tree, others, records>>,
         pc' = "remove" => Kind[target'] # "file"
  PROVE  IInv'
<1>1. NothingUnshreddedRemoved' /\ ElsewhereKeepsItsEntries'
  BY NothingLost DEF others, Present, IInv, Reported
<1>2. QED  BY <1>1 DEF IInv

\* A directory of ours lists only what is ours.
LEMMA OurChildren ==
  ASSUME TypeInv, NEW d \in Ours
  PROVE  Children(d) \in SUBSET Ours
<1> SUFFICES ASSUME NEW e \in Children(d) PROVE e \in Ours
  OBVIOUS
<1>1. e \in Entries /\ Parent[e] = d /\ d \notin Elsewhere /\ d \in Entries
  BY TreeAssumption DEF Children, TypeInv, Ours, TreeAssumption
<1>2. CASE e \in Elsewhere
  <2>1. e \in Initial /\ Parent[e] # Top
    BY <1>1, <1>2, TreeAssumption, TreeShape DEF TreeAssumption, TreeShape
  <2>2. QED  BY <1>1, <1>2, <2>1, TreeShape DEF TreeShape
<1>3. QED  BY <1>1, <1>2 DEF Ours

\* What is left to visit once e has been.
Rest(e) == [stack EXCEPT ![Len(stack)] = @ \ {e}]

\* One iteration of the walk, in terms of the entry e it looks at.
Listed(e) ==
  \/ /\ Kind[e] = "file" \/ (Kind[e] = "link_file" /\ IsRegular(e))
     /\ files_to_shred' = Append(files_to_shred, e)
     /\ dirs_to_remove' = dirs_to_remove
  \/ /\ Kind[e] \in {"dir", "link_dir"}
     /\ dirs_to_remove' = Append(dirs_to_remove, e)
     /\ files_to_shred' = files_to_shred
  \/ /\ Kind[e] \notin {"file", "dir", "link_dir"}
     /\ ~ (Kind[e] = "link_file" /\ IsRegular(e))
     /\ UNCHANGED <<files_to_shred, dirs_to_remove>>

Stepped(e) ==
  \/ Kind[e] # "dir" /\ stack' = Rest(e) /\ UNCHANGED <<pc, refused>>
  \/ /\ Kind[e] = "dir" /\ stack' = Append(Rest(e), Children(e))
     /\ Children(e) \in SUBSET Ours
     /\ UNCHANGED <<pc, refused>>
  \/ stack' = Rest(e) /\ refused' = refused \union {e} /\ UNCHANGED pc
  \/ pc' = "thrown" /\ UNCHANGED <<stack, refused>>

VisitOf(e) ==
  /\ Len(stack) \in DOMAIN stack /\ e \in stack[Len(stack)]
  /\ Rest(e) \in Seq(SUBSET Ours)
  /\ Listed(e)
  /\ Stepped(e)

\* Each iteration is one for some entry of ours.
LEMMA VisitOutcome ==
  ASSUME TypeInv, Visit
  PROVE  \E e \in Ours : VisitOf(e)
<1>1. PICK e \in Last(stack) :
        LET rest == [stack EXCEPT ![Len(stack)] = @ \ {e}]
        IN  /\ List(e)
            /\ \/ ~ Entered(e) /\ stack' = rest /\ UNCHANGED <<pc, refused>>
               \/ /\ Entered(e) /\ e \in Present
                  /\ stack' = Append(rest, Children(Resolved(e)))
                  /\ UNCHANGED <<pc, refused>>
               \/ Entered(e) /\ stack' = rest /\ refused' = refused \union {e} /\ UNCHANGED pc
               \/ /\ Entered(e) \/ e \in DOMAIN LinkTo
                  /\ pc' = "thrown"
                  /\ UNCHANGED <<stack, refused>>
  BY DEF Visit
<1>2. stack # <<>> /\ stack \in Seq(SUBSET Ours)
  BY DEF Visit, TypeInv
<1>3. Len(stack) \in DOMAIN stack /\ stack[Len(stack)] \in SUBSET Ours
  BY <1>2
<1>4. e \in stack[Len(stack)] /\ e \in Ours
  BY <1>3 DEF Last
<1>5. Rest(e) \in Seq(SUBSET Ours)
  BY <1>2, <1>3 DEF Rest
<1>6. Listed(e)
  <2>1. List(e)
    BY <1>1
  <2>2. CASE Kind[e] = "file" \/ (Kind[e] = "link_file" /\ IsRegular(e))
    BY <2>1, <2>2 DEF List, Listed
  <2>3. CASE Kind[e] \in {"dir", "link_dir"}
    BY <2>1, <2>3 DEF List, Listed
  <2>4. CASE ~ (Kind[e] = "file" \/ (Kind[e] = "link_file" /\ IsRegular(e)))
             /\ Kind[e] \notin {"dir", "link_dir"}
    BY <2>1, <2>4 DEF List, Listed
  <2>5. QED  BY <2>2, <2>3, <2>4
<1>7. Kind[e] = "dir" => Resolved(e) = e
  BY TreeAssumption DEF TreeAssumption, Resolved
<1>8. Stepped(e)
  <2>1. Children(e) \in SUBSET Ours
    BY <1>4, OurChildren
  <2>2. QED  BY <1>1, <1>7, <2>1 DEF Entered, Rest, Stepped
<1>9. QED  BY <1>3, <1>4, <1>5, <1>6, <1>8 DEF VisitOf

LEMMA VisitTypes == TypeInv /\ Visit => TypeInv'
<1> SUFFICES ASSUME TypeInv, Visit PROVE TypeInv'
  OBVIOUS
<1>1. PICK e \in Ours :
        /\ Rest(e) \in Seq(SUBSET Ours)
        /\ \/ files_to_shred' = Append(files_to_shred, e) /\ dirs_to_remove' = dirs_to_remove
           \/ /\ Kind[e] \in {"dir", "link_dir"}
              /\ dirs_to_remove' = Append(dirs_to_remove, e)
              /\ files_to_shred' = files_to_shred
           \/ UNCHANGED <<files_to_shred, dirs_to_remove>>
        /\ \/ stack' = Rest(e)
           \/ stack' = stack
           \/ stack' = Append(Rest(e), Children(e)) /\ Children(e) \in SUBSET Ours
  <2>1. PICK e \in Ours : VisitOf(e)
    BY VisitOutcome
  <2>2. QED  BY <2>1 DEF VisitOf, Listed, Stepped
<1>2. stack' \in Seq(SUBSET Ours)
  <2>1. CASE stack' = Append(Rest(e), Children(e)) /\ Children(e) \in SUBSET Ours
    <3>1. Append(Rest(e), Children(e)) \in Seq(SUBSET Ours)
      BY <1>1, <2>1, AppendRange
    <3>2. QED  BY <2>1, <3>1
  <2>2. QED  BY <1>1, <2>1 DEF TypeInv
<1>3. files_to_shred' \in Seq(Ours)
  <2>1. files_to_shred \in Seq(Ours)
    BY DEF TypeInv
  <2>2. Append(files_to_shred, e) \in Seq(Ours)
    BY <2>1, AppendRange
  <2>3. QED  BY <1>1, <2>1, <2>2
<1>4. dirs_to_remove' \in Seq(NoFiles)
  <2>1. dirs_to_remove \in Seq(NoFiles)
    BY DEF TypeInv
  <2>2. CASE Kind[e] \in {"dir", "link_dir"}
    <3>1. e \in NoFiles
      BY <2>2 DEF NoFiles
    <3>2. Append(dirs_to_remove, e) \in Seq(NoFiles)
      BY <2>1, <3>1, AppendRange
    <3>3. QED  BY <1>1, <2>1, <3>2
  <2>3. CASE Kind[e] \notin {"dir", "link_dir"}
    BY <1>1, <2>1, <2>3
  <2>4. QED  BY <2>2, <2>3
<1>5. QED  BY <1>2, <1>3, <1>4 DEF Visit, TypeInv, others, callVars, outcome, Present

\* Types and records after a call that is over, or was never made.
LEMMA RecordedTypes ==
  ASSUME TypeInv, current' \in Ours, status' \in Statuses, Recorded(status')
  PROVE  /\ records' \in Seq(Records)
         /\ Range(records') = Range(records) \union {[target |-> current', status |-> status']}
<1>1. [target |-> current', status |-> status'] \in Records
  BY DEF Records
<1>2. QED  BY <1>1, AppendRange DEF Recorded, TypeInv

\* A root that cannot be looked at has at most one more record.
LEMMA RootRecords ==
  ASSUME TypeInv, RootNotADirectory
  PROVE  records' \in Seq(Records) /\ Range(records) \subseteq Range(records')
<1> DEFINE skipped == [target |-> target, status |-> "SKIPPED_NOT_REGULAR_FILE"]
<1>1. skipped \in Records
  BY DEF Records, Statuses, TypeInv
<1>2. CASE UNCHANGED records
  BY <1>2 DEF TypeInv
<1>3. CASE records' = Append(records, skipped)
  BY <1>1, <1>3, AppendRange DEF TypeInv
<1>4. QED  BY <1>2, <1>3 DEF RootNotADirectory

LEMMA StartFileStep == IInv /\ StartFile => IInv'
<1> SUFFICES ASSUME IInv, StartFile PROVE IInv'
  OBVIOUS
<1>1. /\ current' \in Ours /\ files_to_shred' \in Seq(Ours)
      /\ status' \in Statuses
      /\ UNCHANGED <<target, tree, created, vanished, stack, dirs_to_remove>>
  <2>1. files_to_shred \in Seq(Ours) /\ files_to_shred # <<>>
    BY DEF StartFile, IInv, TypeInv
  <2>2. Head(files_to_shred) \in Ours /\ Tail(files_to_shred) \in Seq(Ours)
    BY <2>1, TailRange
  <2>3. status' \in Statuses
    BY DEF StartFile, Statuses
  <2>4. QED  BY <2>2, <2>3 DEF StartFile, others
<1>2. records' \in Seq(Records) /\ Range(records) \subseteq Range(records')
  <2>1. CASE UNCHANGED records
    BY <2>1 DEF IInv, TypeInv
  <2>2. CASE Recorded(status')
    BY <1>1, <2>2, RecordedTypes DEF IInv
  <2>3. QED  BY <2>1, <2>2 DEF StartFile, outcome
<1>3. TypeInv'
  BY <1>1, <1>2 DEF IInv, TypeInv, Present
<1>4. NothingUnshreddedRemoved' /\ ElsewhereKeepsItsEntries'
  BY <1>1, <1>2, NothingLost DEF Present
<1>5. QED  BY <1>3, <1>4 DEF StartFile, IInv

LEMMA CallKeeps == IInv /\ CallStep => IInv'
<1> SUFFICES ASSUME IInv, CallStep PROVE IInv'
  OBVIOUS
<1>1. /\ current' = current
      /\ UNCHANGED <<target, created, vanished, stack, files_to_shred, dirs_to_remove>>
  BY DEF CallStep, others, walk
<1>2. /\ status' \in Statuses
      /\ entry' = "none" => entry = "none" \/ status' \in Overwritten
  BY DEF CallStep, C!Next, C!Refuse, C!Mask, C!Finish, Statuses, Overwritten, IInv, TypeInv
<1>3. entry' = "none" => status' \in Overwritten
  BY DEF CallStep, C!Next, C!Refuse, C!Mask, C!Finish, Overwritten
<1>4. /\ Present' \subseteq Present
      /\ \A e \in Present : e \in Present' \/ (e = current /\ status' \in Overwritten)
  <2>1. CASE current \notin Present
    BY <2>1 DEF CallStep, Present
  <2>2. CASE current \in Present /\ entry' = "none"
    BY <1>3, <2>2 DEF CallStep, Present
  <2>3. CASE current \in Present /\ entry' # "none"
    BY <2>3 DEF CallStep, Present
  <2>4. QED  BY <2>1, <2>2, <2>3
<1>5. /\ records' \in Seq(Records)
      /\ Range(records) \subseteq Range(records')
      /\ status' \in Overwritten => [target |-> current, status |-> status'] \in Range(records')
  <2>1. CASE status' = "PENDING"
    BY <2>1 DEF CallStep, outcome, IInv, TypeInv, Overwritten
  <2>2. CASE status' # "PENDING"
    <3>1. Recorded(status')
      BY <2>2 DEF CallStep
    <3>2. current' \in Ours
      BY <1>1 DEF IInv, TypeInv
    <3>3. QED  BY <1>1, <1>2, <3>1, <3>2, RecordedTypes DEF IInv
  <2>3. QED  BY <2>1, <2>2
<1>6. \A e \in RegularFiles : e \in Present => e \in Present' \/ Reported(e, Overwritten)'
  BY <1>4, <1>5 DEF Reported, Overwritten
<1>7. NothingUnshreddedRemoved' /\ ElsewhereKeepsItsEntries'
  <2>1. current \notin Elsewhere
    BY DEF IInv, TypeInv, Ours
  <2>2. QED  BY <1>1, <1>4, <1>5, <1>6, <2>1, NothingLost
<1>8. TypeInv'
  BY <1>1, <1>2, <1>4, <1>5 DEF IInv, TypeInv
<1>9. QED  BY <1>1, <1>7, <1>8 DEF CallStep, IInv

\* Removing what is not a file takes no file away.
LEMMA RemoveKeepsFiles ==
  ASSUME IInv, NEW d \in NoFiles, fs_remove(d),
         UNCHANGED <<created, vanished, records>>
  PROVE  /\ NothingUnshreddedRemoved' /\ ElsewhereKeepsItsEntries'
         /\ Present' \subseteq Present
<1>1. Present' \subseteq Present /\ \A e \in Present : e # d => e \in Present'
  BY DEF fs_remove, Present
<1>2. \A e \in RegularFiles \union Elsewhere : e # d
  BY DEF RegularFiles, NoFiles, Ours
<1>3. QED  BY <1>1, <1>2, NothingLost DEF Present

LEMMA InvStep == IInv /\ [Next]_vars => IInv'
<1> SUFFICES ASSUME IInv, [Next]_vars PROVE IInv'
  OBVIOUS
<1>1. CASE UNCHANGED vars
  <2>1. TypeInv'
    BY <1>1 DEF vars, walk, others, callVars, outcome, IInv, TypeInv, Present
  <2>2. QED  BY <1>1, <2>1, TreeUntouched DEF vars, outcome, IInv
<1>2. CASE ShredFileAtOnce
  <2>1. TypeInv'
    BY <1>2 DEF ShredFileAtOnce, others, callVars, outcome, IInv, TypeInv, Present
  <2>2. QED  BY <1>2, <2>1, TreeUntouched DEF ShredFileAtOnce, outcome
<1>3. CASE RefuseDirectory
  <2>1. TypeInv'
    BY <1>3 DEF RefuseDirectory, walk, others, callVars, outcome, IInv, TypeInv, Present
  <2>2. QED  BY <1>3, <2>1, TreeUntouched DEF RefuseDirectory, outcome
<1>r. CASE RootNotADirectory
  <2>1. /\ pc = "start" /\ pc' = "returned" /\ refused' = refused \union {target}
        /\ UNCHANGED <<target, tree, others, walk, callVars, ok, ends>>
    BY <1>r DEF RootNotADirectory
  <2>2. records' \in Seq(Records) /\ Range(records) \subseteq Range(records')
    BY <1>r, RootRecords DEF IInv
  <2>3. TypeInv'
    BY <2>1, <2>2 DEF walk, others, callVars, IInv, TypeInv, Present
  <2>4. NothingUnshreddedRemoved' /\ ElsewhereKeepsItsEntries'
    BY <2>1, <2>2, NothingLost DEF others, Present
  <2>5. QED  BY <2>1, <2>3, <2>4 DEF IInv
<1>4. CASE OpenRoot
  <2>1. Children(target) \in SUBSET Ours
    BY OurChildren DEF IInv, TypeInv
  <2>2. stack' \in Seq(SUBSET Ours)
    <3>1. <<Children(target)>> \in Seq(SUBSET Ours) /\ <<>> \in Seq(SUBSET Ours)
      BY <2>1, SingletonSeq
    <3>2. QED  BY <1>4, <3>1 DEF OpenRoot
  <2>3. TypeInv'
    BY <1>4, <2>2 DEF OpenRoot, others, callVars, outcome, IInv, TypeInv, Present
  <2>4. QED  BY <1>4, <2>3, TreeUntouched DEF OpenRoot, outcome
<1>5. CASE Visit
  <2>1. TypeInv'
    BY <1>5, VisitTypes DEF IInv
  <2>2. pc' # "remove"
    BY <1>5 DEF Visit
  <2>3. QED  BY <1>5, <2>1, <2>2, TreeUntouched DEF Visit, outcome
<1>6. CASE Ascend
  <2>1. stack' \in Seq(SUBSET Ours)
    <3>1. stack \in Seq(SUBSET Ours)
      BY DEF IInv, TypeInv
    <3>2. CASE stack = <<>>
      BY <1>6, <3>1, <3>2 DEF Ascend
    <3>3. CASE stack # <<>>
      <4>1. Front(stack) \in Seq(SUBSET Ours)
        BY <3>1, <3>3, FrontOfSeq
      <4>2. QED  BY <1>6, <3>3, <4>1 DEF Ascend
    <3>4. QED  BY <3>2, <3>3
  <2>2. TypeInv'
    BY <1>6, <2>1 DEF Ascend, others, callVars, outcome, IInv, TypeInv, Present
  <2>3. QED  BY <1>6, <2>2, TreeUntouched DEF Ascend, outcome
<1>7. CASE StartFile
  BY <1>7, StartFileStep
<1>8. CASE CallStep
  BY <1>8, CallKeeps
<1>9. CASE FileDone
  <2>1. TypeInv'
    BY <1>9 DEF FileDone, walk, others, callVars, outcome, IInv, TypeInv, Present
  <2>2. pc' = "remove" => Kind[target'] # "file"
    BY <1>9 DEF FileDone, Single
  <2>3. QED  BY <1>9, <2>1, <2>2, TreeUntouched DEF FileDone, outcome
<1>10. CASE RemoveDirectory
  <2>1. dirs_to_remove \in Seq(NoFiles) /\ dirs_to_remove # <<>>
    BY <1>10 DEF RemoveDirectory, IInv, TypeInv
  <2>2. dirs_to_remove[NextDirectory] \in NoFiles /\ dirs_to_remove' \in Seq(NoFiles)
    BY <1>10, <2>1 DEF RemoveDirectory, NextDirectory, RemoveAt
  <2>3. NothingUnshreddedRemoved' /\ ElsewhereKeepsItsEntries' /\ Present' \subseteq Present
    BY <1>10, <2>2, RemoveKeepsFiles DEF RemoveDirectory, NoFiles, others, outcome
  <2>4. QED  BY <1>10, <2>2, <2>3 DEF RemoveDirectory, others, callVars, outcome, IInv, TypeInv
<1>11. CASE RemoveRoot
  <2>1. target \in NoFiles
    BY <1>11 DEF RemoveRoot, IInv, TypeInv, NoFiles
  <2>3. NothingUnshreddedRemoved' /\ ElsewhereKeepsItsEntries' /\ Present' \subseteq Present
    BY <1>11, <2>1, RemoveKeepsFiles DEF RemoveRoot, others
  <2>2. QED  BY <1>11, <2>3 DEF RemoveRoot, others, callVars, walk, IInv, TypeInv
<1>12. CASE Finish
  <2>1. TypeInv'
    BY <1>12 DEF Finish, walk, others, callVars, outcome, IInv, TypeInv, Present
  <2>2. QED  BY <1>12, <2>1, TreeUntouched DEF Finish, outcome
<1>13. CASE Create
  <2>1. PICK e \in Entries \ (Initial \union created) :
          /\ tree' = [f \in Present \union {e} |-> IF f = e THEN "original" ELSE tree[f]]
          /\ created' = created \union {e}
    BY <1>13 DEF Create
  <2>2. Present' = Present \union {e} /\ UNCHANGED <<vanished, records>>
    BY <1>13, <2>1 DEF Create, Present, outcome
  <2>3. \A f \in RegularFiles' : f \in RegularFiles \/ f = e
    BY <2>1 DEF RegularFiles
  <2>4. \A f : Reported(f, Overwritten)' <=> Reported(f, Overwritten)
    BY <2>2 DEF Reported, Overwritten
  <2>5. NothingUnshreddedRemoved' /\ ElsewhereKeepsItsEntries'
    BY <2>2, <2>3, <2>4 DEF IInv, NothingUnshreddedRemoved, ElsewhereKeepsItsEntries
  <2>6. QED  BY <1>13, <2>1, <2>2, <2>5 DEF Create, walk, callVars, outcome, IInv, TypeInv
<1>14. CASE Vanish
  <2>1. PICK e \in {e \in Present : Kind[e] = "file"} :
          /\ tree' = [f \in Present \ {e} |-> tree[f]]
          /\ vanished' = vanished \union {e}
    BY <1>14 DEF Vanish
  <2>2. Present' = Present \ {e} /\ UNCHANGED <<created, records>>
    BY <1>14, <2>1 DEF Vanish, Present, outcome
  <2>3. NothingUnshreddedRemoved' /\ ElsewhereKeepsItsEntries'
    BY <2>1, <2>2, NothingLost
  <2>4. QED  BY <1>14, <2>2, <2>3 DEF Vanish, walk, callVars, outcome, IInv, TypeInv
<1>15. QED
  BY <1>1, <1>2, <1>3, <1>r, <1>4, <1>5, <1>6, <1>7, <1>8, <1>9, <1>10, <1>11, <1>12, <1>13,
     <1>14
  DEF Next, Program

\* Whatever appears in the tree, cannot be listed or cannot be overwritten while
\* it is shredded: no file is removed but by a call that overwrote it.
THEOREM NoFileRemovedUnshredded == Spec => []NothingUnshreddedRemoved
<1>1. IInv => NothingUnshreddedRemoved
  BY DEF IInv
<1>2. QED  BY InvInit, InvStep, <1>1, PTL DEF Spec

\* What a link leads to may be overwritten, but no step of the command takes an
\* entry away from outside the tree, whatever the links and the other processes do.
THEOREM ElsewhereUntouched == Spec => []ElsewhereKeepsItsEntries
<1>1. IInv => ElsewhereKeepsItsEntries
  BY DEF IInv
<1>2. QED  BY InvInit, InvStep, <1>1, PTL DEF Spec

----------------------------------------------------------------------------
\* A target that is a file: one call, one record, and its answer is the exit code.

Answered == Reported(target, {"SUCCESS_WITH_WARNINGS", "SUCCESS_VERIFIED"})

OneCall ==
  /\ pc \in {"start", "shred", "call", "returned", "exited"}
  /\ pc = "start" => records = <<>> /\ ~ ok
  /\ pc = "shred" => \/ files_to_shred = <<target>> /\ records = <<>> /\ ~ ok
                     \/ files_to_shred = <<>> /\ (ok <=> Answered)
  /\ pc = "call" => /\ files_to_shred = <<>> /\ records = <<>> /\ ~ ok
                    /\ current = target /\ status = "PENDING" /\ ~ passed
  /\ pc \in {"returned", "exited"} => (ok <=> Answered)
  /\ pc = "exited" <=> exit # "running"
  /\ exit # "running" => (exit = "0" <=> ok)

OneFile == Single => OneCall

LEMMA OneFileInit == Init => OneFile
BY DEF Init, OneFile, OneCall, C!Init

\* The only record is that of the only call.
LEMMA FirstRecord ==
  ASSUME IInv, records = <<>>, current' = target, target' = target,
         status' \in Statuses, Recorded(status')
  PROVE  Answered' <=> status' \in {"SUCCESS_WITH_WARNINGS", "SUCCESS_VERIFIED"}
<1>1. Range(records) = {}
  BY DEF Range
<1>2. current' \in Ours
  BY DEF IInv, TypeInv
<1>3. Range(records') = {[target |-> current', status |-> status']}
  BY <1>1, <1>2, RecordedTypes DEF IInv
<1>4. QED  BY <1>3 DEF Answered, Reported

LEMMA OneFileStep == IInv /\ OneFile /\ [Next]_vars => OneFile'
<1> SUFFICES ASSUME IInv, OneFile, [Next]_vars, Single' PROVE OneCall'
  BY DEF OneFile
<1>1. target' = target
  BY DEF Next, Program, vars, ShredFileAtOnce, RefuseDirectory, RootNotADirectory, OpenRoot,
         Visit, Ascend, StartFile, CallStep, FileDone, RemoveDirectory, RemoveRoot, Finish, Create, Vanish
<1>2. Single /\ OneCall
  BY <1>1 DEF Single, OneFile
<1>3. UNCHANGED records => (Answered' <=> Answered)
  BY <1>1 DEF Answered, Reported
<1>4. CASE UNCHANGED vars \/ Create \/ Vanish
  <2>1. UNCHANGED <<target, pc, files_to_shred, current, status, passed, records, ok, exit>>
    BY <1>4 DEF vars, Create, Vanish, walk, callVars, outcome, ends
  <2>2. QED  BY <1>2, <1>3, <2>1 DEF OneCall
<1>5. CASE ShredFileAtOnce
  BY <1>1, <1>2, <1>5 DEF OneCall, ShredFileAtOnce, outcome, ends
<1>6. CASE RefuseDirectory \/ RootNotADirectory \/ OpenRoot
  BY <1>2, <1>6 DEF RefuseDirectory, RootNotADirectory, OpenRoot
<1>7. CASE Visit \/ Ascend \/ RemoveDirectory \/ RemoveRoot
  BY <1>2, <1>7 DEF OneCall, Visit, Ascend, RemoveDirectory, RemoveRoot
<1>8. CASE StartFile
  <2>1. files_to_shred = <<target>> /\ records = <<>> /\ ~ ok /\ exit = "running"
    BY <1>2, <1>8 DEF OneCall, StartFile
  <2>2. current' = target /\ files_to_shred' = <<>> /\ exit' = "running"
    BY <1>8, <2>1 DEF StartFile, ends
  <2>3. CASE pc' = "call" /\ status' = "PENDING" /\ UNCHANGED outcome
    BY <1>1, <1>8, <2>1, <2>2, <2>3 DEF OneCall, StartFile, outcome
  <2>4. CASE /\ status' = "SKIPPED_NOT_REGULAR_FILE"
             /\ Recorded(status') /\ Answer(FALSE) /\ UNCHANGED pc
    <3>1. /\ status' = "SKIPPED_NOT_REGULAR_FILE" /\ Recorded(status')
          /\ ~ ok' /\ pc' = "shred"
      BY <1>2, <1>8, <2>4 DEF StartFile, Answer, OneCall
    <3>2. ~ Answered'
      BY <1>1, <2>1, <2>2, <3>1, FirstRecord DEF Statuses
    <3>3. QED  BY <2>2, <3>1, <3>2 DEF OneCall
  <2>5. QED  BY <1>8, <2>3, <2>4 DEF StartFile
<1>9. CASE CallStep
  <2>1. /\ files_to_shred = <<>> /\ records = <<>> /\ ~ ok /\ exit = "running"
        /\ current = target /\ status = "PENDING" /\ ~ passed
    BY <1>2, <1>9 DEF OneCall, CallStep
  <2>2. current' = target /\ files_to_shred' = <<>> /\ exit' = "running"
    BY <1>9, <2>1 DEF CallStep, walk, ends
  <2>3. /\ status' \in Statuses
        /\ status' = "PENDING" => ~ passed'
        /\ passed' <=> status' \in {"SUCCESS_WITH_WARNINGS", "SUCCESS_VERIFIED"}
    BY <1>9, <2>1 DEF CallStep, C!Next, C!Refuse, C!Mask, C!Finish, Statuses, Overwritten
  <2>4. CASE status' = "PENDING"
    BY <1>1, <1>9, <2>1, <2>2, <2>3, <2>4 DEF OneCall, CallStep, outcome
  <2>5. CASE status' # "PENDING"
    <3>1. pc' = "shred" /\ Recorded(status') /\ ok' = passed'
      BY <1>2, <1>9, <2>5 DEF CallStep, Answer
    <3>2. Answered' <=> passed'
      BY <1>1, <2>1, <2>2, <2>3, <3>1, FirstRecord
    <3>3. QED  BY <2>2, <3>1, <3>2 DEF OneCall
  <2>6. QED  BY <2>4, <2>5
<1>10. CASE FileDone
  BY <1>1, <1>2, <1>3, <1>10 DEF OneCall, FileDone, callVars, outcome, ends
<1>11. CASE Finish
  <2>1. /\ ok <=> Answered
        /\ Answered' <=> Answered
        /\ pc' = "exited" /\ ok' = ok /\ exit' = IF ok THEN "0" ELSE "1"
    BY <1>2, <1>3, <1>11 DEF OneCall, Finish, outcome
  <2>2. QED  BY <2>1 DEF OneCall
<1>12. QED
  BY <1>4, <1>5, <1>6, <1>7, <1>8, <1>9, <1>10, <1>11 DEF Next, Program

\* For a file the exit code says what its one record says: 0 when the shredder
\* found it destroyed, and only then.
THEOREM FileExit == Spec => []FileExitHonest
<1>1. OneFile => FileExitHonest
  BY DEF OneFile, OneCall, Answered, FileExitHonest
<1>2. QED  BY InvInit, InvStep, OneFileInit, OneFileStep, <1>1, PTL DEF Spec

----------------------------------------------------------------------------
\* How far the command has come with what it was given.

Files == Range(files_to_shred)

\* Only files, and links to files, are shredded; until the directories are
\* removed none is gone; the lists are empty before they are filled and, that of
\* the files, once it is done with.
Stages ==
  /\ target \in Targets
  /\ \A f \in Files : Kind[f] \in {"file", "link_file"}
  /\ pc = "call" => Kind[current] \in {"file", "link_file"}
  /\ pc = "start" => stack = <<>> /\ files_to_shred = <<>> /\ dirs_to_remove = <<>>
  /\ pc \in {"remove", "returned"} => files_to_shred = <<>>
  /\ Single => dirs_to_remove = <<>> /\ pc \notin {"walk", "remove"}
  /\ pc \in {"start", "walk"} =>
       /\ \A e \in Initial : e \in Present \/ e \in vanished
       /\ \A e \in Present : tree[e] = "original"
  /\ pc \in {"start", "walk", "shred", "call"} =>
       \A e \in Initial : Kind[e] = "dir" => e \in Present

LEMMA StagesInit == Init => Stages
BY DEF Init, Stages, Files, Range, Present

LEMMA StagesStep == IInv /\ Stages /\ [Next]_vars => Stages'
<1> SUFFICES ASSUME IInv, Stages, [Next]_vars PROVE Stages'
  OBVIOUS
<1>0. target' = target
  BY DEF Next, Program, vars, ShredFileAtOnce, RefuseDirectory, RootNotADirectory, OpenRoot,
         Visit, Ascend, StartFile, CallStep, FileDone, RemoveDirectory, RemoveRoot, Finish, Create, Vanish
<1>1. CASE UNCHANGED vars
  BY <1>1 DEF vars, walk, others, callVars, Stages, Files, Present, Single
<1>2. CASE ShredFileAtOnce
  <2>1. Range(files_to_shred') = {target} /\ Kind[target] = "file"
    BY <1>2 DEF ShredFileAtOnce, Single, IInv, TypeInv, Range
  <2>2. UNCHANGED <<target, tree, vanished, dirs_to_remove, current>> /\ pc' = "shred"
    BY <1>2 DEF ShredFileAtOnce, others, callVars
  <2>3. pc = "start"
    BY <1>2 DEF ShredFileAtOnce
  <2>4. QED  BY <2>1, <2>2, <2>3 DEF Stages, Files, Present, Single
<1>3. CASE RefuseDirectory
  BY <1>3 DEF RefuseDirectory, walk, Stages, Files, Single
<1>r. CASE RootNotADirectory
  BY <1>r DEF RootNotADirectory, walk, Stages, Files, Single
<1>4. CASE OpenRoot
  BY <1>4 DEF OpenRoot, others, Stages, Files, Present, Single
<1>5. CASE Visit
  <2>1. PICK e \in Ours : VisitOf(e)
    BY <1>5, VisitOutcome DEF IInv
  <2>2. \A f \in Range(files_to_shred') : Kind[f] \in {"file", "link_file"}
    <3>1. CASE /\ Kind[e] = "file" \/ (Kind[e] = "link_file" /\ IsRegular(e))
               /\ files_to_shred' = Append(files_to_shred, e)
      <4>1. Range(files_to_shred') = Range(files_to_shred) \union {e}
        BY <3>1, AppendRange DEF IInv, TypeInv
      <4>2. QED  BY <3>1, <4>1 DEF Stages, Files
    <3>2. CASE files_to_shred' = files_to_shred
      BY <3>2 DEF Stages, Files
    <3>3. QED  BY <2>1, <3>1, <3>2 DEF VisitOf, Listed
  <2>3. pc = "walk" /\ pc' \in {"walk", "thrown"} /\ ~ Single
    BY <1>5, <2>1 DEF Visit, VisitOf, Stepped, Stages
  <2>4. UNCHANGED <<target, tree, vanished, current>>
    BY <1>5 DEF Visit, others, callVars
  <2>5. QED  BY <2>2, <2>3, <2>4 DEF Stages, Files, Present, Single
<1>6. CASE Ascend
  BY <1>6 DEF Ascend, others, Stages, Files, Present, Single
<1>7. CASE StartFile
  <2>1. files_to_shred \in Seq(Ours) /\ files_to_shred # <<>>
    BY <1>7 DEF StartFile, IInv, TypeInv
  <2>2. Range(files_to_shred) = {Head(files_to_shred)} \union Range(Tail(files_to_shred))
    BY <2>1, TailRange
  <2>3. /\ Kind[current'] \in {"file", "link_file"}
        /\ \A f \in Range(files_to_shred') : Kind[f] \in {"file", "link_file"}
    BY <1>7, <2>2 DEF StartFile, Stages, Files
  <2>4. /\ UNCHANGED <<target, tree, vanished, dirs_to_remove>>
        /\ pc = "shred" /\ pc' \in {"shred", "call"}
    BY <1>7 DEF StartFile, others
  <2>5. QED  BY <2>3, <2>4 DEF Stages, Files, Present, Single
<1>8. CASE CallStep
  <2>1. \A e \in Present : e \in Present' \/ e = current
    <3>1. CASE current \notin Present
      BY <1>8, <3>1 DEF CallStep, Present
    <3>2. CASE current \in Present /\ entry' = "none"
      BY <1>8, <3>2 DEF CallStep, Present
    <3>3. CASE current \in Present /\ entry' # "none"
      BY <1>8, <3>3 DEF CallStep, Present
    <3>4. QED  BY <3>1, <3>2, <3>3
  <2>2. pc = "call" /\ pc' \in {"shred", "call"} /\ current' = current
    BY <1>8 DEF CallStep
  <2>3. UNCHANGED <<files_to_shred, dirs_to_remove>>
    BY <1>8 DEF CallStep, walk
  <2>4. \A e \in Initial : Kind[e] = "dir" => e \in Present'
    BY <2>1, <2>2 DEF Stages
  <2>5. QED  BY <1>0, <2>2, <2>3, <2>4 DEF Stages, Files, Single
<1>9. CASE FileDone
  BY <1>9 DEF FileDone, walk, Stages, Files, Single
<1>10. CASE RemoveDirectory
  BY <1>10 DEF RemoveDirectory, Stages, Files, Single
<1>11. CASE RemoveRoot
  BY <1>11 DEF RemoveRoot, walk, Stages, Files, Single
<1>12. CASE Finish
  BY <1>12 DEF Finish, walk, Stages, Files, Single
<1>13. CASE Create
  <2>1. PICK e \in Entries \ (Initial \union created) :
          tree' = [f \in Present \union {e} |-> IF f = e THEN "original" ELSE tree[f]]
    BY <1>13 DEF Create
  <2>2. /\ Present' = Present \union {e}
        /\ \A f \in Present : tree[f] = "original" => tree'[f] = "original"
        /\ tree'[e] = "original"
    BY <2>1 DEF Present
  <2>3. UNCHANGED <<target, vanished, pc, stack, files_to_shred, dirs_to_remove, current>>
    BY <1>13 DEF Create, walk, callVars
  <2>4. QED  BY <2>2, <2>3 DEF Stages, Files, Single
<1>14. CASE Vanish
  <2>1. PICK e \in {e \in Present : Kind[e] = "file"} :
          /\ tree' = [f \in Present \ {e} |-> tree[f]]
          /\ vanished' = vanished \union {e}
    BY <1>14 DEF Vanish
  <2>2. /\ Present' = Present \ {e} /\ Kind[e] = "file"
        /\ \A f \in Present' : tree'[f] = tree[f]
    BY <2>1 DEF Present
  <2>3. UNCHANGED <<target, pc, stack, files_to_shred, dirs_to_remove, current>>
    BY <1>14 DEF Vanish, walk, callVars
  <2>4. QED  BY <2>1, <2>2, <2>3 DEF Stages, Files, Single
<1>15. QED
  BY <1>1, <1>2, <1>3, <1>r, <1>4, <1>5, <1>6, <1>7, <1>8, <1>9, <1>10, <1>11, <1>12, <1>13,
     <1>14
  DEF Next, Program

----------------------------------------------------------------------------
\* The order of the walk: a directory comes after the one it is in.

Disjoint(s) == \A k, l \in DOMAIN s : k # l => s[k] \intersect s[l] = {}

Ordered ==
  \A i, j \in DOMAIN dirs_to_remove : Parent[dirs_to_remove[i]] = dirs_to_remove[j] => j < i

\* Wherever the walk starts: what waits to be visited is in a directory it has come
\* to, waits once, and is not among those it has come to.
InOrder ==
  /\ Ordered
  /\ pc = "walk" =>
       /\ \A e \in Pending \union Range(dirs_to_remove) : Parent[e] \in Entering
       /\ Disjoint(stack)
       /\ Pending \intersect Entering = {}

\* No entry lies in itself, and the whole tree lies in no directory.
LEMMA NoLoop ==
  /\ Top \notin Entries
  /\ \A e \in Entries : Parent[e] # e
<1>1. ASSUME NEW e \in Entries PROVE Parent[e] # e
  <2>1. {e} \in (SUBSET Entries) \ {{}}
    OBVIOUS
  <2>2. \E f \in {e} : Parent[f] \notin {e}
    BY <2>1, TreeShape DEF TreeShape
  <2>3. QED  BY <2>2
<1>2. QED  BY <1>1, TreeShape DEF TreeShape

\* Nothing that hangs on the directory the walk started from leads back to it.
LEMMA NoWayBack ==
  ASSUME NEW S \in SUBSET Entries, NEW t \in S, \A f \in S : f = t \/ Parent[f] \in S
  PROVE  Parent[t] \notin S
<1>1. S \in (SUBSET Entries) \ {{}}
  OBVIOUS
<1>2. PICK f \in S : Parent[f] \notin S
  BY <1>1, TreeShape DEF TreeShape
<1>3. QED  BY <1>2

\* The levels of the walk when an entry of the last has been taken.
LEMMA RestLevels ==
  ASSUME TypeInv, NEW e, Len(stack) \in DOMAIN stack, e \in stack[Len(stack)]
  PROVE  /\ UNION Range(Rest(e)) \subseteq Pending
         /\ Pending \subseteq (UNION Range(Rest(e))) \union {e}
         /\ Disjoint(stack) => Disjoint(Rest(e)) /\ e \notin UNION Range(Rest(e))
<1>1. /\ DOMAIN Rest(e) = DOMAIN stack
      /\ Rest(e)[Len(stack)] = stack[Len(stack)] \ {e}
      /\ \A k \in DOMAIN stack : k # Len(stack) => Rest(e)[k] = stack[k]
  BY DEF TypeInv, Rest
<1> HIDE DEF Rest
<1>2. \A k \in DOMAIN stack : Rest(e)[k] \subseteq stack[k] /\ stack[k] \subseteq Rest(e)[k] \union {e}
  BY <1>1
<1>3. Range(Rest(e)) = {Rest(e)[k] : k \in DOMAIN stack} /\ Range(stack) = {stack[k] : k \in DOMAIN stack}
  BY <1>1 DEF Range
<1>4. UNION Range(Rest(e)) \subseteq Pending
  BY <1>2, <1>3 DEF Pending
<1>5. ASSUME NEW x \in Pending PROVE x \in (UNION Range(Rest(e))) \union {e}
  <2>1. PICK k \in DOMAIN stack : x \in stack[k]
    BY <1>3 DEF Pending
  <2>2. x \in Rest(e)[k] \union {e} /\ Rest(e)[k] \in Range(Rest(e))
    BY <1>2, <1>3, <2>1
  <2>3. CASE x \in Rest(e)[k]
    BY <2>2, <2>3
  <2>4. CASE x = e
    BY <2>4
  <2>5. QED  BY <2>2, <2>3, <2>4
<1>6. ASSUME Disjoint(stack) PROVE Disjoint(Rest(e)) /\ e \notin UNION Range(Rest(e))
  <2>1. Disjoint(Rest(e))
    BY <1>1, <1>2, <1>6 DEF Disjoint
  <2>2. \A k \in DOMAIN stack : e \notin Rest(e)[k]
    BY <1>1, <1>6 DEF Disjoint
  <2>3. QED  BY <1>3, <2>1, <2>2
<1>7. QED  BY <1>4, <1>5, <1>6

LEMMA AppendDisjoint ==
  ASSUME NEW S, NEW s \in Seq(S), NEW x \in S, Disjoint(s),
         x \intersect (UNION Range(s)) = {}
  PROVE  Disjoint(Append(s, x))
<1>1. /\ DOMAIN Append(s, x) = DOMAIN s \union {Len(s) + 1}
      /\ \A i \in DOMAIN s : Append(s, x)[i] = s[i]
      /\ Append(s, x)[Len(s) + 1] = x
  OBVIOUS
<1>2. \A i \in DOMAIN s : s[i] \intersect x = {}
  BY DEF Range
<1>3. QED  BY <1>1, <1>2 DEF Disjoint

\* Leaving a directory that has been gone through.
LEMMA FrontLevels ==
  ASSUME NEW S, NEW s \in Seq(S), s # <<>>, Last(s) = {}
  PROVE  /\ UNION Range(Front(s)) = UNION Range(s)
         /\ Disjoint(s) => Disjoint(Front(s))
<1>1. /\ DOMAIN Front(s) = 1 .. (Len(s) - 1)
      /\ \A i \in 1 .. (Len(s) - 1) : Front(s)[i] = s[i]
  BY DEF Front
<1>2. DOMAIN s = (1 .. (Len(s) - 1)) \union {Len(s)} /\ s[Len(s)] = {}
  BY DEF Last
<1>3. UNION Range(Front(s)) = UNION Range(s)
  BY <1>1, <1>2 DEF Range
<1>4. Disjoint(s) => Disjoint(Front(s))
  BY <1>1, <1>2 DEF Disjoint
<1>5. QED  BY <1>3, <1>4

LEMMA InOrderInit == Init => InOrder
BY DEF Init, InOrder, Ordered

\* The list of directories keeps its order when nothing is added to it.
LEMMA OrderedKept ==
  ASSUME IInv, Ordered,
         \/ dirs_to_remove' = dirs_to_remove
         \/ dirs_to_remove' = <<>>
         \/ /\ dirs_to_remove # <<>>
            /\ dirs_to_remove' = RemoveAt(dirs_to_remove, Len(dirs_to_remove))
  PROVE  Ordered'
<1>1. CASE dirs_to_remove' = dirs_to_remove \/ dirs_to_remove' = <<>>
  BY <1>1 DEF Ordered
<1>2. CASE /\ dirs_to_remove # <<>>
           /\ dirs_to_remove' = RemoveAt(dirs_to_remove, Len(dirs_to_remove))
  <2>1. dirs_to_remove \in Seq(NoFiles)
    BY DEF IInv, TypeInv
  <2>2. /\ DOMAIN dirs_to_remove' = 1 .. (Len(dirs_to_remove) - 1)
        /\ \A i \in 1 .. (Len(dirs_to_remove) - 1) : dirs_to_remove'[i] = dirs_to_remove[i]
    BY <1>2, <2>1, RemoveLast
  <2>3. DOMAIN dirs_to_remove = 1 .. Len(dirs_to_remove) /\ Len(dirs_to_remove) \in Nat
    BY <2>1
  <2>4. QED  BY <2>2, <2>3 DEF Ordered
<1>3. QED  BY <1>1, <1>2

\* One iteration of the walk keeps the order.
LEMMA VisitOrder ==
  ASSUME IInv, InOrder, Visit
  PROVE  /\ Ordered'
         /\ pc' = "walk" => InOrder'
<1>1. PICK e \in Ours : VisitOf(e)
  BY VisitOutcome DEF IInv
<1> DEFINE P == UNION Range(Rest(e))
           E == {target} \union Range(dirs_to_remove')
<1>2. target' = target /\ pc = "walk"
  BY DEF Visit
<1>3. /\ Ordered /\ Disjoint(stack) /\ Pending \intersect Entering = {}
      /\ \A f \in Pending \union Range(dirs_to_remove) : Parent[f] \in Entering
  BY <1>2 DEF InOrder
<1>4. e \in Pending /\ e \in Entries /\ Parent[e] # e /\ e # target
  <2>1. e \in Pending
    BY <1>1 DEF VisitOf, Pending, Range
  <2>2. QED  BY <1>3, <2>1, NoLoop DEF Ours, Entering
<1>5. \A f \in Pending \union Entering : Parent[f] # e
  <2>1. Parent[target] # e
    <3> DEFINE S == Entering \union {e}
    <3>1. S \in SUBSET Entries /\ target \in S
      BY <1>4 DEF Entering, IInv, TypeInv, Range, NoFiles, Ours
    <3>2. \A f \in S : f = target \/ Parent[f] \in S
      BY <1>3, <1>4 DEF Entering
    <3> QED  BY <3>1, <3>2, NoWayBack
  <2>2. e \notin Entering
    BY <1>3, <1>4
  <2>3. QED  BY <1>3, <2>1, <2>2 DEF Entering
<1>6. /\ P \subseteq Pending /\ e \notin P /\ Disjoint(Rest(e))
      /\ Rest(e) \in Seq(SUBSET Ours)
  BY <1>1, <1>3, RestLevels DEF VisitOf, IInv, TypeInv
<1>7. /\ E = Entering \/ E = Entering \union {e}
      /\ Kind[e] = "dir" => e \in E
      /\ dirs_to_remove' = dirs_to_remove \/ dirs_to_remove' = Append(dirs_to_remove, e)
      /\ Range(dirs_to_remove') \subseteq Range(dirs_to_remove) \union {e}
  <2>1. dirs_to_remove \in Seq(NoFiles)
    BY DEF IInv, TypeInv
  <2>2. CASE Kind[e] \in {"dir", "link_dir"} /\ dirs_to_remove' = Append(dirs_to_remove, e)
    <3>1. e \in NoFiles
      BY <2>2 DEF NoFiles
    <3>2. Range(dirs_to_remove') = Range(dirs_to_remove) \union {e}
      BY <2>1, <2>2, <3>1, AppendRange
    <3>3. QED  BY <2>2, <3>2 DEF Entering
  <2>3. CASE Kind[e] \notin {"dir", "link_dir"} /\ dirs_to_remove' = dirs_to_remove
    BY <2>3 DEF Entering
  <2>4. QED  BY <1>1, <2>2, <2>3 DEF VisitOf, Listed
<1>8. Ordered'
  <2>1. CASE dirs_to_remove' = dirs_to_remove
    BY <1>3, <2>1 DEF Ordered
  <2>2. CASE dirs_to_remove' = Append(dirs_to_remove, e)
    <3>1. dirs_to_remove \in Seq(NoFiles)
      BY DEF IInv, TypeInv
    <3>2. /\ DOMAIN dirs_to_remove' = DOMAIN dirs_to_remove \union {Len(dirs_to_remove) + 1}
          /\ \A i \in DOMAIN dirs_to_remove : /\ dirs_to_remove'[i] = dirs_to_remove[i]
                                              /\ i \in Nat /\ i < Len(dirs_to_remove) + 1
          /\ dirs_to_remove'[Len(dirs_to_remove) + 1] = e
      BY <2>2, <3>1
    <3>3. \A i \in DOMAIN dirs_to_remove : Parent[dirs_to_remove[i]] # e
      BY <1>5 DEF Entering, Range
    <3>4. QED  BY <1>3, <1>4, <3>2, <3>3 DEF Ordered
  <2>3. QED  BY <1>7, <2>1, <2>2
<1>9. ASSUME pc' = "walk" PROVE InOrder'
  <2>1. CASE stack' = Rest(e)
    <3>1. Pending' = P /\ Entering' = E
      BY <1>2, <2>1 DEF Pending, Entering
    <3>2. \A f \in Pending' \union Range(dirs_to_remove') : Parent[f] \in Entering'
      BY <1>3, <1>4, <1>6, <1>7, <3>1 DEF Entering
    <3>3. Pending' \intersect Entering' = {} /\ Disjoint(stack')
      BY <1>3, <1>6, <1>7, <2>1, <3>1
    <3>4. QED  BY <1>2, <1>8, <3>2, <3>3 DEF InOrder
  <2>2. CASE Kind[e] = "dir" /\ stack' = Append(Rest(e), Children(e)) /\ Children(e) \in SUBSET Ours
    <3>1. Range(stack') = Range(Rest(e)) \union {Children(e)}
      BY <1>6, <2>2, AppendRange
    <3>2. Pending' = P \union Children(e) /\ Entering' = E
      BY <1>2, <3>1 DEF Pending, Entering
    <3>3. \A c \in Children(e) : Parent[c] = e
      BY DEF Children
    <3>4. Children(e) \intersect (Pending \union Entering \union {e}) = {}
      BY <1>4, <1>5, <3>3
    <3>5. \A f \in Pending' \union Range(dirs_to_remove') : Parent[f] \in Entering'
      BY <1>3, <1>4, <1>6, <1>7, <2>2, <3>2, <3>3 DEF Entering
    <3>6. Pending' \intersect Entering' = {}
      BY <1>3, <1>6, <1>7, <3>2, <3>4
    <3>7. Disjoint(stack')
      BY <1>6, <2>2, <3>4, AppendDisjoint
    <3>8. QED  BY <1>2, <1>8, <3>5, <3>6, <3>7 DEF InOrder
  <2>3. QED  BY <1>1, <1>9, <2>1, <2>2 DEF VisitOf, Stepped
<1>10. QED  BY <1>8, <1>9

LEMMA InOrderStep == IInv /\ Stages /\ InOrder /\ [Next]_vars => InOrder'
<1> SUFFICES ASSUME IInv, Stages, InOrder, [Next]_vars PROVE InOrder'
  OBVIOUS
<1>1. target' = target
  BY DEF Next, Program, vars, ShredFileAtOnce, RefuseDirectory, RootNotADirectory, OpenRoot,
         Visit, Ascend, StartFile, CallStep, FileDone, RemoveDirectory, RemoveRoot, Finish, Create, Vanish
<1>2. Ordered
  BY DEF InOrder
<1>3. CASE UNCHANGED vars \/ Create \/ Vanish
  <2>1. UNCHANGED <<pc, stack, dirs_to_remove>>
    BY <1>3 DEF vars, Create, Vanish, walk
  <2>2. QED  BY <1>1, <2>1 DEF InOrder, Ordered, Pending, Entering
<1>4. CASE ShredFileAtOnce \/ RefuseDirectory \/ RootNotADirectory \/ StartFile \/ CallStep
           \/ FileDone \/ RemoveRoot \/ Finish
  <2>1. dirs_to_remove' = dirs_to_remove /\ pc' # "walk"
    BY <1>4 DEF ShredFileAtOnce, RefuseDirectory, RootNotADirectory, StartFile, CallStep, FileDone,
                RemoveRoot, Finish, walk
  <2>2. QED  BY <1>2, <2>1, OrderedKept DEF InOrder
<1>5. CASE OpenRoot
  <2>1. dirs_to_remove' = <<>> /\ dirs_to_remove = <<>>
    BY <1>5 DEF OpenRoot, Stages
  <2>2. Entering' = {target} /\ Range(dirs_to_remove') = {}
    BY <1>1, <2>1 DEF Entering, Range
  <2>3. Ordered'
    BY <2>1 DEF Ordered
  <2>4. CASE stack' = <<Children(target)>>
    <3>1. Range(stack') = {Children(target)} /\ DOMAIN stack' = {1}
      BY <2>4 DEF Range
    <3>2. Pending' = Children(target) /\ Disjoint(stack')
      BY <3>1 DEF Pending, Disjoint
    <3>3. \A c \in Children(target) : Parent[c] = target
      BY DEF Children
    <3>4. Parent[target] # target
      BY NoLoop DEF IInv, TypeInv, Ours
    <3>5. target \notin Children(target)
      BY <3>3, <3>4
    <3>6. QED  BY <2>2, <2>3, <3>2, <3>3, <3>5 DEF InOrder
  <2>5. CASE stack' = <<>>
    <3>1. Pending' = {} /\ Disjoint(stack')
      BY <2>5 DEF Pending, Range, Disjoint
    <3>2. QED  BY <2>2, <2>3, <3>1 DEF InOrder
  <2>6. QED  BY <1>5, <2>4, <2>5 DEF OpenRoot
<1>6. CASE Visit
  <2>1. CASE pc' = "walk"
    BY <1>2, <1>6, <2>1, VisitOrder
  <2>2. CASE pc' # "walk"
    <3>1. Ordered'
      BY <1>2, <1>6, VisitOrder
    <3>2. QED  BY <2>2, <3>1 DEF InOrder
  <2>3. QED  BY <2>1, <2>2
<1>7. CASE Ascend
  <2>1. dirs_to_remove' = dirs_to_remove /\ pc = "walk"
    BY <1>7 DEF Ascend
  <2>2. Ordered'
    BY <1>2, <2>1, OrderedKept
  <2>3. CASE stack = <<>>
    BY <1>7, <2>2, <2>3 DEF Ascend, InOrder
  <2>4. CASE stack # <<>>
    <3>1. stack' = Front(stack) /\ Last(stack) = {} /\ pc' = "walk"
      BY <1>7, <2>1, <2>4 DEF Ascend
    <3>2. stack \in Seq(SUBSET Ours)
      BY DEF IInv, TypeInv
    <3>3. Pending' = Pending /\ (Disjoint(stack) => Disjoint(stack'))
      BY <2>4, <3>1, <3>2, FrontLevels DEF Pending
    <3>4. Entering' = Entering
      BY <1>1, <2>1 DEF Entering
    <3>5. QED  BY <1>1, <2>1, <2>2, <3>3, <3>4 DEF InOrder
  <2>5. QED  BY <2>3, <2>4
<1>8. CASE RemoveDirectory
  <2>1. Ordered' /\ pc' # "walk"
    BY <1>2, <1>8, OrderedKept DEF RemoveDirectory, NextDirectory
  <2>2. QED  BY <2>1 DEF InOrder
<1>9. QED
  BY <1>3, <1>4, <1>5, <1>6, <1>7, <1>8 DEF Next, Program

----------------------------------------------------------------------------
\* What the walk finds when no directory is refused to it.

\* A file, a directory or a link to one is listed, and so is a link to a file that
\* is in its place.
Wanted(e) ==
  \/ Kind[e] \in {"file", "dir", "link_dir"}
  \/ Kind[e] = "link_file" /\ vanished = {}

\* What a directory that has been entered held at first, and holds still, waits to
\* be visited or is listed.
AllSeen ==
  pc = "walk" /\ refused = {} =>
    \A e \in Initial \intersect Present :
      Parent[e] \in Entering /\ Wanted(e) => e \in Pending \union Files \union Entering

LEMMA ParentIsDirectory ==
  ASSUME NEW e \in Initial \ Elsewhere
  PROVE  /\ e \in Entries
         /\ Parent[e] = Top \/ (Parent[e] \in Initial \ Elsewhere /\ Kind[Parent[e]] = "dir")
<1>1. e \in Entries /\ Parent[e] \in {d \in Entries : Kind[d] = "dir"} \union {Top}
  BY TreeAssumption DEF TreeAssumption
<1>2. CASE Parent[e] # Top
  <2>1. Parent[e] \in Initial
    BY <1>2, TreeShape DEF TreeShape
  <2>2. Parent[e] \notin Elsewhere
    BY <1>2, TreeShape DEF TreeShape
  <2>3. QED  BY <1>1, <1>2, <2>1, <2>2
<1>3. QED  BY <1>1, <1>2

LEMMA LinkStands ==
  ASSUME Stages, pc = "walk", vanished = {},
         NEW e \in Initial \intersect Present, Kind[e] = "link_file"
  PROVE  IsRegular(e)
<1>1. e \in DOMAIN LinkTo /\ Resolved(e) = LinkTo[e]
  BY TreeAssumption DEF TreeAssumption, Resolved
<1>2. LinkTo[e] \in Initial /\ Kind[LinkTo[e]] = "file"
  BY <1>1, TreeShape DEF TreeShape
<1>3. LinkTo[e] \in Present /\ tree[LinkTo[e]] = "original"
  BY <1>2 DEF Stages
<1>4. QED  BY <1>1, <1>2, <1>3 DEF IsRegular

LEMMA VisitSees ==
  ASSUME IInv, Stages, AllSeen, Visit
  PROVE  AllSeen'
<1> SUFFICES ASSUME pc' = "walk", refused' = {},
                    NEW f \in Initial \intersect Present',
                    Parent[f] \in Entering', Wanted(f)'
             PROVE  f \in (Pending \union Files \union Entering)'
  BY DEF AllSeen
<1>1. PICK e \in Ours : VisitOf(e)
  BY VisitOutcome DEF IInv
<1>2. UNCHANGED <<target, tree, vanished>> /\ pc = "walk"
  BY DEF Visit, others
<1>3. /\ refused = {}
      /\ \/ Kind[e] # "dir" /\ stack' = Rest(e)
         \/ Kind[e] = "dir" /\ stack' = Append(Rest(e), Children(e)) /\ Children(e) \in SUBSET Ours
  BY <1>1, <1>2 DEF VisitOf, Stepped
<1>4. f \in Present /\ Wanted(f) /\ f \in Entries
  BY <1>2, TreeAssumption DEF Present, Wanted, TreeAssumption
<1>5. /\ Pending \subseteq Pending' \union {e}
      /\ Kind[e] = "dir" => Children(e) \subseteq Pending'
  <2>1. Pending \subseteq (UNION Range(Rest(e))) \union {e}
    BY <1>1, RestLevels DEF VisitOf, IInv
  <2>2. CASE stack' = Rest(e) /\ Kind[e] # "dir"
    BY <2>1, <2>2 DEF Pending
  <2>3. CASE stack' = Append(Rest(e), Children(e)) /\ Children(e) \in SUBSET Ours
    <3>1. Range(stack') = Range(Rest(e)) \union {Children(e)}
      BY <1>1, <2>3, AppendRange DEF VisitOf
    <3>2. QED  BY <2>1, <3>1 DEF Pending
  <2>4. QED  BY <1>3, <2>2, <2>3
<1>6. /\ Files \subseteq Files' /\ Entering \subseteq Entering'
      /\ Entering' \subseteq Entering \union {e}
      /\ Kind[e] = "file" \/ (Kind[e] = "link_file" /\ IsRegular(e)) => e \in Files'
      /\ Kind[e] \in {"dir", "link_dir"} => e \in Entering'
      /\ e \in Entering' => e \in Entering \/ Kind[e] \in {"dir", "link_dir"}
  <2>1. files_to_shred \in Seq(Ours) /\ dirs_to_remove \in Seq(NoFiles)
    BY DEF IInv, TypeInv
  <2>2. CASE /\ Kind[e] = "file" \/ (Kind[e] = "link_file" /\ IsRegular(e))
             /\ files_to_shred' = Append(files_to_shred, e)
             /\ dirs_to_remove' = dirs_to_remove
    <3>1. Range(files_to_shred') = Range(files_to_shred) \union {e}
      BY <2>1, <2>2, AppendRange
    <3>2. QED  BY <1>2, <2>2, <3>1 DEF Files, Entering
  <2>3. CASE /\ Kind[e] \in {"dir", "link_dir"}
             /\ dirs_to_remove' = Append(dirs_to_remove, e)
             /\ files_to_shred' = files_to_shred
    <3>1. e \in NoFiles
      BY <2>3 DEF NoFiles
    <3>2. Range(dirs_to_remove') = Range(dirs_to_remove) \union {e}
      BY <2>1, <2>3, <3>1, AppendRange
    <3>3. QED  BY <1>2, <2>3, <3>2 DEF Files, Entering
  <2>4. CASE /\ Kind[e] \notin {"file", "dir", "link_dir"}
             /\ ~ (Kind[e] = "link_file" /\ IsRegular(e))
             /\ UNCHANGED <<files_to_shred, dirs_to_remove>>
    BY <1>2, <2>4 DEF Files, Entering
  <2>5. QED  BY <1>1, <2>2, <2>3, <2>4 DEF VisitOf, Listed
<1>7. CASE Parent[f] \in Entering
  <2>1. f \in Pending \union Files \union Entering
    BY <1>2, <1>3, <1>4, <1>7 DEF AllSeen
  <2>2. CASE f # e
    BY <1>5, <1>6, <2>1, <2>2
  <2>3. CASE f = e
    <3>1. Kind[f] = "link_file" /\ vanished = {} => IsRegular(f)
      BY <1>2, <1>4, LinkStands
    <3>2. QED  BY <1>4, <1>6, <2>3, <3>1 DEF Wanted
  <2>4. QED  BY <2>2, <2>3
<1>8. CASE Parent[f] \notin Entering
  <2>1. Parent[f] = e /\ Kind[e] \in {"dir", "link_dir"}
    BY <1>6, <1>8
  <2>2. Kind[e] = "dir"
    <3>1. e # Top
      BY NoLoop DEF Ours
    <3>2. Parent[f] \in {d \in Entries : Kind[d] = "dir"} \union {Top}
      BY <1>4, TreeAssumption DEF TreeAssumption
    <3>3. QED  BY <2>1, <3>1, <3>2
  <2>3. f \in Children(e)
    BY <1>4, <2>1 DEF Children
  <2>4. QED  BY <1>5, <2>2, <2>3
<1>9. QED  BY <1>7, <1>8

LEMMA AllSeenStep == IInv /\ Stages /\ AllSeen /\ [Next]_vars => AllSeen'
<1> SUFFICES ASSUME IInv, Stages, AllSeen, [Next]_vars PROVE AllSeen'
  OBVIOUS
<1>1. CASE pc' # "walk"
  BY <1>1 DEF AllSeen
<1>2. CASE UNCHANGED vars \/ Create \/ Vanish
  <2>1. UNCHANGED <<target, refused, pc, stack, files_to_shred, dirs_to_remove>>
    BY <1>2 DEF vars, Create, Vanish, walk
  <2>2. /\ Initial \intersect Present' \subseteq Initial \intersect Present
        /\ vanished' = {} => vanished = {}
    <3>1. CASE UNCHANGED vars
      BY <3>1 DEF vars, others, Present
    <3>2. CASE Create
      <4>1. PICK e \in Entries \ (Initial \union created) :
              tree' = [f \in Present \union {e} |-> IF f = e THEN "original" ELSE tree[f]]
        BY <3>2 DEF Create
      <4>2. Present' = Present \union {e} /\ vanished' = vanished
        BY <3>2, <4>1 DEF Create, Present
      <4>3. QED  BY <4>2
    <3>3. CASE Vanish
      <4>1. PICK e \in {e \in Present : Kind[e] = "file"} :
              /\ tree' = [f \in Present \ {e} |-> tree[f]]
              /\ vanished' = vanished \union {e}
        BY <3>3 DEF Vanish
      <4>2. Present' = Present \ {e} /\ vanished' # {}
        BY <4>1 DEF Present
      <4>3. QED  BY <4>2
    <3>4. QED  BY <1>2, <3>1, <3>2, <3>3
  <2>3. Pending' = Pending /\ Files' = Files /\ Entering' = Entering
    BY <2>1 DEF Pending, Files, Entering
  <2>4. QED  BY <2>1, <2>2, <2>3 DEF AllSeen, Wanted
<1>3. CASE OpenRoot
  <2>1. CASE refused' # {}
    BY <2>1 DEF AllSeen
  <2>2. CASE refused' = {}
    <3>1. stack' = <<Children(target)>> /\ UNCHANGED <<target, tree>>
      BY <1>3, <2>2 DEF OpenRoot
    <3>2. Pending' = Children(target)
      BY <3>1, SingletonSeq DEF Pending
    <3>3. Entering' = {target}
      BY <1>3, SingletonSeq DEF OpenRoot, Stages, Entering
    <3>4. Present' = Present
      BY <3>1 DEF Present
    <3>5. QED  BY <3>2, <3>3, <3>4 DEF AllSeen, Children
  <2>3. QED  BY <2>1, <2>2
<1>4. CASE Visit
  BY <1>4, VisitSees
<1>5. CASE Ascend
  <2>1. UNCHANGED <<target, tree, vanished, refused, files_to_shred, dirs_to_remove>> /\ pc = "walk"
    BY <1>5 DEF Ascend, others
  <2>2. CASE pc' = "walk"
    <3>1. stack # <<>> /\ stack' = Front(stack) /\ Last(stack) = {} /\ stack \in Seq(SUBSET Ours)
      BY <1>5, <2>2 DEF Ascend, IInv, TypeInv
    <3>2. Pending' = Pending
      BY <3>1, FrontLevels DEF Pending
    <3>3. QED  BY <2>1, <3>2 DEF AllSeen, Files, Entering, Wanted, Present
  <2>3. QED  BY <1>1, <2>2
<1>6. CASE ShredFileAtOnce \/ RefuseDirectory \/ RootNotADirectory \/ StartFile \/ CallStep
           \/ FileDone \/ RemoveDirectory \/ RemoveRoot \/ Finish
  <2>1. pc' # "walk"
    BY <1>6 DEF ShredFileAtOnce, RefuseDirectory, RootNotADirectory, StartFile, CallStep, FileDone,
                RemoveDirectory, RemoveRoot, Finish
  <2>2. QED  BY <1>1, <2>1
<1>7. QED
  BY <1>2, <1>3, <1>4, <1>5, <1>6 DEF Next, Program

\* Who has the directory at the top, and with a directory those in it, has all.
LEMMA WholeTree ==
  ASSUME NEW root \in Initial \ Elsewhere, Parent[root] = Top, NEW D, root \in D,
         \A e \in Initial \ Elsewhere : Kind[e] = "dir" /\ Parent[e] \in D => e \in D
  PROVE  \A e \in Initial \ Elsewhere : e = root \/ Parent[e] \in D
<1> DEFINE S == {e \in Initial \ Elsewhere : Kind[e] = "dir" /\ e \notin D}
<1>1. \A e \in Initial \ Elsewhere : Parent[e] = Top => e = root
  BY TreeShape DEF TreeShape
<1>2. S = {}
  <2>1. SUFFICES ASSUME S # {} PROVE FALSE
    OBVIOUS
  <2>2. S \in (SUBSET Entries) \ {{}}
    BY <2>1, ParentIsDirectory
  <2>3. PICK e \in S : Parent[e] \notin S
    BY <2>2, TreeShape DEF TreeShape
  <2>4. e # root
    OBVIOUS
  <2>5. Parent[e] \in Initial \ Elsewhere /\ Kind[Parent[e]] = "dir"
    BY <1>1, <2>4, ParentIsDirectory
  <2>6. QED  BY <2>3, <2>5
<1>3. ASSUME NEW e \in Initial \ Elsewhere, e # root PROVE Parent[e] \in D
  <2>1. Parent[e] \in Initial \ Elsewhere /\ Kind[Parent[e]] = "dir"
    BY <1>1, <1>3, ParentIsDirectory
  <2>2. QED  BY <1>2, <2>1
<1>4. QED  BY <1>3

\* The walk has come to its end and found all there is.
LEMMA AllFound ==
  ASSUME IInv, Stages, AllSeen, pc = "walk", stack = <<>>, refused = {}, Parent[target] = Top
  PROVE  \A e \in (Initial \ Elsewhere) \intersect Present : Wanted(e) => e \in Files \union Entering
<1>1. Pending = {}
  BY SingletonSeq DEF Pending
<1>2. target \in Initial \ Elsewhere
  BY TreeAssumption DEF TreeAssumption, Stages
<1>3. \A e \in Initial \ Elsewhere : Kind[e] = "dir" /\ Parent[e] \in Entering => e \in Entering
  <2> SUFFICES ASSUME NEW e \in Initial \ Elsewhere, Kind[e] = "dir", Parent[e] \in Entering
               PROVE  e \in Entering
    OBVIOUS
  <2>1. e \in Present
    BY DEF Stages
  <2>2. e \in Files \union Entering
    BY <1>1, <2>1 DEF AllSeen, Wanted
  <2>3. e \notin Files
    BY DEF Stages
  <2>4. QED  BY <2>2, <2>3
<1>4. target \in Entering
  BY DEF Entering
<1>5. \A e \in Initial \ Elsewhere : e = target \/ Parent[e] \in Entering
  BY <1>2, <1>3, <1>4, WholeTree
<1>6. QED  BY <1>1, <1>4, <1>5 DEF AllSeen

\* A target that is a file and in no directory is all there is.
LEMMA OnlyTarget ==
  ASSUME IInv, Stages, Single, Parent[target] = Top
  PROVE  Initial \ Elsewhere = {target}
<1>1. target \in Initial \ Elsewhere
  BY TreeAssumption DEF TreeAssumption, Stages
<1>2. \A e \in Initial \ Elsewhere : Parent[e] # target
  <2>1. target # Top
    BY <1>1, ParentIsDirectory, NoLoop
  <2>2. QED  BY <2>1, ParentIsDirectory DEF Single
<1>3. \A e \in Initial \ Elsewhere : e = target \/ Parent[e] \in {target}
  BY <1>1, <1>2, WholeTree
<1>4. QED  BY <1>1, <1>2, <1>3

\* The records of a call that leaves the file, or the file's name, behind.
Bad == {"FAILED_OVERWRITE", "FAILED_VERIFICATION", "SUCCESS_WITH_WARNINGS",
        "SKIPPED_NOT_REGULAR_FILE"}

LEMMA StartOutcome ==
  ASSUME IInv, StartFile
  PROVE  /\ pc = "shred"
         /\ UNCHANGED <<target, tree, created, vanished, refused, dirs_to_remove>>
         /\ Files = {current'} \union Files'
         /\ \/ pc' = "call" /\ records' = records
            \/ /\ pc' = "shred"
               /\ Range(records') = Range(records)
                    \union {[target |-> current', status |-> "SKIPPED_NOT_REGULAR_FILE"]}
<1>1. files_to_shred \in Seq(Ours) /\ files_to_shred # <<>>
  BY DEF StartFile, IInv, TypeInv
<1>2. /\ Head(files_to_shred) \in Ours
      /\ Files = {Head(files_to_shred)} \union Range(Tail(files_to_shred))
  BY <1>1, TailRange DEF Files
<1>3. Files = {current'} \union Files' /\ current' \in Ours
  BY <1>2 DEF StartFile, Files
<1>4. CASE pc' = "call" /\ UNCHANGED outcome
  BY <1>3, <1>4 DEF StartFile, others, outcome
<1>5. CASE /\ status' = "SKIPPED_NOT_REGULAR_FILE"
           /\ Recorded(status') /\ UNCHANGED pc
  <2>1. /\ status' = "SKIPPED_NOT_REGULAR_FILE" /\ Recorded(status') /\ pc' = "shred"
    BY <1>5 DEF StartFile
  <2>2. Range(records') = Range(records) \union {[target |-> current', status |-> status']}
    BY <1>3, <2>1, RecordedTypes DEF IInv, Statuses
  <2>3. QED  BY <1>3, <1>5, <2>1, <2>2 DEF StartFile, others
<1>6. QED  BY <1>4, <1>5 DEF StartFile

LEMMA CallOutcome ==
  ASSUME IInv, CallStep
  PROVE  /\ pc = "call" /\ current' = current
         /\ UNCHANGED <<target, created, vanished, refused, files_to_shred, dirs_to_remove>>
         /\ Present' \subseteq Present
         /\ \/ pc' = "call" /\ records' = records
            \/ /\ pc' = "shred"
               /\ Range(records') = Range(records)
                    \union {[target |-> current, status |-> status']}
               /\ status' \in Bad \/ (status' = "SUCCESS_VERIFIED" /\ current \notin Present')
<1>1. /\ pc = "call" /\ current' = current
      /\ UNCHANGED <<target, created, vanished, refused, files_to_shred, dirs_to_remove>>
  BY DEF CallStep, others, walk
<1>2. /\ status' \in Statuses
      /\ status' # "PENDING" => status' \in Bad \union {"SUCCESS_VERIFIED"}
      /\ status' = "SUCCESS_VERIFIED" => entry' = "none"
  BY DEF CallStep, C!Next, C!Refuse, C!Mask, C!Finish, Statuses, Overwritten, Bad
<1>3. /\ Present' \subseteq Present
      /\ entry' = "none" => current \notin Present'
  <2>1. CASE current \notin Present
    BY <2>1 DEF CallStep, Present
  <2>2. CASE current \in Present /\ entry' = "none"
    BY <2>2 DEF CallStep, Present
  <2>3. CASE current \in Present /\ entry' # "none"
    BY <2>3 DEF CallStep, Present
  <2>4. QED  BY <2>1, <2>2, <2>3
<1>4. CASE status' = "PENDING"
  BY <1>1, <1>3, <1>4 DEF CallStep, outcome
<1>5. CASE status' # "PENDING"
  <2>1. pc' = "shred" /\ Recorded(status') /\ current' \in Ours
    BY <1>1, <1>5 DEF CallStep, IInv, TypeInv
  <2>2. Range(records') = Range(records) \union {[target |-> current', status |-> status']}
    BY <1>2, <2>1, RecordedTypes DEF IInv
  <2>3. QED  BY <1>1, <1>2, <1>3, <1>5, <2>1, <2>2
<1>6. QED  BY <1>4, <1>5

\* What a directory's removal takes away, and when it is refused.
LEMMA RemoveOutcome ==
  ASSUME NEW d, fs_remove(d)
  PROVE  /\ Present' \subseteq Present /\ Present \subseteq Present' \union {d}
         /\ refused \subseteq refused'
         /\ refused' = {} => d \notin Present' \/ Children(d) # {}
<1>1. CASE /\ d \in Present /\ Children(d) = {}
           /\ tree' = [e \in Present \ {d} |-> tree[e]]
           /\ UNCHANGED refused
  BY <1>1 DEF Present
<1>2. CASE /\ refused' = IF Children(d) = {} THEN refused \union {d} ELSE refused
           /\ UNCHANGED tree
  BY <1>2 DEF Present
<1>3. QED  BY <1>1, <1>2 DEF fs_remove

\* Nothing comes to the tree but what others create, and records only grow.
LEMMA Growing ==
  ASSUME IInv, [Next]_vars
  PROVE  /\ target' = target
         /\ Initial \intersect Present' \subseteq Present
         /\ Range(records) \subseteq Range(records')
         /\ refused \subseteq refused'
         /\ created \subseteq created' /\ vanished \subseteq vanished'
<1>1. CASE UNCHANGED vars
  BY <1>1 DEF vars, others, outcome, Present
<1>2. CASE ShredFileAtOnce \/ RefuseDirectory \/ OpenRoot \/ Ascend \/ FileDone \/ Finish
  BY <1>2 DEF ShredFileAtOnce, RefuseDirectory, OpenRoot, Ascend, FileDone, Finish,
              others, outcome, Present
<1>r. CASE RootNotADirectory
  BY <1>r, RootRecords DEF RootNotADirectory, others, Present, IInv
<1>3. CASE Visit
  <2>1. PICK e \in Ours : VisitOf(e)
    BY <1>3, VisitOutcome DEF IInv
  <2>2. refused \subseteq refused'
    BY <2>1 DEF VisitOf, Stepped
  <2>3. QED  BY <1>3, <2>2 DEF Visit, others, outcome, Present
<1>4. CASE StartFile
  BY <1>4, StartOutcome DEF Present
<1>5. CASE CallStep
  BY <1>5, CallOutcome
<1>6. CASE RemoveDirectory
  BY <1>6, RemoveOutcome DEF RemoveDirectory, others, outcome
<1>7. CASE RemoveRoot
  BY <1>7, RemoveOutcome DEF RemoveRoot, others
<1>8. CASE Create
  <2>1. PICK e \in Entries \ (Initial \union created) :
          /\ tree' = [f \in Present \union {e} |-> IF f = e THEN "original" ELSE tree[f]]
          /\ created' = created \union {e}
    BY <1>8 DEF Create
  <2>2. Present' = Present \union {e}
    BY <2>1 DEF Present
  <2>3. QED  BY <1>8, <2>1, <2>2 DEF Create, outcome
<1>9. CASE Vanish
  <2>1. PICK e \in {e \in Present : Kind[e] = "file"} :
          /\ tree' = [f \in Present \ {e} |-> tree[f]]
          /\ vanished' = vanished \union {e}
    BY <1>9 DEF Vanish
  <2>2. Present' = Present \ {e}
    BY <2>1 DEF Present
  <2>3. QED  BY <1>9, <2>1, <2>2 DEF Vanish, outcome
<1>10. QED
  BY <1>1, <1>2, <1>r, <1>3, <1>4, <1>5, <1>6, <1>7, <1>8, <1>9 DEF Next, Program

----------------------------------------------------------------------------
\* No file is passed over: while it is there it waits for its call, or is in it,
\* or has a record that does not say verified.

FilesFound ==
  (pc \in {"shred", "call", "remove", "returned"} /\ Parent[target] = Top /\ refused = {}) =>
    \A e \in Initial \ Elsewhere :
      Kind[e] = "file" /\ e \in Present =>
        e \in Files \/ (pc = "call" /\ e = current) \/ Reported(e, Bad)

LEMMA FilesFoundStep == IInv /\ Stages /\ AllSeen /\ FilesFound /\ [Next]_vars => FilesFound'
<1> SUFFICES ASSUME IInv, Stages, AllSeen, FilesFound, [Next]_vars,
                    pc' \in {"shred", "call", "remove", "returned"},
                    Parent[target'] = Top, refused' = {},
                    NEW e \in Initial \ Elsewhere, Kind[e] = "file", e \in Present'
             PROVE  \/ e \in Files' \/ (pc' = "call" /\ e = current')
                    \/ Reported(e, Bad)'
  BY DEF FilesFound
<1>1. target' = target /\ refused = {} /\ e \in Present /\ e \in Entries
  BY Growing, ParentIsDirectory
<1>2. Reported(e, Bad) => Reported(e, Bad)'
  BY Growing DEF Reported, Bad
<1>3. pc \in {"shred", "call", "remove", "returned"} =>
        e \in Files \/ (pc = "call" /\ e = current) \/ Reported(e, Bad)
  BY <1>1 DEF FilesFound
<1>4. CASE UNCHANGED <<pc, files_to_shred, current>>
  BY <1>2, <1>3, <1>4 DEF Files
<1>5. CASE ShredFileAtOnce
  <2>1. e = target
    BY <1>1, <1>5, OnlyTarget DEF ShredFileAtOnce
  <2>2. Files' = {target}
    BY <1>5, SingletonSeq DEF ShredFileAtOnce, Files
  <2>3. QED  BY <2>1, <2>2
<1>r. CASE RootNotADirectory
  BY <1>r DEF RootNotADirectory
<1>6. CASE RefuseDirectory \/ OpenRoot \/ Visit \/ Finish
  <2>1. PICK f \in Ours : Visit => VisitOf(f)
    BY VisitOutcome DEF IInv, TypeInv
  <2>2. pc' \notin {"shred", "call", "remove", "returned"}
    BY <1>6, <2>1 DEF RefuseDirectory, OpenRoot, Visit, Finish, VisitOf, Stepped
  <2>3. QED  BY <2>2
<1>7. CASE Ascend
  <2>1. pc = "walk" /\ stack = <<>> /\ files_to_shred' = files_to_shred
    BY <1>7 DEF Ascend
  <2>2. e \in Files \union Entering
    BY <1>1, <2>1, AllFound DEF Wanted
  <2>3. e \notin Entering
    BY <2>1 DEF Entering, IInv, TypeInv, NoFiles, Range, Stages, Single
  <2>4. QED  BY <2>1, <2>2, <2>3 DEF Files
<1>8. CASE StartFile
  <2>1. /\ pc = "shred" /\ Files = {current'} \union Files'
        /\ \/ pc' = "call"
           \/ [target |-> current', status |-> "SKIPPED_NOT_REGULAR_FILE"] \in Range(records')
    BY <1>8, StartOutcome
  <2>2. CASE e = current'
    BY <2>1, <2>2 DEF Reported, Bad
  <2>3. QED  BY <1>2, <1>3, <2>1, <2>2
<1>9. CASE CallStep
  <2>1. /\ current' = current /\ pc = "call" /\ Files' = Files
        /\ \/ pc' = "call"
           \/ /\ Range(records') = Range(records)
                    \union {[target |-> current, status |-> status']}
              /\ status' \in Bad \/ current \notin Present'
    BY <1>9, CallOutcome DEF Files
  <2>2. CASE e = current
    <3>1. CASE pc' = "call"
      BY <2>1, <2>2, <3>1
    <3>2. CASE /\ [target |-> current, status |-> status'] \in Range(records')
               /\ status' \in Bad
      BY <2>2, <3>2 DEF Reported, Bad
    <3>3. QED  BY <2>1, <2>2, <3>1, <3>2
  <2>3. QED  BY <1>2, <1>3, <2>1, <2>2
<1>10. CASE FileDone
  BY <1>2, <1>3, <1>10 DEF FileDone, walk, Files
<1>11. CASE RemoveDirectory \/ RemoveRoot
  <2>1. pc = "remove" /\ UNCHANGED files_to_shred
    BY <1>11 DEF RemoveDirectory, RemoveRoot, walk
  <2>2. QED  BY <1>2, <1>3, <2>1 DEF Files
<1>12. QED
  BY <1>4, <1>5, <1>r, <1>6, <1>7, <1>8, <1>9, <1>10, <1>11
  DEF Next, Program, vars, Create, Vanish, walk, callVars

\* The certificate hides no file that is left: when no directory was refused, a
\* file that was in the tree and still is has a record that does not say
\* SUCCESS_VERIFIED (it may say SUCCESS_WITH_WARNINGS: the unlink failed).
THEOREM KeptFilesReported == Spec => []KeptFilesAreReported
<1> DEFINE WInv == Stages /\ AllSeen /\ FilesFound
<1>1. Init => WInv
  BY StagesInit DEF Init, AllSeen, FilesFound
<1>2. IInv /\ WInv /\ [Next]_vars => WInv'
  BY StagesStep, AllSeenStep, FilesFoundStep
<1>3. WInv => KeptFilesAreReported
  BY SingletonSeq DEF Stages, FilesFound, KeptFilesAreReported, RegularFiles, Files, Bad
<1> HIDE DEF WInv
<1>4. QED  BY InvInit, InvStep, <1>1, <1>2, <1>3, PTL DEF Spec

----------------------------------------------------------------------------
\* A tree nobody disturbs: what is left is on one of the lists, and each step takes
\* one of them away.

Undisturbed ==
  /\ Parent[target] = Top
  /\ \A r \in Range(records) : r.status = "SUCCESS_VERIFIED"
  /\ created = {} /\ vanished = {} /\ refused = {}
  /\ \A e \in Initial : Kind[e] # "other"

NothingLeft ==
  Undisturbed =>
    /\ pc \in {"shred", "call"} =>
         \A e \in Present \ Elsewhere :
           \/ e \in Files \union Range(dirs_to_remove)
           \/ ~ Single /\ e = target
           \/ pc = "call" /\ e = current
    /\ pc = "remove" => Present \ Elsewhere \subseteq Entering
    /\ pc = "returned" => Present \subseteq Elsewhere

\* When its turn comes a directory is empty: what it held came later on the list.
LEMMA EmptyByNow ==
  ASSUME IInv, InOrder, Parent[target] = Top, Present \ Elsewhere \subseteq Entering,
         NEW d \in Ours,
         \/ dirs_to_remove # <<>> /\ d = dirs_to_remove[Len(dirs_to_remove)]
         \/ dirs_to_remove = <<>> /\ d = target
  PROVE  Children(d) = {}
<1> SUFFICES ASSUME NEW c \in Children(d) PROVE FALSE
  OBVIOUS
<1>1. c \in Present \ Elsewhere /\ Parent[c] = d
  BY OurChildren DEF Children, IInv, Ours
<1>2. d # Top /\ c # target
  BY <1>1, NoLoop DEF Ours
<1>3. PICK i \in DOMAIN dirs_to_remove : c = dirs_to_remove[i]
  BY <1>1, <1>2 DEF Entering, Range
<1>4. dirs_to_remove \in Seq(NoFiles) /\ dirs_to_remove # <<>>
  BY <1>3 DEF IInv, TypeInv
<1>5. Len(dirs_to_remove) \in DOMAIN dirs_to_remove /\ i \in 1 .. Len(dirs_to_remove)
  BY <1>3, <1>4
<1>6. Len(dirs_to_remove) < i
  BY <1>1, <1>3, <1>4, <1>5 DEF InOrder, Ordered
<1>7. QED  BY <1>4, <1>5, <1>6

LEMMA NothingLeftStep ==
  IInv /\ Stages /\ InOrder /\ AllSeen /\ NothingLeft /\ [Next]_vars => NothingLeft'
<1> SUFFICES ASSUME IInv, Stages, InOrder, AllSeen, NothingLeft, [Next]_vars, Undisturbed'
             PROVE  NothingLeft'
  BY DEF NothingLeft
<1>1. /\ target' = target /\ Parent[target] = Top
      /\ refused = {} /\ created = {} /\ vanished = {}
  BY Growing DEF Undisturbed
<1>2. Undisturbed
  BY <1>1, Growing DEF Undisturbed
<1>3. refused' = {} /\ created' = {} /\ vanished' = {}
  BY DEF Undisturbed
<1>4. Present \subseteq Initial /\ Present' \subseteq Present
  <2>1. Present \subseteq Initial
    BY <1>1 DEF IInv, TypeInv
  <2>2. Present' \subseteq Initial
    BY <1>3, InvStep DEF IInv, TypeInv
  <2>3. QED  BY <2>1, <2>2, Growing
<1>5. CASE UNCHANGED vars \/ Create \/ Vanish
  <2>1. UNCHANGED <<pc, files_to_shred, dirs_to_remove, current>>
    BY <1>5 DEF vars, Create, Vanish, walk, callVars
  <2>2. Files' = Files /\ Entering' = Entering /\ (Single' <=> Single)
    BY <1>1, <2>1 DEF Files, Entering, Single
  <2>3. CASE pc \in {"shred", "call"}
    BY <1>1, <1>2, <1>4, <2>1, <2>2, <2>3 DEF NothingLeft
  <2>4. CASE pc \notin {"shred", "call"}
    BY <1>2, <1>4, <2>1, <2>2, <2>4 DEF NothingLeft
  <2>5. QED  BY <2>3, <2>4
<1>6. CASE ShredFileAtOnce
  <2>1. Initial \ Elsewhere = {target} /\ pc' = "shred"
    BY <1>1, <1>6, OnlyTarget DEF ShredFileAtOnce
  <2>2. Files' = {target}
    BY <1>6, SingletonSeq DEF ShredFileAtOnce, Files
  <2>3. QED  BY <1>4, <2>1, <2>2 DEF NothingLeft
<1>r. CASE RootNotADirectory
  BY <1>3, <1>r DEF RootNotADirectory
<1>7. CASE RefuseDirectory \/ OpenRoot \/ Visit \/ Finish
  <2>1. PICK f \in Ours : Visit => VisitOf(f)
    BY VisitOutcome DEF IInv, TypeInv
  <2>2. pc' \notin {"shred", "call", "remove", "returned"}
    BY <1>7, <2>1 DEF RefuseDirectory, OpenRoot, Visit, Finish, VisitOf, Stepped
  <2>3. QED  BY <2>2 DEF NothingLeft
<1>8. CASE Ascend
  <2>1. pc = "walk" /\ UNCHANGED <<files_to_shred, dirs_to_remove>>
    BY <1>8 DEF Ascend
  <2>2. CASE stack # <<>>
    BY <1>8, <2>1, <2>2 DEF Ascend, NothingLeft
  <2>3. CASE stack = <<>>
    <3>1. pc' = "shred"
      BY <1>8, <2>3 DEF Ascend
    <3>2. \A e \in Initial : Wanted(e)
      BY <1>1, <1>2, TreeAssumption DEF Wanted, Undisturbed, TreeAssumption, Kinds
    <3>3. \A e \in Present \ Elsewhere : e \in Files \union Entering
      BY <1>1, <1>4, <2>1, <2>3, <3>2, AllFound
    <3>4. ~ Single'
      BY <1>1, <2>1 DEF Single, Stages
    <3>5. \A e \in Present' \ Elsewhere :
            e \in Files' \union Range(dirs_to_remove') \/ (~ Single' /\ e = target')
      BY <1>1, <1>4, <2>1, <3>3, <3>4 DEF Files, Entering
    <3>6. QED  BY <3>1, <3>5 DEF NothingLeft
  <2>4. QED  BY <2>2, <2>3
<1>9. CASE StartFile
  <2>1. /\ pc = "shred" /\ Files = {current'} \union Files' /\ dirs_to_remove' = dirs_to_remove
        /\ \/ pc' = "call"
           \/ /\ Range(records') = Range(records)
                    \union {[target |-> current', status |-> "SKIPPED_NOT_REGULAR_FILE"]}
    BY <1>9, StartOutcome
  <2>2. pc' = "call"
    <3>1. \A r \in Range(records') : r.status = "SUCCESS_VERIFIED"
      BY DEF Undisturbed
    <3>2. SUFFICES ASSUME pc' # "call" PROVE FALSE
      BY <2>1
    <3>3. [target |-> current', status |-> "SKIPPED_NOT_REGULAR_FILE"] \in Range(records')
      BY <2>1, <3>2
    <3>4. QED  BY <3>1, <3>3
  <2>3. Single' <=> Single
    BY <1>1 DEF Single
  <2>4. QED  BY <1>1, <1>2, <1>4, <2>1, <2>2, <2>3 DEF NothingLeft
<1>10. CASE CallStep
  <2>1. /\ current' = current /\ pc = "call"
        /\ UNCHANGED <<files_to_shred, dirs_to_remove>>
        /\ \/ pc' = "call"
           \/ /\ pc' = "shred"
              /\ [target |-> current, status |-> status'] \in Range(records')
              /\ status' \in Bad \/ current \notin Present'
    BY <1>10, CallOutcome
  <2>2. pc' = "shred" => current \notin Present'
    <3>1. \A r \in Range(records') : r.status = "SUCCESS_VERIFIED"
      BY DEF Undisturbed
    <3>2. pc' = "shred" => status' = "SUCCESS_VERIFIED" \/ current \notin Present'
      BY <2>1, <3>1
    <3>3. QED  BY <2>1, <3>2 DEF Bad
  <2>3. (Single' <=> Single) /\ Files' = Files
    BY <1>1, <2>1 DEF Single, Files
  <2>4. QED  BY <1>1, <1>2, <1>4, <2>1, <2>2, <2>3 DEF NothingLeft
<1>11. CASE FileDone
  <2>1. /\ pc = "shred" /\ Files = {} /\ dirs_to_remove' = dirs_to_remove
        /\ pc' = IF Single THEN "returned" ELSE "remove"
    BY <1>11, SingletonSeq DEF FileDone, walk, Files
  <2>2. \A e \in Present' \ Elsewhere : e \in Range(dirs_to_remove) \/ (~ Single /\ e = target)
    BY <1>2, <1>4, <2>1 DEF NothingLeft
  <2>3. CASE Single
    <3>1. Range(dirs_to_remove) = {}
      BY <2>3, SingletonSeq DEF Stages
    <3>2. QED  BY <2>1, <2>2, <2>3, <3>1 DEF NothingLeft
  <2>4. CASE ~ Single
    BY <1>1, <2>1, <2>2, <2>4 DEF NothingLeft, Entering
  <2>5. QED  BY <2>3, <2>4
<1>12. CASE RemoveDirectory
  <2> DEFINE d == dirs_to_remove[Len(dirs_to_remove)]
  <2>1. /\ pc = "remove" /\ pc' = "remove" /\ dirs_to_remove # <<>>
        /\ dirs_to_remove \in Seq(NoFiles) /\ fs_remove(d)
        /\ dirs_to_remove' = RemoveAt(dirs_to_remove, Len(dirs_to_remove))
    BY <1>12 DEF RemoveDirectory, NextDirectory, IInv, TypeInv
  <2>2. d \in NoFiles /\ Range(dirs_to_remove) = Range(dirs_to_remove') \union {d}
    BY <2>1, RemoveLast
  <2>3. Present \ Elsewhere \subseteq Entering
    BY <1>2, <2>1 DEF NothingLeft
  <2>4. Children(d) = {}
    BY <1>1, <2>1, <2>2, <2>3, EmptyByNow DEF NoFiles
  <2>5. d \notin Present'
    BY <1>3, <2>1, <2>4, RemoveOutcome
  <2>6. Present' \ Elsewhere \subseteq Entering'
    BY <1>1, <1>4, <2>2, <2>3, <2>5 DEF Entering
  <2>7. QED  BY <2>1, <2>6 DEF NothingLeft
<1>13. CASE RemoveRoot
  <2>1. pc = "remove" /\ pc' = "returned" /\ dirs_to_remove = <<>> /\ fs_remove(target)
    BY <1>13 DEF RemoveRoot
  <2>2. Present \ Elsewhere \subseteq Entering /\ Entering = {target}
    BY <1>2, <2>1, SingletonSeq DEF NothingLeft, Entering
  <2>3. Children(target) = {}
    BY <1>1, <2>1, <2>2, EmptyByNow DEF IInv, TypeInv
  <2>4. target \notin Present'
    BY <1>3, <2>1, <2>3, RemoveOutcome
  <2>5. QED  BY <1>4, <2>1, <2>2, <2>4 DEF NothingLeft
<1>14. QED
  BY <1>5, <1>6, <1>r, <1>7, <1>8, <1>9, <1>10, <1>11, <1>12, <1>13 DEF Next, Program

\* A tree whose files were all verified, that nobody else touched and of which
\* nothing was refused, is gone to the last directory, and only it.
THEOREM CleanTree == Spec => []CleanTreeGone
<1> DEFINE WInv == Stages /\ InOrder /\ AllSeen /\ NothingLeft
<1>1. Init => WInv
  BY StagesInit, InOrderInit DEF Init, AllSeen, NothingLeft
<1>2. IInv /\ WInv /\ [Next]_vars => WInv'
  BY StagesStep, InOrderStep, AllSeenStep, NothingLeftStep
<1>3. IInv /\ WInv => CleanTreeGone
  BY DEF IInv, ElsewhereKeepsItsEntries, NothingLeft, Undisturbed, CleanTreeGone
<1> HIDE DEF WInv
<1>4. QED  BY InvInit, InvStep, <1>1, <1>2, <1>3, PTL DEF Spec
----------------------------------------------------------------------------
\* The command comes to its end: no step of it but lowers the count of those left.

\* While a call runs the entry has not lost its name, and once it is masked the
\* directory says so.
Calling ==
  /\ pc \in {"start", "walk", "shred", "call", "remove", "returned", "exited", "thrown"}
  /\ tree \in [Present -> {"original", "renamed"}]
  /\ pc = "call" =>
       /\ entry \in {"original", "renamed"}
       /\ current \in Initial \union created
       /\ entry = "renamed" /\ current \in Present => tree[current] = "renamed"

LEMMA CallingInit == Init => Calling
BY DEF Init, Calling, Present

\* What fs_remove leaves of the tree has the names it had.
LEMMA RemoveNames ==
  ASSUME tree \in [Present -> {"original", "renamed"}], NEW d, fs_remove(d)
  PROVE  tree' \in [Present' -> {"original", "renamed"}]
<1>1. CASE tree' = tree
  BY <1>1 DEF Present
<1>2. CASE tree' = [e \in Present \ {d} |-> tree[e]]
  <2>1. Present' = Present \ {d}
    BY <1>2 DEF Present
  <2>2. QED  BY <1>2, <2>1
<1>3. QED  BY <1>1, <1>2 DEF fs_remove

LEMMA CallingStep == IInv /\ Calling /\ [Next]_vars => Calling'
<1> SUFFICES ASSUME IInv, Calling, [Next]_vars PROVE Calling'
  OBVIOUS
<1>1. CASE UNCHANGED vars
  BY <1>1 DEF vars, callVars, others, Calling, Present
<1>2. CASE ShredFileAtOnce \/ RefuseDirectory \/ OpenRoot \/ Ascend \/ FileDone \/ Finish
  <2>1. tree' = tree /\ pc' \in {"walk", "shred", "remove", "returned", "exited"}
    BY <1>2 DEF ShredFileAtOnce, RefuseDirectory, OpenRoot, Ascend, FileDone, Finish
  <2>2. QED  BY <2>1 DEF Calling, Present
<1>r. CASE RootNotADirectory
  <2>1. tree' = tree /\ pc' = "returned"
    BY <1>r DEF RootNotADirectory
  <2>2. QED  BY <2>1 DEF Calling, Present
<1>3. CASE Visit
  <2>1. tree' = tree /\ pc' \in {"walk", "thrown"}
    BY <1>3 DEF Visit
  <2>2. QED  BY <2>1 DEF Calling, Present
<1>4. CASE StartFile
  <2>1. tree' = tree /\ created' = created /\ pc' \in {"shred", "call"} /\ entry' = "original"
    BY <1>4 DEF StartFile, others
  <2>2. pc' = "call" => current' \in Present
    BY <1>4 DEF StartFile, IsRegular
  <2>3. QED  BY <2>1, <2>2 DEF Calling, Present, IInv, TypeInv
<1>5. CASE CallStep
  <2>1. /\ pc = "call" /\ pc' \in {"shred", "call"} /\ current' = current /\ created' = created
        /\ entry' \in {"original", "renamed", "none"}
        /\ pc' = "call" => entry' = "renamed"
    BY <1>5 DEF CallStep, others, Calling, C!Next, C!Refuse, C!Mask, C!Finish
  <2>2. CASE current \notin Present
    <3>1. tree' = tree
      BY <1>5, <2>2 DEF CallStep
    <3>2. QED  BY <2>1, <2>2, <3>1 DEF Calling, Present
  <2>3. CASE current \in Present /\ entry' = "none"
    <3>1. tree' = [e \in Present \ {current} |-> tree[e]] /\ pc' # "call"
      BY <1>5, <2>1, <2>3 DEF CallStep
    <3>2. Present' = Present \ {current}
      BY <3>1 DEF Present
    <3>3. QED  BY <2>1, <3>1, <3>2 DEF Calling
  <2>4. CASE current \in Present /\ entry' # "none"
    <3>1. tree' = [tree EXCEPT ![current] = entry']
      BY <1>5, <2>4 DEF CallStep
    <3>2. Present' = Present
      BY <3>1 DEF Present
    <3>3. tree' \in [Present -> {"original", "renamed"}] /\ tree'[current] = entry'
      BY <2>1, <2>4, <3>1 DEF Calling
    <3>4. QED  BY <2>1, <3>2, <3>3 DEF Calling
  <2>5. QED  BY <2>2, <2>3, <2>4
<1>6. CASE RemoveDirectory
  <2>1. PICK d : fs_remove(d)
    BY <1>6 DEF RemoveDirectory
  <2>2. pc' = "remove"
    BY <1>6 DEF RemoveDirectory
  <2>3. QED  BY <2>1, <2>2, RemoveNames DEF Calling
<1>7. CASE RemoveRoot
  <2>1. pc' = "returned" /\ fs_remove(target)
    BY <1>7 DEF RemoveRoot
  <2>2. QED  BY <2>1, RemoveNames DEF Calling
<1>8. CASE Create
  <2>1. PICK e \in Entries \ (Initial \union created) :
          /\ tree' = [f \in Present \union {e} |-> IF f = e THEN "original" ELSE tree[f]]
          /\ created' = created \union {e}
    BY <1>8 DEF Create
  <2>2. Present' = Present \union {e}
    BY <2>1 DEF Present
  <2>3. tree' \in [Present' -> {"original", "renamed"}]
    BY <2>1, <2>2 DEF Calling
  <2>4. UNCHANGED <<pc, current, entry>>
    BY <1>8 DEF Create, callVars
  <2>5. ASSUME pc = "call" PROVE current # e
    BY <2>5 DEF Calling
  <2>6. QED  BY <2>1, <2>2, <2>3, <2>4, <2>5 DEF Calling
<1>9. CASE Vanish
  <2>1. PICK e \in Present : tree' = [f \in Present \ {e} |-> tree[f]]
    BY <1>9 DEF Vanish
  <2>2. Present' = Present \ {e}
    BY <2>1 DEF Present
  <2>3. UNCHANGED <<pc, current, entry, created>>
    BY <1>9 DEF Vanish, callVars
  <2>4. QED  BY <2>1, <2>2, <2>3 DEF Calling
<1>10. QED
  BY <1>1, <1>2, <1>r, <1>3, <1>4, <1>5, <1>6, <1>7, <1>8, <1>9 DEF Next, Program

\* What is in a part of a finite set is counted, and less of it is less.
LEMMA PartCounts ==
  ASSUME NEW S \in SUBSET Entries, NEW T \in SUBSET S
  PROVE  /\ Cardinality(S) \in Nat /\ Cardinality(T) \in Nat
         /\ Cardinality(T) <= Cardinality(S)
         /\ S # T => Cardinality(T) < Cardinality(S)
<1>1. IsFiniteSet(S)
  BY TreeFinite, FS_Subset DEF TreeFinite
<1>2. IsFiniteSet(T)
  BY <1>1, FS_Subset
<1>3. Cardinality(S) \in Nat /\ Cardinality(T) \in Nat
  BY <1>1, <1>2, FS_CardinalityType
<1>4. Cardinality(T) <= Cardinality(S) /\ (Cardinality(S) = Cardinality(T) => S = T)
  BY <1>1, FS_Subset
<1> QED
  BY <1>3, <1>4

LEMMA PendingOurs == TypeInv => Pending \in SUBSET Entries
BY DEF TypeInv, Pending, Range, Ours

LEMMA AheadEntries == TypeInv => Ahead \in SUBSET Entries
BY PendingOurs DEF Ahead

\* The counts are numbers.
CountsTyped ==
  /\ Cardinality(Ahead) \in Nat
  /\ Len(stack) \in Nat /\ Len(files_to_shred) \in Nat /\ Len(dirs_to_remove) \in Nat
  /\ CallsLeft \in 0 .. 2
  /\ StagesLeft \in 0 .. 6

LEMMA CountTypes == IInv /\ Calling => CountsTyped
<1> SUFFICES ASSUME IInv, Calling PROVE CountsTyped
  OBVIOUS
<1>1. Cardinality(Ahead) \in Nat
  BY AheadEntries, PartCounts DEF IInv
<1>2. Len(stack) \in Nat /\ Len(files_to_shred) \in Nat /\ Len(dirs_to_remove) \in Nat
  BY DEF IInv, TypeInv
<1>3. CallsLeft \in 0 .. 2
  BY DEF CallsLeft
<1>4. StagesLeft \in 0 .. 6
  BY DEF Calling, StagesLeft
<1> QED
  BY <1>1, <1>2, <1>3, <1>4 DEF CountsTyped

\* What one number gains the others lose, and more.
LEMMA Balance ==
  ASSUME NEW x \in Nat, NEW u \in Nat, NEW p \in Nat, NEW r \in Nat,
         NEW y \in Nat, NEW v \in Nat, NEW q \in Nat, NEW t \in Nat,
         NEW a \in Int, NEW w \in Int, NEW c \in Int,
         4 * y <= 4 * x + a, v <= u + w, q + t <= p + r + c, a + w + c < 0
  PROVE  4 * y + v + q + t < 4 * x + u + p + r
OBVIOUS

\* So it is with what the count is made of.
LEMMA LessCounts ==
  ASSUME CountsTyped, CountsTyped', NEW a \in Int, NEW w \in Int, NEW c \in Int,
         4 * Cardinality(Ahead') <= 4 * Cardinality(Ahead) + a,
         Waiting' <= Waiting + w,
         CallsLeft' + StagesLeft' <= CallsLeft + StagesLeft + c,
         a + w + c < 0
  PROVE  Countdown' < Countdown
<1>1. /\ Cardinality(Ahead) \in Nat /\ Cardinality(Ahead') \in Nat
      /\ CallsLeft \in Nat /\ CallsLeft' \in Nat
      /\ StagesLeft \in Nat /\ StagesLeft' \in Nat
  BY DEF CountsTyped
<1>2. Waiting \in Nat /\ Waiting' \in Nat
  BY DEF CountsTyped, Waiting
<1> QED
  BY <1>1, <1>2, Balance DEF Countdown

\* An iteration of the walk leaves less ahead: the entry it took does not come back.
LEMMA VisitLeavesLess ==
  ASSUME IInv, InOrder, Visit, NEW e \in Ours, VisitOf(e)
  PROVE  Cardinality(Ahead') < Cardinality(Ahead)
<1>1. /\ pc = "walk" /\ target' = target
      /\ Ahead = {f \in Entries : Parent[f] \notin Entering} \union Pending
  BY DEF Visit, Ahead
<1>2. /\ Disjoint(stack) /\ Pending \intersect Entering = {}
      /\ \A f \in Pending \union Range(dirs_to_remove) : Parent[f] \in Entering
  BY <1>1 DEF InOrder
<1>3. e \in Pending /\ e \in Entries /\ e \notin Entering /\ Parent[e] \in Entering
  BY <1>2 DEF VisitOf, Pending, Range, Ours
<1>4. Entering \subseteq Entering'
  <2>1. dirs_to_remove \in Seq(NoFiles)
    BY DEF IInv, TypeInv
  <2>2. CASE Kind[e] \in {"dir", "link_dir"} /\ dirs_to_remove' = Append(dirs_to_remove, e)
    <3>1. e \in NoFiles
      BY <2>2 DEF NoFiles
    <3>2. Range(dirs_to_remove') = Range(dirs_to_remove) \union {e}
      BY <2>1, <2>2, <3>1, AppendRange
    <3> QED
      BY <1>1, <3>2 DEF Entering
  <2>3. CASE dirs_to_remove' = dirs_to_remove
    BY <1>1, <2>3 DEF Entering
  <2> QED
    BY <2>2, <2>3 DEF VisitOf, Listed
<1>5. CASE pc' = "thrown"
  <2>1. Ahead' = {}
    BY <1>5 DEF Ahead
  <2>2. Ahead \in SUBSET Entries /\ e \in Ahead
    BY <1>1, <1>3, AheadEntries DEF IInv
  <2> QED
    BY <2>1, <2>2, PartCounts
<1>6. CASE pc' # "thrown"
  <2>1. /\ UNION Range(Rest(e)) \subseteq Pending /\ e \notin UNION Range(Rest(e))
        /\ Rest(e) \in Seq(SUBSET Ours)
    BY <1>2, RestLevels DEF VisitOf, IInv
  <2>2. Pending' \subseteq (UNION Range(Rest(e))) \union {f \in Entries : Parent[f] = e}
    <3>1. CASE stack' = Rest(e)
      BY <3>1 DEF Pending
    <3>2. CASE stack' = Append(Rest(e), Children(e)) /\ Children(e) \in SUBSET Ours
      <4>1. Range(stack') = Range(Rest(e)) \union {Children(e)}
        BY <2>1, <3>2, AppendRange
      <4>2. Children(e) \subseteq {f \in Entries : Parent[f] = e}
        BY <3>2 DEF Children, Ours
      <4> QED
        BY <4>1, <4>2 DEF Pending
    <3> QED
      BY <1>6, <3>1, <3>2 DEF VisitOf, Stepped
  <2>3. pc' = "walk"
    BY <1>1, <1>6 DEF VisitOf, Stepped
  <2>4. Ahead' = {f \in Entries : Parent[f] \notin Entering'} \union Pending'
    BY <2>3 DEF Ahead
  <2>5. Ahead' \subseteq Ahead /\ e \notin Ahead'
    <3>1. {f \in Entries : Parent[f] \notin Entering'} \subseteq Ahead
      BY <1>1, <1>4
    <3>2. Pending' \subseteq Ahead
      BY <1>1, <1>3, <2>1, <2>2
    <3>3. e \notin Pending'
      BY <2>1, <2>2, NoLoop
    <3> QED
      BY <1>3, <1>4, <2>4, <3>1, <3>2, <3>3
  <2>6. Ahead \in SUBSET Entries /\ e \in Ahead
    BY <1>1, <1>3, AheadEntries DEF IInv
  <2> QED
    BY <2>5, <2>6, PartCounts
<1> QED
  BY <1>5, <1>6

\* It may open a directory, or put one thing on one list.
LEMMA VisitCounts ==
  ASSUME IInv, Calling, InOrder, Visit, CountsTyped, CountsTyped'
  PROVE  Countdown' < Countdown
<1>1. PICK e \in Ours : VisitOf(e)
  BY VisitOutcome DEF IInv
<1>2. Cardinality(Ahead') < Cardinality(Ahead)
  BY <1>1, VisitLeavesLess
<1>3. stack \in Seq(SUBSET Ours) /\ files_to_shred \in Seq(Ours) /\ dirs_to_remove \in Seq(NoFiles)
  BY DEF IInv, TypeInv
<1>4. Len(Rest(e)) = Len(stack)
  BY <1>1, <1>3 DEF Rest, VisitOf
<1>5. \/ Len(stack') = Len(stack)
      \/ Len(stack') = Len(stack) + 1 /\ Kind[e] = "dir"
  <2>1. CASE stack' = Append(Rest(e), Children(e)) /\ Kind[e] = "dir"
    BY <1>1, <1>4, <2>1 DEF VisitOf
  <2>2. CASE stack' = Rest(e) \/ stack' = stack
    BY <1>4, <2>2
  <2> QED
    BY <1>1, <2>1, <2>2 DEF VisitOf, Stepped
<1>6. \/ Len(files_to_shred') = Len(files_to_shred) /\ Len(dirs_to_remove') <= Len(dirs_to_remove) + 1
      \/ /\ Len(files_to_shred') = Len(files_to_shred) + 1 /\ Kind[e] # "dir"
         /\ Len(dirs_to_remove') = Len(dirs_to_remove)
  BY <1>1, <1>3 DEF VisitOf, Listed
<1>7. pc = "walk" /\ pc' \in {"walk", "thrown"}
  BY <1>1 DEF Visit, VisitOf, Stepped
<1>8. CallsLeft' + StagesLeft' <= CallsLeft + StagesLeft + 0
  BY <1>7 DEF CallsLeft, StagesLeft
<1>9. 4 * Cardinality(Ahead') <= 4 * Cardinality(Ahead) + (-4)
  BY <1>2 DEF CountsTyped
<1>10. Waiting' <= Waiting + 3
  <2>1. Len(stack') + 3 * Len(files_to_shred') + Len(dirs_to_remove')
          <= Len(stack) + 3 * Len(files_to_shred) + Len(dirs_to_remove) + 3
    BY <1>5, <1>6 DEF CountsTyped
  <2> QED
    BY <2>1 DEF CountsTyped, Waiting
<1> QED
  BY <1>8, <1>9, <1>10, LessCounts

\* A command that runs still has something ahead of it when it starts.
LEMMA StartCounts ==
  ASSUME IInv, Stages, CountsTyped, CountsTyped',
         ShredFileAtOnce \/ RefuseDirectory \/ RootNotADirectory \/ OpenRoot
  PROVE  Countdown' < Countdown
<1>1. /\ pc = "start" /\ stack = <<>> /\ files_to_shred = <<>> /\ dirs_to_remove = <<>>
      /\ target \in Entries
  BY DEF ShredFileAtOnce, RefuseDirectory, RootNotADirectory, OpenRoot, Stages, IInv, TypeInv, Ours
<1>2. Ahead = Entries
  BY <1>1 DEF Ahead
<1>3. CASE ShredFileAtOnce \/ RefuseDirectory \/ RootNotADirectory
  <2>1. pc' \in {"shred", "exited", "returned"} /\ Ahead' = {}
    BY <1>3 DEF ShredFileAtOnce, RefuseDirectory, RootNotADirectory, Ahead
  <2>2. Cardinality(Ahead') < Cardinality(Ahead)
    BY <1>1, <1>2, <2>1, PartCounts
  <2>3. Waiting' <= Waiting + 3
    <3>1. /\ Len(stack') = 0 /\ Len(files_to_shred') \in 0 .. 1 /\ Len(dirs_to_remove') = 0
          /\ Len(stack) = 0 /\ Len(files_to_shred) = 0 /\ Len(dirs_to_remove) = 0
      BY <1>1, <1>3 DEF ShredFileAtOnce, RefuseDirectory, RootNotADirectory, walk
    <3>2. Waiting = 0
      BY <3>1 DEF Waiting
    <3>3. CASE Len(files_to_shred') = 0
      <4>1. Waiting' = 0
        BY <3>1, <3>3 DEF Waiting
      <4> QED
        BY <3>2, <4>1
    <3>4. CASE Len(files_to_shred') = 1
      <4>1. Waiting' = 3
        BY <3>1, <3>4 DEF Waiting
      <4> QED
        BY <3>2, <4>1
    <3> QED
      BY <3>1, <3>3, <3>4
  <2>4. CallsLeft' + StagesLeft' <= CallsLeft + StagesLeft + (-3)
    BY <1>1, <2>1 DEF CallsLeft, StagesLeft
  <2>5. 4 * Cardinality(Ahead') <= 4 * Cardinality(Ahead) + (-4)
    BY <2>2 DEF CountsTyped
  <2> QED
    BY <2>3, <2>4, <2>5, LessCounts
<1>4. CASE OpenRoot
  <2>1. pc' = "walk" /\ (stack' = <<Children(target)>> \/ stack' = <<>>)
        /\ UNCHANGED <<files_to_shred, dirs_to_remove>>
    BY <1>4 DEF OpenRoot
  <2>2. Ahead' \in SUBSET Entries
    <3>1. Pending' \in SUBSET Entries
      BY <2>1, SingletonSeq, TreeAssumption DEF Pending, Range, Children, IInv, TypeInv, TreeAssumption
    <3> QED
      BY <2>1, <3>1 DEF Ahead
  <2>3. Cardinality(Ahead') <= Cardinality(Ahead)
    BY <1>2, <2>2, PartCounts
  <2>4. Waiting' <= Waiting + 1
    <3>1. /\ Len(stack') \in 0 .. 1 /\ Len(files_to_shred') = 0 /\ Len(dirs_to_remove') = 0
          /\ Len(stack) = 0 /\ Len(files_to_shred) = 0 /\ Len(dirs_to_remove) = 0
      BY <1>1, <2>1
    <3>2. Waiting = 0
      BY <3>1 DEF Waiting
    <3>3. Waiting' = Len(stack')
      BY <3>1 DEF Waiting, CountsTyped
    <3> QED
      BY <3>1, <3>2, <3>3
  <2>5. CallsLeft' + StagesLeft' <= CallsLeft + StagesLeft + (-2)
    BY <1>1, <2>1 DEF CallsLeft, StagesLeft
  <2>6. 4 * Cardinality(Ahead') <= 4 * Cardinality(Ahead) + 0
    BY <2>3 DEF CountsTyped
  <2> QED
    BY <2>4, <2>5, <2>6, LessCounts
<1> QED
  BY <1>3, <1>4

\* A directory that has been gone through is left, and the walk with the last.
LEMMA AscendCounts ==
  ASSUME IInv, CountsTyped, CountsTyped', Ascend
  PROVE  Countdown' < Countdown
<1>1. /\ pc = "walk" /\ UNCHANGED <<target, files_to_shred, dirs_to_remove>>
      /\ stack \in Seq(SUBSET Ours)
  BY DEF Ascend, IInv, TypeInv
<1>2. CASE stack = <<>>
  <2>1. pc' = "shred" /\ stack' = stack /\ Ahead' = {}
    BY <1>2 DEF Ascend, Ahead
  <2>2. Cardinality(Ahead') <= Cardinality(Ahead)
    BY <2>1, AheadEntries, PartCounts DEF IInv
  <2>3. Waiting' <= Waiting + 0
    BY <1>1, <2>1 DEF Waiting, CountsTyped
  <2>4. CallsLeft' + StagesLeft' <= CallsLeft + StagesLeft + (-1)
    BY <1>1, <2>1 DEF CallsLeft, StagesLeft
  <2>5. 4 * Cardinality(Ahead') <= 4 * Cardinality(Ahead) + 0
    BY <2>2 DEF CountsTyped
  <2> QED
    BY <2>3, <2>4, <2>5, LessCounts
<1>3. CASE stack # <<>>
  <2>1. pc' = pc /\ stack' = Front(stack) /\ Last(stack) = {}
    BY <1>3 DEF Ascend
  <2>2. Pending' = Pending /\ Entering' = Entering
    BY <1>1, <1>3, <2>1, FrontLevels DEF Pending, Entering
  <2>3. Ahead' = Ahead
    BY <1>1, <2>1, <2>2 DEF Ahead
  <2>4. Len(stack') = Len(stack) - 1
    <3>1. /\ Len(stack) \in Nat \ {0} /\ DOMAIN Front(stack) = 1 .. (Len(stack) - 1)
          /\ Front(stack) \in Seq(SUBSET Ours)
      BY <1>1, <1>3, FrontOfSeq DEF Front
    <3> QED
      BY <2>1, <3>1
  <2>5. Waiting' <= Waiting + (-1)
    BY <1>1, <2>4 DEF Waiting, CountsTyped
  <2>6. CallsLeft' + StagesLeft' <= CallsLeft + StagesLeft + 0
    BY <1>1, <2>1 DEF CallsLeft, StagesLeft
  <2>7. 4 * Cardinality(Ahead') <= 4 * Cardinality(Ahead) + 0
    BY <2>3 DEF CountsTyped
  <2> QED
    BY <2>5, <2>6, <2>7, LessCounts
<1> QED
  BY <1>2, <1>3

\* Neither the walk nor what it found is touched while there is nothing ahead.
LEMMA NothingAhead ==
  ASSUME CountsTyped, CountsTyped', pc \notin {"start", "walk"}, pc' \notin {"start", "walk"}
  PROVE  4 * Cardinality(Ahead') <= 4 * Cardinality(Ahead) + 0
<1>1. Ahead' = Ahead
  BY DEF Ahead
<1> QED
  BY <1>1 DEF CountsTyped

\* A file comes off the list for the call or, if it is none, for good.
LEMMA StartFileCounts ==
  ASSUME IInv, CountsTyped, CountsTyped', StartFile
  PROVE  Countdown' < Countdown
<1>1. /\ pc = "shred" /\ pc' \in {"shred", "call"} /\ entry' = "original"
      /\ files_to_shred # <<>> /\ files_to_shred' = Tail(files_to_shred)
      /\ UNCHANGED <<stack, dirs_to_remove>>
      /\ files_to_shred \in Seq(Ours)
  BY DEF StartFile, IInv, TypeInv
<1>2. 4 * Cardinality(Ahead') <= 4 * Cardinality(Ahead) + 0
  BY <1>1, NothingAhead
<1>3. Waiting' <= Waiting + (-3)
  <2>1. Len(files_to_shred') = Len(files_to_shred) - 1
    BY <1>1
  <2> QED
    BY <1>1, <2>1 DEF Waiting, CountsTyped
<1>4. CallsLeft' + StagesLeft' <= CallsLeft + StagesLeft + 2
  BY <1>1 DEF CallsLeft, StagesLeft
<1> QED
  BY <1>2, <1>3, <1>4, LessCounts

\* A call masks the name, once, or returns.
LEMMA CallCounts ==
  ASSUME IInv, Calling, CountsTyped, CountsTyped', CallStep, vars' # vars
  PROVE  Countdown' < Countdown
<1>1. /\ pc = "call" /\ pc' \in {"shred", "call"} /\ current' = current
      /\ UNCHANGED <<target, others, refused, walk, ends>>
  BY DEF CallStep
<1>2. 4 * Cardinality(Ahead') <= 4 * Cardinality(Ahead) + 0
  BY <1>1, NothingAhead
<1>3. Waiting' <= Waiting + 0
  BY <1>1 DEF Waiting, CountsTyped, walk
<1>4. pc' = "call" => entry = "original" /\ entry' = "renamed"
  <2>1. SUFFICES ASSUME pc' = "call" PROVE entry = "original" /\ entry' = "renamed"
    OBVIOUS
  <2>2. status' = "PENDING" /\ UNCHANGED <<pc, outcome>>
    BY <1>1, <2>1 DEF CallStep
  <2>3. entry' = "renamed" /\ UNCHANGED <<status, passed>>
    BY <2>2 DEF CallStep, C!Next, C!Refuse, C!Mask, C!Finish
  <2>4. ASSUME entry # "original" PROVE FALSE
    <3>1. entry = "renamed" /\ (current \in Present => tree[current] = "renamed")
      BY <1>1, <2>4 DEF Calling
    <3>2. tree' = tree
      <4>1. CASE current \notin Present
        BY <4>1 DEF CallStep
      <4>2. CASE current \in Present
        <5>1. tree' = [tree EXCEPT ![current] = "renamed"]
          BY <2>3, <4>2 DEF CallStep
        <5> QED
          BY <3>1, <4>2, <5>1 DEF Calling
      <4> QED
        BY <4>1, <4>2
    <3> QED
      BY <1>1, <2>2, <2>3, <3>1, <3>2 DEF vars, callVars
  <2> QED
    BY <2>3, <2>4
<1>5. CallsLeft' + StagesLeft' <= CallsLeft + StagesLeft + (-1)
  BY <1>1, <1>4 DEF CallsLeft, StagesLeft
<1> QED
  BY <1>2, <1>3, <1>5, LessCounts

\* A directory comes off the list whether or not it could be removed.
LEMMA RemoveCounts ==
  ASSUME IInv, CountsTyped, CountsTyped', RemoveDirectory
  PROVE  Countdown' < Countdown
<1>1. /\ pc = "remove" /\ pc' = pc /\ UNCHANGED <<stack, files_to_shred>>
      /\ dirs_to_remove # <<>> /\ dirs_to_remove \in Seq(NoFiles)
      /\ dirs_to_remove' = RemoveAt(dirs_to_remove, Len(dirs_to_remove))
  BY DEF RemoveDirectory, NextDirectory, IInv, TypeInv
<1>2. 4 * Cardinality(Ahead') <= 4 * Cardinality(Ahead) + 0
  BY <1>1, NothingAhead
<1>3. Waiting' <= Waiting + (-1)
  <2>1. /\ dirs_to_remove' \in Seq(NoFiles) /\ Len(dirs_to_remove) \in Nat \ {0}
        /\ DOMAIN dirs_to_remove' = 1 .. (Len(dirs_to_remove) - 1)
    BY <1>1, RemoveLast
  <2>2. Len(dirs_to_remove') = Len(dirs_to_remove) - 1
    BY <2>1
  <2> QED
    BY <1>1, <2>2 DEF Waiting, CountsTyped
<1>4. CallsLeft' + StagesLeft' <= CallsLeft + StagesLeft + 0
  BY <1>1 DEF CallsLeft, StagesLeft
<1> QED
  BY <1>2, <1>3, <1>4, LessCounts

\* The stages after the walk follow each other once.
LEMMA StageCounts ==
  ASSUME CountsTyped, CountsTyped', FileDone \/ RemoveRoot \/ Finish
  PROVE  Countdown' < Countdown
<1>1. /\ \/ pc = "shred" /\ pc' \in {"returned", "remove"}
         \/ pc = "remove" /\ pc' = "returned"
         \/ pc = "returned" /\ pc' = "exited"
      /\ UNCHANGED walk
  BY DEF FileDone, RemoveRoot, Finish
<1>2. 4 * Cardinality(Ahead') <= 4 * Cardinality(Ahead) + 0
  BY <1>1, NothingAhead
<1>3. Waiting' <= Waiting + 0
  BY <1>1 DEF Waiting, CountsTyped, walk
<1>4. CallsLeft' + StagesLeft' <= CallsLeft + StagesLeft + (-1)
  BY <1>1 DEF CallsLeft, StagesLeft
<1> QED
  BY <1>2, <1>3, <1>4, LessCounts

\* Files that come and go change no list of the command's.
LEMMA OthersCount ==
  ASSUME Create \/ Vanish
  PROVE  Countdown' = Countdown
<1>1. UNCHANGED <<target, pc, stack, files_to_shred, dirs_to_remove, entry>>
  BY DEF Create, Vanish, walk, callVars
<1> QED
  BY <1>1 DEF Countdown, Ahead, Pending, Entering, Waiting, CallsLeft, StagesLeft

\* What bounds the walk and the calls.
Counted == IInv /\ Stages /\ InOrder /\ Calling

LEMMA CountedStep == Counted /\ [Next]_vars => Counted'
BY InvStep, StagesStep, InOrderStep, CallingStep DEF Counted

LEMMA CountedTypes == Counted => CountsTyped /\ Countdown \in Nat
<1> SUFFICES ASSUME Counted PROVE CountsTyped /\ Countdown \in Nat
  OBVIOUS
<1>1. CountsTyped
  BY CountTypes DEF Counted
<1>2. Waiting \in Nat
  BY <1>1 DEF CountsTyped, Waiting
<1> QED
  BY <1>1, <1>2 DEF CountsTyped, Countdown

\* So that every step of the command counts.
LEMMA ProgramCounts ==
  ASSUME Counted, Program, vars' # vars
  PROVE  Countdown' \in 0 .. Countdown - 1
<1>1. Counted'
  BY CountedStep DEF Next
<1>2. /\ CountsTyped /\ CountsTyped'
      /\ Countdown \in Nat /\ Countdown' \in Nat
  <2>1. CountsTyped /\ Countdown \in Nat
    BY CountedTypes
  <2>2. (CountsTyped /\ Countdown \in Nat)'
    BY <1>1, CountedTypes, PTL
  <2> QED
    BY <2>1, <2>2
<1>3. Countdown' < Countdown
  <2>1. IInv /\ Stages /\ InOrder /\ Calling
    BY DEF Counted
  <2>2. CASE ShredFileAtOnce \/ RefuseDirectory \/ RootNotADirectory \/ OpenRoot
    BY <1>2, <2>1, <2>2, StartCounts
  <2>3. CASE Visit
    BY <1>2, <2>1, <2>3, VisitCounts
  <2>4. CASE Ascend
    BY <1>2, <2>1, <2>4, AscendCounts
  <2>5. CASE StartFile
    BY <1>2, <2>1, <2>5, StartFileCounts
  <2>6. CASE CallStep
    BY <1>2, <2>1, <2>6, CallCounts
  <2>7. CASE RemoveDirectory
    BY <1>2, <2>1, <2>7, RemoveCounts
  <2>8. CASE FileDone \/ RemoveRoot \/ Finish
    BY <1>2, <2>8, StageCounts
  <2> QED
    BY <2>2, <2>3, <2>4, <2>5, <2>6, <2>7, <2>8 DEF Program
<1> QED
  BY <1>2, <1>3

\* The shred command cannot run for ever, over any tree with any links in it and
\* while other processes add and remove files: it takes at most four steps for each
\* entry there is or may be, and six more.
THEOREM TreeStepsRunOut == Spec => Countdown = 4 * Cardinality(Entries) + 6 /\ EachStepCounts
<1> DEFINE Counts == /\ Program => Countdown' \in 0 .. Countdown - 1
                     /\ ~ Program => Countdown' = Countdown
<1>1. Init => Counted /\ Countdown = 4 * Cardinality(Entries) + 6
  <2> SUFFICES ASSUME Init PROVE Counted /\ Countdown = 4 * Cardinality(Entries) + 6
    OBVIOUS
  <2>1. Counted
    BY InvInit, StagesInit, InOrderInit, CallingInit DEF Counted
  <2>2. Ahead = Entries /\ Waiting = 0 /\ CallsLeft = 0 /\ StagesLeft = 6
    BY DEF Init, Ahead, Waiting, CallsLeft, StagesLeft
  <2>3. Cardinality(Entries) \in Nat
    BY PartCounts
  <2> QED
    BY <2>1, <2>2, <2>3 DEF Countdown
<1>2. Counted /\ [Next]_vars => [Counts]_vars
  BY ProgramCounts, OthersCount DEF Next
<1>3. EachStepCounts <=> [][Counts]_vars
  BY DEF EachStepCounts
<1> HIDE DEF Counts
<1> QED
  BY CountedStep, <1>1, <1>2, <1>3, PTL DEF Spec
==============================================================================
