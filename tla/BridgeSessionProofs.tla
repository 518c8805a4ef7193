------------------------ MODULE BridgeSessionProofs ------------------------
(***************************************************************************)
(* Proofs about the bridge session, for any sets of connections, tracks,   *)
(* documents and patches and any ring capacity.                            *)
(***************************************************************************)
EXTENDS BridgeSession, SequenceTheorems, TLAPS

(* What the ops of a patch make of a document                              *)

LEMMA OpResultType ==
  ASSUME NEW d \in Doc, NEW o \in Op, OpApplies(d, o)
  PROVE  /\ OpResult(d, o) \in Doc
         /\ OpResult(d, o).tracks = d.tracks
<1>1. CASE o.op = "addInsert"
  <2>1. o.key \in Keys
    BY <1>1 DEF Op
  <2>2. OpResult(d, o) = [d EXCEPT !.inserts = @ \cup {o.key}]
    BY <1>1 DEF OpResult
  <2> QED BY <2>1, <2>2 DEF Doc
<1>2. CASE o.op = "removeInsert"
  <2>1. OpResult(d, o) = [d EXCEPT !.inserts = @ \ {o.key}]
    BY <1>2 DEF OpResult
  <2> QED BY <2>1 DEF Doc
<1>3. CASE o.op = "addSend"
  <2>1. o.send \in Sends
    BY <1>3 DEF Op
  <2>2. OpResult(d, o) = [d EXCEPT !.sends = @ \cup {o.send}]
    BY <1>3 DEF OpResult
  <2> QED BY <2>1, <2>2 DEF Doc
<1>4. CASE o.op = "removeSend"
  <2>1. OpResult(d, o) = [d EXCEPT !.sends = @ \ {o.send}]
    BY <1>4 DEF OpResult
  <2> QED BY <2>1 DEF Doc
<1>5. CASE o.op \notin {"addInsert", "removeInsert", "addSend", "removeSend"}
  <2>1. OpResult(d, o) = d
    BY <1>5 DEF OpResult
  <2> QED BY <2>1
<1> QED BY <1>1, <1>2, <1>3, <1>4, <1>5

(* Where a handler may stand, and what it holds there                      *)

HandlersOK ==
  /\ pc \in [Conns -> Places]
  /\ DOMAIN work = Conns
  /\ \A c \in Conns : Carries(pc[c], work[c])
  /\ reply \in [Conns -> {"none", "ok", "err"}]
  /\ lastEdit \in {"none", "ok", "err"}

SharedOK ==
  /\ project \in Project \cup {None}
  /\ lock \in Conns \cup {None}
  /\ lock # None => project # None
  /\ trackIndex \in Seq(Tracks)
  /\ editors \subseteq Keys
  /\ minted \subseteq FreshIds

LockOK == \A c \in Conns : pc[c] = "patch" <=> lock = c

AudioOK ==
  /\ engine \in {"cold", "running", "headless"}
  /\ ring \in Seq(Cmd)
  /\ Len(ring) <= RingCap
  /\ graph \in Project \cup {None}

LEMMA TypeParts == TypeOK <=> HandlersOK /\ SharedOK /\ LockOK /\ AudioOK
BY DEF TypeOK, HandlersOK, SharedOK, LockOK, AudioOK

LEMMA TypePartsNext == HandlersOK' /\ SharedOK' /\ LockOK' /\ AudioOK' => TypeOK'
BY DEF TypeOK, HandlersOK, SharedOK, LockOK, AudioOK

LEMMA GotoOK ==
  ASSUME HandlersOK, NEW c \in Conns, NEW where \in Places, NEW what,
         Carries(where, what), Goto(c, where, what)
  PROVE  /\ HandlersOK'
         /\ pc'[c] = where /\ work'[c] = what
         /\ \A d \in Conns : d # c => pc'[d] = pc[d] /\ work'[d] = work[d]
BY DEF HandlersOK, Goto

LEMMA AnswerOK ==
  ASSUME HandlersOK, NEW c \in Conns, NEW r \in {"ok", "err"},
         Answer(c, r) \/ AnswerEdit(c, r)
  PROVE  /\ HandlersOK'
         /\ pc'[c] = "idle" /\ work'[c] = None
         /\ \A d \in Conns : d # c => pc'[d] = pc[d] /\ work'[d] = work[d]
<1>1. Carries("idle", None)
  BY DEF Carries
<1> QED BY <1>1 DEF HandlersOK, Answer, AnswerEdit, Places

LEMMA LockKept ==
  ASSUME HandlersOK, LockOK, NEW c \in Conns,
         pc[c] # "patch", pc'[c] # "patch", UNCHANGED lock,
         \A d \in Conns : d # c => pc'[d] = pc[d]
  PROVE  LockOK'
BY DEF LockOK

(* Every request and every handler step keeps the types                    *)

LEMMA RevType == TypeOK => Rev \in Nat
BY DEF TypeOK, Rev, Project

LEMMA TypeLoad ==
  ASSUME SessionAssumption, TypeOK, NEW c \in Conns,
         \/ \E d \in LoadDocs : LoadBuild(c, d)
         \/ LoadIndex(c)
         \/ LoadStore(c)
  PROVE  TypeOK'
<1> USE TypeParts, TypePartsNext
<1>1. ASSUME NEW d \in LoadDocs, LoadBuild(c, d) PROVE TypeOK'
  <2>1. Carries("loadIndex", [doc |-> d])
    BY DEF Carries, SessionAssumption
  <2>2. HandlersOK' /\ LockOK'
    <3>1. CASE Buildable(d)
      BY <1>1, <2>1, <3>1, GotoOK, LockKept DEF LoadBuild, sessionVars, Places
    <3>2. CASE ~Buildable(d)
      BY <1>1, <3>2, AnswerOK, LockKept DEF LoadBuild, sessionVars
    <3> QED BY <3>1, <3>2
  <2> QED BY <1>1, <2>2 DEF LoadBuild, sessionVars, audioVars, SharedOK, AudioOK
<1>2. CASE LoadIndex(c)
  <2>1. work[c] \in [doc : Doc]
    BY <1>2 DEF LoadIndex, TypeOK, Carries
  <2>2. Carries("loadStore", work[c])
    BY <2>1 DEF Carries
  <2>3. HandlersOK' /\ LockOK'
    BY <1>2, <2>2, GotoOK, LockKept DEF LoadIndex, Places
  <2>4. trackIndex' \in Seq(Tracks)
    BY <1>2, <2>1 DEF LoadIndex, Doc
  <2> QED BY <1>2, <2>3, <2>4 DEF LoadIndex, audioVars, SharedOK, AudioOK
<1>3. CASE LoadStore(c)
  <2>1. work[c] \in [doc : Doc]
    BY <1>3 DEF LoadStore, TypeOK, Carries
  <2>2. project' \in Project
    BY <1>3, <2>1, RevType DEF LoadStore, Project
  <2>3. Carries("send", [kind |-> "SetGraph", graph |-> project'])
    BY <2>2 DEF Carries, Cmd
  <2>4. HandlersOK' /\ LockOK'
    BY <1>3, <2>3, GotoOK, LockKept DEF LoadStore, Places
  <2> QED BY <1>3, <2>2, <2>4 DEF LoadStore, audioVars, SharedOK, AudioOK
<1> QED BY <1>1, <1>2, <1>3

LEMMA TypePatch ==
  ASSUME SessionAssumption, TypeOK, NEW c \in Conns,
         \/ \E ops \in Patches : PatchBegin(c, ops)
         \/ PatchOp(c)
         \/ PatchEnd(c)
  PROVE  TypeOK'
<1> USE TypeParts, TypePartsNext
<1>1. ASSUME NEW ops \in Patches, PatchBegin(c, ops) PROVE TypeOK'
  <2>1. CASE project = None
    BY <1>1, <2>1, AnswerOK, LockKept
       DEF PatchBegin, audioVars, SharedOK, AudioOK
  <2>2. CASE project # None
    <3>1. Carries("patch", [ops |-> ops])
      BY DEF Carries, SessionAssumption
    <3>2. /\ HandlersOK' /\ pc'[c] = "patch"
          /\ \A d \in Conns : d # c => pc'[d] = pc[d]
      BY <1>1, <2>2, <3>1, GotoOK DEF PatchBegin, Places
    <3>3. c # None
      BY DEF SessionAssumption
    <3>4. LockOK'
      BY <1>1, <2>2, <3>2, <3>3 DEF PatchBegin, LockOK
    <3>5. project' \in Project /\ project' # None
      BY <1>1, <2>2 DEF PatchBegin, SharedOK, Project, SessionAssumption
    <3> QED BY <1>1, <2>2, <3>2, <3>4, <3>5
            DEF PatchBegin, audioVars, SharedOK, AudioOK
  <2> QED BY <2>1, <2>2
<1>2. CASE PatchOp(c)
  <2>1. /\ work[c] \in [ops : Seq(Op)]
        /\ lock = c /\ c # None /\ project \in Project /\ project.doc \in Doc
        /\ project.rev \in Nat
    BY <1>2 DEF PatchOp, TypeOK, Carries, SessionAssumption, Project
  <2> DEFINE o == Head(work[c].ops)
  <2>2. o \in Op /\ Tail(work[c].ops) \in Seq(Op)
    BY <1>2, <2>1, HeadTailProperties DEF PatchOp
  <2>3. CASE OpApplies(project.doc, o)
    <3>1. project' = [rev |-> project.rev, doc |-> OpResult(project.doc, o)]
      BY <1>2, <2>1, <2>3 DEF PatchOp, Project
    <3>2. project' \in Project
      BY <2>1, <2>2, <2>3, <3>1, OpResultType DEF Project
    <3>3. Carries("patch", [ops |-> Tail(work[c].ops)])
      BY <2>2 DEF Carries
    <3>4. /\ HandlersOK' /\ pc'[c] = "patch"
          /\ \A d \in Conns : d # c => pc'[d] = pc[d]
      BY <1>2, <2>3, <3>3, GotoOK DEF PatchOp, Places
    <3>5. LockOK'
      BY <1>2, <2>1, <2>3, <3>4 DEF PatchOp, LockOK
    <3>6. project' # None
      BY <3>2 DEF SessionAssumption
    <3> QED BY <1>2, <2>1, <2>3, <3>2, <3>4, <3>5, <3>6
            DEF PatchOp, audioVars, SharedOK, AudioOK
  <2>4. CASE ~OpApplies(project.doc, o)
    <3>1. /\ HandlersOK' /\ pc'[c] = "idle"
          /\ \A d \in Conns : d # c => pc'[d] = pc[d]
      BY <1>2, <2>4, AnswerOK DEF PatchOp, PatchFails
    <3>2. LockOK'
      BY <1>2, <2>1, <2>4, <3>1 DEF PatchOp, PatchFails, LockOK, SessionAssumption
    <3> QED BY <1>2, <2>1, <2>4, <3>1, <3>2
            DEF PatchOp, PatchFails, audioVars, SharedOK, AudioOK
  <2> QED BY <2>3, <2>4
<1>3. CASE PatchEnd(c)
  <2>1. lock = c /\ c # None /\ project \in Project /\ project.doc.tracks \in Seq(Tracks)
    BY <1>3 DEF PatchEnd, TypeOK, SessionAssumption, Project, Doc
  <2>2. Carries("rebuild", [snapshot |-> project])
    BY <2>1 DEF Carries
  <2>3. /\ HandlersOK' /\ pc'[c] = "rebuild"
        /\ \A d \in Conns : d # c => pc'[d] = pc[d]
    BY <1>3, <2>2, GotoOK DEF PatchEnd, Commit, Places
  <2>4. LockOK'
    BY <1>3, <2>1, <2>3 DEF PatchEnd, LockOK, SessionAssumption
  <2> QED BY <1>3, <2>1, <2>3, <2>4
          DEF PatchEnd, Commit, audioVars, SharedOK, AudioOK
<1> QED BY <1>1, <1>2, <1>3

\* A chain edit, whatever it does to the document
LEMMA TypeEdit ==
  ASSUME SessionAssumption, TypeOK, NEW c \in Conns, pc[c] = "idle",
         NEW applies, NEW d, project # None /\ applies => d \in Doc,
         Edit(c, applies, d)
  PROVE  HandlersOK' /\ LockOK' /\ AudioOK'
         /\ project' \in Project \cup {None}
         /\ trackIndex' \in Seq(Tracks)
         /\ lock' = lock /\ editors' = editors
         /\ (lock' # None => project' # None)
<1> USE TypeParts
<1>1. CASE project # None /\ applies
  <2>1. project' = [rev |-> project.rev + 1, doc |-> d]
    BY <1>1 DEF Edit
  <2>2. project' \in Project
    BY <1>1, <2>1 DEF TypeOK, Project
  <2>3. Carries("rebuild", [snapshot |-> project'])
    BY <2>2 DEF Carries
  <2>4. Goto(c, "rebuild", [snapshot |-> project']) /\ trackIndex' = d.tracks
    BY <1>1, <2>1 DEF Edit, Commit
  <2>5. HandlersOK' /\ LockOK'
    BY <2>3, <2>4, GotoOK, LockKept DEF Edit, Places
  <2> QED BY <1>1, <2>2, <2>4, <2>5 DEF Edit, audioVars, AudioOK, Doc
<1>2. CASE ~(project # None /\ applies)
  <2>1. AnswerEdit(c, "err") /\ UNCHANGED <<project, trackIndex>>
    BY <1>2 DEF Edit, RefuseEdit
  <2>2. HandlersOK' /\ LockOK'
    BY <2>1, AnswerOK, LockKept DEF Edit
  <2> QED BY <2>1, <2>2 DEF Edit, audioVars, AudioOK, SharedOK
<1> QED BY <1>1, <1>2

LEMMA TypeChain ==
  ASSUME SessionAssumption, TypeOK, NEW c \in Conns,
         NEW t \in Tracks, NEW n \in NodeIds,
         \/ n \in FreshIds /\ ChainAddNode(c, t, n)
         \/ ChainRemoveNode(c, t, n)
         \/ ChainSetParam(c, t, n)
  PROVE  TypeOK'
<1> USE TypeParts, TypePartsNext
<1> DEFINE has == HasTrack(project.doc, t) /\ <<t, n>> \in project.doc.inserts
<1>1. <<t, n>> \in Keys
  BY DEF Keys
<1>2. project # None =>
        /\ project.doc \in Doc
        /\ [project.doc EXCEPT !.inserts = @ \cup {<<t, n>>}] \in Doc
        /\ [project.doc EXCEPT !.inserts = @ \ {<<t, n>>}] \in Doc
  BY <1>1 DEF TypeOK, Project, Doc
<1>3. CASE n \in FreshIds /\ ChainAddNode(c, t, n)
  <2>1. Edit(c, HasTrack(project.doc, t),
             [project.doc EXCEPT !.inserts = @ \cup {<<t, n>>}])
    BY <1>3 DEF ChainAddNode
  <2>2. pc[c] = "idle" /\ minted' \subseteq FreshIds
    BY <1>3 DEF ChainAddNode, TypeOK
  <2> QED BY <1>2, <2>1, <2>2, TypeEdit DEF SharedOK
<1>4. CASE ChainRemoveNode(c, t, n)
  <2>1. Edit(c, has, [project.doc EXCEPT !.inserts = @ \ {<<t, n>>}])
    BY <1>4 DEF ChainRemoveNode
  <2>2. pc[c] = "idle" /\ minted' = minted
    BY <1>4 DEF ChainRemoveNode
  <2> QED BY <1>2, <2>1, <2>2, TypeEdit DEF SharedOK
<1>5. CASE ChainSetParam(c, t, n)
  <2>1. Edit(c, has, project.doc)
    BY <1>5 DEF ChainSetParam
  <2>2. pc[c] = "idle" /\ minted' = minted
    BY <1>5 DEF ChainSetParam
  <2> QED BY <1>2, <2>1, <2>2, TypeEdit DEF SharedOK
<1> QED BY <1>3, <1>4, <1>5

LEMMA TypeRebuild ==
  ASSUME SessionAssumption, TypeOK, NEW c \in Conns, Rebuild(c)
  PROVE  TypeOK'
<1> USE TypeParts, TypePartsNext
<1>1. work[c].snapshot \in Project
  BY DEF Rebuild, TypeOK, Carries
<1>2. Carries("send", [kind |-> "SetGraph", graph |-> work[c].snapshot])
  BY <1>1 DEF Carries, Cmd
<1>3. CASE Buildable(work[c].snapshot.doc)
  <2>1. HandlersOK' /\ LockOK'
    BY <1>2, <1>3, GotoOK, LockKept DEF Rebuild, sessionVars, Places
  <2> QED BY <2>1 DEF Rebuild, sessionVars, audioVars, SharedOK, AudioOK
<1>4. CASE ~Buildable(work[c].snapshot.doc)
  <2>1. HandlersOK' /\ LockOK'
    BY <1>4, AnswerOK, LockKept DEF Rebuild, sessionVars
  <2> QED BY <2>1 DEF Rebuild, sessionVars, audioVars, SharedOK, AudioOK
<1> QED BY <1>3, <1>4

LEMMA TypeOthers ==
  ASSUME SessionAssumption, TypeOK, NEW c \in Conns,
         \/ EditRefused(c)
         \/ Transport(c)
         \/ \E t \in Tracks : MidiNote(c, t)
         \/ \E render \in BOOLEAN : ReadProject(c, render)
         \/ OpenEditor(c)
         \/ \E t \in Tracks, n \in NodeIds : ShowEditor(c, t, n) \/ HideEditor(c, t, n)
  PROVE  TypeOK'
<1> USE TypeParts, TypePartsNext
<1>1. CASE EditRefused(c)
  BY <1>1, AnswerOK, LockKept
     DEF EditRefused, sessionVars, audioVars, SharedOK, AudioOK
<1>2. CASE Transport(c)
  <2>1. Carries("send", [kind |-> "Transport"])
    BY DEF Carries, Cmd
  <2> QED BY <1>2, <2>1, GotoOK, LockKept
          DEF Transport, sessionVars, audioVars, SharedOK, AudioOK, Places
<1>3. ASSUME NEW t \in Tracks, MidiNote(c, t) PROVE TypeOK'
  <2>1. ASSUME NEW i \in 0..Len(trackIndex),
               Goto(c, "send", [kind |-> "LiveNote", idx |-> i, track |-> t,
                                trusted |-> lastEdit = "ok"])
        PROVE  TypeOK'
    <3>1. i \in Nat
      BY DEF TypeOK
    <3>2. Carries("send", [kind |-> "LiveNote", idx |-> i, track |-> t,
                           trusted |-> lastEdit = "ok"])
      BY <3>1 DEF Carries, Cmd
    <3> QED BY <1>3, <2>1, <3>2, GotoOK, LockKept
            DEF MidiNote, sessionVars, audioVars, SharedOK, AudioOK, Places
  <2>2. CASE Answer(c, "err")
    BY <1>3, <2>2, AnswerOK, LockKept
       DEF MidiNote, sessionVars, audioVars, SharedOK, AudioOK
  <2> QED BY <1>3, <2>1, <2>2 DEF MidiNote
<1>4. ASSUME NEW render \in BOOLEAN, ReadProject(c, render) PROVE TypeOK'
  BY <1>4, AnswerOK, LockKept
     DEF ReadProject, sessionVars, audioVars, SharedOK, AudioOK
<1>5. CASE OpenEditor(c)
  <2>1. work[c].key \in Keys
    BY <1>5 DEF OpenEditor, TypeOK, Carries
  <2> QED BY <1>5, <2>1, AnswerOK, LockKept
          DEF OpenEditor, audioVars, SharedOK, AudioOK
<1>6. ASSUME NEW t \in Tracks, NEW n \in NodeIds, ShowEditor(c, t, n) PROVE TypeOK'
  <2>1. Carries("showEditor", [key |-> <<t, n>>])
    BY DEF Carries, Keys
  <2>2. \/ Goto(c, "showEditor", [key |-> <<t, n>>])
        \/ Answer(c, "err")
    BY <1>6 DEF ShowEditor
  <2>3. HandlersOK' /\ LockOK'
    BY <1>6, <2>1, <2>2, GotoOK, AnswerOK, LockKept DEF ShowEditor, sessionVars, Places
  <2> QED BY <1>6, <2>3 DEF ShowEditor, sessionVars, audioVars, SharedOK, AudioOK
<1>7. ASSUME NEW t \in Tracks, NEW n \in NodeIds, HideEditor(c, t, n) PROVE TypeOK'
  BY <1>7, AnswerOK, LockKept DEF HideEditor, audioVars, SharedOK, AudioOK
<1> QED BY <1>1, <1>2, <1>3, <1>4, <1>5, <1>6, <1>7

LEMMA TypeSendRt ==
  ASSUME SessionAssumption, TypeOK, NEW c \in Conns, SendRt(c)
  PROVE  TypeOK'
<1> USE TypeParts, TypePartsNext
<1> DEFINE r == IF HasRoom THEN "ok" ELSE "err"
<1>1. work[c] \in Cmd
  BY DEF SendRt, TypeOK, Carries
<1>2. HandlersOK' /\ LockOK'
  <2>1. AnswerEdit(c, r) \/ Answer(c, r)
    BY DEF SendRt
  <2> QED BY <2>1, AnswerOK, LockKept DEF SendRt, sessionVars
<1>3. ring' \in Seq(Cmd) /\ Len(ring') <= RingCap
  <2>1. CASE HasRoom
    BY <1>1, <2>1, AppendProperties DEF SendRt, HasRoom, TypeOK, SessionAssumption
  <2>2. CASE ~HasRoom
    BY <2>2 DEF SendRt, TypeOK
  <2> QED BY <2>1, <2>2
<1>4. engine' \in {"cold", "running", "headless"}
  BY DEF SendRt, TypeOK
<1> QED BY <1>2, <1>3, <1>4 DEF SendRt, sessionVars, SharedOK, AudioOK

LEMMA TypeCallback ==
  ASSUME SessionAssumption, TypeOK, Callback
  PROVE  TypeOK'
<1>1. Head(ring) \in Cmd /\ Tail(ring) \in Seq(Cmd) /\ Len(Tail(ring)) = Len(ring) - 1
  BY HeadTailProperties DEF Callback, TypeOK
<1>2. Head(ring).kind = "SetGraph" => Head(ring).graph \in Project
  BY <1>1 DEF Cmd
<1>3. Len(ring) \in Nat /\ RingCap \in Nat
  BY LenProperties DEF TypeOK, SessionAssumption
<1> QED BY <1>1, <1>2, <1>3 DEF Callback, sessionVars, TypeOK

\* The types of the session: no handler carries a thing of the wrong kind to
\* its next step, the mutex is held by the handler that applies a patch and
\* by no other, and the ring never exceeds its capacity.
THEOREM SessionTypes == Spec => []TypeOK
<1> USE SessionAssumption
<1>1. Init => TypeOK
  BY DEF Init, TypeOK, Carries, Places
<1>2. TypeOK /\ [Next]_vars => TypeOK'
  <2> SUFFICES ASSUME TypeOK, [Next]_vars PROVE TypeOK'
    OBVIOUS
  <2>1. ASSUME NEW c \in Conns, Request(c) PROVE TypeOK'
    BY <2>1, TypeLoad, TypePatch, TypeChain, TypeOthers DEF Request, SessionAssumption
  <2>2. ASSUME NEW c \in Conns, Handler(c) PROVE TypeOK'
    BY <2>2, TypeLoad, TypePatch, TypeRebuild, TypeSendRt, TypeOthers DEF Handler
  <2>3. CASE Callback
    BY <2>3, TypeCallback
  <2>4. CASE UNCHANGED vars
    BY <2>4 DEF vars, TypeOK
  <2> QED BY <2>1, <2>2, <2>3, <2>4 DEF Next
<1> QED BY <1>1, <1>2, PTL DEF Spec
-----------------------------------------------------------------------------
(* What reaches the audio thread                                           *)

Safe == GraphsAreOrdered /\ SnapshotsAreCommitted

\* The mutex is free and an edit begins, or a patch that holds it goes on.
ProjectMoves ==
  \/ UNCHANGED <<project, lock>>
  \/ lock = None /\ project' \in Project /\ project'.rev = Rev + 1
  \/ lock # None /\ project' \in Project /\ project'.rev = Rev

\* Either way what was a snapshot remains one: an edit that begins makes it
\* older, and while a patch is applied all of them are older already.
LEMMA SnapshotKept ==
  ASSUME SessionAssumption, TypeOK, NEW p \in Project,
         SnapshotOf(p, project, lock), ProjectMoves
  PROVE  SnapshotOf(p, project', lock')
<1>1. project # None /\ project \in Project
  BY DEF SnapshotOf, TypeOK
<1>2. p.rev \in Nat /\ project.rev \in Nat /\ p.rev <= project.rev /\ Rev = project.rev
  BY <1>1 DEF SnapshotOf, Project, Rev
<1>3. CASE UNCHANGED <<project, lock>>
  BY <1>3 DEF SnapshotOf
<1>4. CASE project' \in Project /\ project'.rev = Rev + 1
  BY <1>2, <1>4 DEF SnapshotOf, SessionAssumption
<1>5. CASE lock # None /\ project' \in Project /\ project'.rev = Rev
  <2>1. p.rev # project.rev
    BY <1>5 DEF SnapshotOf
  <2> QED BY <1>2, <1>5, <2>1 DEF SnapshotOf, SessionAssumption
<1> QED BY <1>3, <1>4, <1>5 DEF ProjectMoves

\* A step of one handler that leaves the ring and the audio thread alone
LEMMA SafeStep ==
  ASSUME SessionAssumption, TypeOK, Safe, NEW c \in Conns,
         UNCHANGED <<ring, graph>>,
         \A d \in Conns : d # c => pc'[d] = pc[d] /\ work'[d] = work[d],
         ProjectMoves,
         Pushing(c)' => Buildable(work'[c].graph.doc) /\ SnapshotOf(work'[c].graph, project', lock'),
         pc'[c] = "rebuild" => SnapshotOf(work'[c].snapshot, project', lock')
  PROVE  Safe'
<1>1. graph # None => graph \in Project
  BY DEF TypeOK
<1>2. ASSUME NEW i \in 1..Len(ring), InRing(i) PROVE ring[i].graph \in Project
  <2>1. ring[i] \in Cmd
    BY ElementOfSeq DEF TypeOK
  <2> QED BY <1>2, <2>1 DEF InRing, Cmd
<1>3. ASSUME NEW d \in Conns, Pushing(d) PROVE work[d].graph \in Project
  BY <1>3 DEF Pushing, TypeOK, Carries, Cmd
<1>4. ASSUME NEW d \in Conns, pc[d] = "rebuild" PROVE work[d].snapshot \in Project
  BY <1>4 DEF TypeOK, Carries
<1>5. GraphsAreOrdered'
  BY DEF Safe, GraphsAreOrdered, InRing, Pushing
<1>6. graph' # None => SnapshotOf(graph', project', lock')
  BY <1>1, SnapshotKept DEF Safe, SnapshotsAreCommitted
<1>7. ASSUME NEW i \in 1..Len(ring'), InRing(i)' PROVE SnapshotOf(ring'[i].graph, project', lock')
  <2>1. SnapshotOf(ring[i].graph, project, lock)
    BY <1>7 DEF Safe, SnapshotsAreCommitted, InRing
  <2> QED BY <1>2, <1>7, <2>1, SnapshotKept DEF InRing
<1>8. ASSUME NEW d \in Conns, Pushing(d)' PROVE SnapshotOf(work'[d].graph, project', lock')
  <2>1. CASE d # c
    <3>1. Pushing(d) /\ work'[d].graph = work[d].graph
      BY <1>8, <2>1 DEF Pushing
    <3>2. SnapshotOf(work[d].graph, project, lock)
      BY <3>1 DEF Safe, SnapshotsAreCommitted
    <3> QED BY <1>3, <3>1, <3>2, SnapshotKept
  <2> QED BY <1>8, <2>1
<1>9. ASSUME NEW d \in Conns, pc'[d] = "rebuild" PROVE SnapshotOf(work'[d].snapshot, project', lock')
  <2>1. CASE d # c
    <3>1. SnapshotOf(work[d].snapshot, project, lock) /\ pc[d] = "rebuild"
      BY <1>9, <2>1 DEF Safe, SnapshotsAreCommitted
    <3> QED BY <1>4, <2>1, <3>1, SnapshotKept
  <2> QED BY <1>9, <2>1
<1> QED BY <1>5, <1>6, <1>7, <1>8, <1>9 DEF Safe, SnapshotsAreCommitted

\* Handlers move one at a time.
LEMMA OneMoves ==
  ASSUME TypeOK, NEW c \in Conns, Request(c) \/ Handler(c)
  PROVE  /\ \A d \in Conns : d # c => pc'[d] = pc[d] /\ work'[d] = work[d]
         /\ graph' = graph
<1> DEFINE Others == \A d \in Conns : d # c => pc'[d] = pc[d] /\ work'[d] = work[d]
<1>1. ASSUME NEW where, NEW what, Goto(c, where, what) PROVE Others
  BY <1>1 DEF Goto, TypeOK
<1>2. ASSUME NEW r, Answer(c, r) \/ AnswerEdit(c, r) PROVE Others
  BY <1>2 DEF Answer, AnswerEdit, TypeOK
<1>3. CASE Request(c)
  <2>1. ASSUME NEW d, LoadBuild(c, d) PROVE Others /\ graph' = graph
    BY <1>1, <1>2, <2>1 DEF LoadBuild, audioVars
  <2>2. ASSUME NEW ops, PatchBegin(c, ops) PROVE Others /\ graph' = graph
    BY <1>1, <1>2, <2>2 DEF PatchBegin, audioVars
  <2>3. ASSUME NEW applies, NEW d, Edit(c, applies, d) PROVE Others /\ graph' = graph
    BY <1>1, <1>2, <2>3 DEF Edit, Commit, RefuseEdit, audioVars
  <2>4. ASSUME NEW t, NEW n, \/ ChainAddNode(c, t, n)
                             \/ ChainRemoveNode(c, t, n)
                             \/ ChainSetParam(c, t, n)
        PROVE  Others /\ graph' = graph
    BY <2>3, <2>4 DEF ChainAddNode, ChainRemoveNode, ChainSetParam
  <2>5. ASSUME NEW t, NEW n, ShowEditor(c, t, n) \/ HideEditor(c, t, n)
        PROVE  Others /\ graph' = graph
    BY <1>1, <1>2, <2>5 DEF ShowEditor, HideEditor, audioVars
  <2>6. ASSUME NEW t, MidiNote(c, t) PROVE Others /\ graph' = graph
    BY <1>1, <1>2, <2>6 DEF MidiNote, audioVars
  <2>7. ASSUME NEW render, ReadProject(c, render) PROVE Others /\ graph' = graph
    BY <1>2, <2>7 DEF ReadProject, audioVars
  <2>8. ASSUME EditRefused(c) \/ Transport(c) PROVE Others /\ graph' = graph
    BY <1>1, <1>2, <2>8 DEF EditRefused, Transport, audioVars
  <2> QED BY <1>3, <2>1, <2>2, <2>4, <2>5, <2>6, <2>7, <2>8 DEF Request
<1>4. CASE Handler(c)
  <2>1. CASE LoadIndex(c) \/ LoadStore(c) \/ PatchOp(c) \/ PatchEnd(c) \/ Rebuild(c)
    BY <1>1, <1>2, <2>1
       DEF LoadIndex, LoadStore, PatchOp, PatchFails, PatchEnd, Rebuild, Commit, audioVars
  <2>2. CASE SendRt(c) \/ OpenEditor(c)
    BY <1>2, <2>2 DEF SendRt, OpenEditor, audioVars
  <2> QED BY <1>4, <2>1, <2>2 DEF Handler
<1> QED BY <1>3, <1>4

\* A step that reaches neither of the two places with a snapshot and leaves
\* the project alone
LEMMA SafeElsewhere ==
  ASSUME SessionAssumption, TypeOK, Safe, NEW c \in Conns,
         UNCHANGED <<ring, graph, project, lock>>,
         \A d \in Conns : d # c => pc'[d] = pc[d] /\ work'[d] = work[d],
         \/ pc'[c] \notin {"send", "rebuild"}
         \/ pc'[c] = "send" /\ work'[c].kind # "SetGraph"
  PROVE  Safe'
BY SafeStep DEF Pushing, ProjectMoves

\* project.load checks the routing before its first change; what it carries
\* from there on is ordered.
LoadsAreOrdered ==
  \A c \in Conns : pc[c] \in {"loadIndex", "loadStore"} => Buildable(work[c].doc)

LEMMA LoadsStep ==
  ASSUME TypeOK, LoadsAreOrdered, [Next]_vars
  PROVE  LoadsAreOrdered'
<1>1. ASSUME NEW c \in Conns, Request(c) \/ Handler(c) PROVE LoadsAreOrdered'
  <2>1. ASSUME pc'[c] \in {"loadIndex", "loadStore"} PROVE Buildable(work'[c].doc)
    <3>1. ASSUME NEW d, LoadBuild(c, d) PROVE Buildable(work'[c].doc)
      BY <2>1, <3>1 DEF LoadBuild, Goto, AnswerEdit, TypeOK
    <3>2. CASE LoadIndex(c)
      BY <3>2 DEF LoadIndex, Goto, LoadsAreOrdered, TypeOK
    <3>3. ASSUME NEW where, NEW what, Goto(c, where, what) PROVE where \in {"loadIndex", "loadStore"}
      BY <2>1, <3>3 DEF Goto, TypeOK
    <3>4. ASSUME NEW r PROVE ~(Answer(c, r) \/ AnswerEdit(c, r))
      BY <2>1 DEF Answer, AnswerEdit, TypeOK
    <3>5. ASSUME NEW applies, NEW d PROVE ~Edit(c, applies, d)
      BY <3>3, <3>4 DEF Edit, Commit, RefuseEdit
    <3>6. CASE Handler(c)
      BY <3>2, <3>3, <3>4, <3>6
         DEF Handler, LoadStore, PatchOp, PatchFails, PatchEnd, Commit, Rebuild, SendRt, OpenEditor
    <3>7. CASE Request(c)
      <4>1. ASSUME NEW ops PROVE ~PatchBegin(c, ops)
        BY <3>3, <3>4 DEF PatchBegin
      <4>2. ASSUME NEW t, NEW n
            PROVE  /\ ~ChainAddNode(c, t, n) /\ ~ChainRemoveNode(c, t, n)
                   /\ ~ChainSetParam(c, t, n)
                   /\ ~ShowEditor(c, t, n) /\ ~HideEditor(c, t, n)
        BY <3>3, <3>4, <3>5
           DEF ChainAddNode, ChainRemoveNode, ChainSetParam, ShowEditor, HideEditor
      <4>3. ASSUME NEW t PROVE ~MidiNote(c, t)
        BY <2>1 DEF MidiNote, Goto, Answer, TypeOK
      <4>4. ASSUME NEW render PROVE ~ReadProject(c, render)
        BY <3>4 DEF ReadProject
      <4>5. ~EditRefused(c) /\ ~Transport(c)
        BY <3>3, <3>4 DEF EditRefused, Transport
      <4> QED BY <3>1, <3>7, <4>1, <4>2, <4>3, <4>4, <4>5 DEF Request
    <3> QED BY <1>1, <3>6, <3>7
  <2> QED BY <1>1, <2>1, OneMoves DEF LoadsAreOrdered
<1>2. CASE Callback \/ UNCHANGED vars
  BY <1>2 DEF Callback, vars, LoadsAreOrdered
<1> QED BY <1>1, <1>2 DEF Next

LEMMA SafeLoad ==
  ASSUME SessionAssumption, TypeOK, TypeOK', Safe, LoadsAreOrdered, NEW c \in Conns,
         Request(c) \/ Handler(c),
         (\E d \in LoadDocs : LoadBuild(c, d)) \/ LoadIndex(c) \/ LoadStore(c)
  PROVE  Safe'
<1>1. CASE (\E d \in LoadDocs : LoadBuild(c, d)) \/ LoadIndex(c)
  <2>1. pc'[c] \in {"idle", "loadIndex", "loadStore"}
    BY <1>1 DEF LoadBuild, LoadIndex, Goto, AnswerEdit, TypeOK
  <2>2. UNCHANGED <<ring, graph, project, lock>>
    BY <1>1 DEF LoadBuild, LoadIndex, sessionVars, audioVars
  <2> QED BY <2>1, <2>2, OneMoves, SafeElsewhere
<1>2. CASE LoadStore(c)
  <2>1. work[c] \in [doc : Doc] /\ Buildable(work[c].doc)
    BY <1>2 DEF LoadStore, TypeOK, Carries, LoadsAreOrdered
  <2>2. project' = [rev |-> Rev + 1, doc |-> work[c].doc] /\ project' \in Project
    BY <1>2, <2>1, RevType DEF LoadStore, Project
  <2>3. /\ pc'[c] = "send" /\ work'[c] = [kind |-> "SetGraph", graph |-> project']
        /\ UNCHANGED <<ring, graph, lock>> /\ lock = None
    BY <1>2 DEF LoadStore, Goto, audioVars, TypeOK
  <2>4. SnapshotOf(project', project', lock')
    BY <2>2, <2>3, RevType DEF SnapshotOf, Project, SessionAssumption
  <2>5. ProjectMoves
    BY <2>2, <2>3 DEF ProjectMoves
  <2> QED BY <2>1, <2>2, <2>3, <2>4, <2>5, OneMoves, SafeStep
<1> QED BY <1>1, <1>2

LEMMA SafePatch ==
  ASSUME SessionAssumption, TypeOK, TypeOK', Safe, NEW c \in Conns,
         Request(c) \/ Handler(c),
         (\E ops \in Patches : PatchBegin(c, ops)) \/ PatchOp(c) \/ PatchEnd(c)
  PROVE  Safe'
<1>1. CASE \E ops \in Patches : PatchBegin(c, ops)
  <2>1. pc'[c] \in {"idle", "patch"} /\ UNCHANGED <<ring, graph>>
    BY <1>1 DEF PatchBegin, Goto, AnswerEdit, TypeOK, audioVars
  <2>2. CASE project = None
    BY <1>1, <2>1, <2>2, OneMoves, SafeElsewhere DEF PatchBegin
  <2>3. CASE project # None
    <3>1. project \in Project /\ Rev = project.rev /\ Rev \in Nat
      BY <2>3 DEF TypeOK, Project, Rev
    <3>2. project' \in Project /\ project'.rev = Rev + 1 /\ lock = None
      BY <1>1, <2>3, <3>1 DEF PatchBegin, Project
    <3> QED BY <2>1, <3>2, OneMoves, SafeStep DEF Pushing, ProjectMoves
  <2> QED BY <2>2, <2>3
<1>2. CASE PatchOp(c)
  <2>1. pc'[c] \in {"idle", "patch"} /\ UNCHANGED <<ring, graph>>
    BY <1>2 DEF PatchOp, PatchFails, Goto, AnswerEdit, TypeOK, audioVars
  <2>2. lock # None /\ project # None /\ project \in Project
    BY <1>2 DEF PatchOp, TypeOK, SessionAssumption
  <2>3. project'.rev = Rev /\ project' # None
    <3>1. CASE project' = project
      BY <2>2, <3>1 DEF Rev
    <3>2. CASE project' # project
      <4>1. project' = [project EXCEPT !.doc = OpResult(@, Head(work[c].ops))]
        BY <1>2, <3>2 DEF PatchOp, PatchFails
      <4>2. project'.rev = project.rev
        BY <2>2, <4>1 DEF Project
      <4>3. lock' = lock
        BY <1>2, <3>2 DEF PatchOp, PatchFails
      <4> QED BY <2>2, <4>2, <4>3 DEF Rev, TypeOK
    <3> QED BY <3>1, <3>2
  <2>4. project' \in Project
    BY <2>3 DEF TypeOK
  <2> QED BY <2>1, <2>2, <2>3, <2>4, OneMoves, SafeStep DEF Pushing, ProjectMoves
<1>3. CASE PatchEnd(c)
  <2>1. /\ pc'[c] = "rebuild" /\ work'[c] = [snapshot |-> project]
        /\ UNCHANGED <<ring, graph, project>>
        /\ lock # None /\ lock' = None
    BY <1>3 DEF PatchEnd, Commit, Goto, TypeOK, audioVars, SessionAssumption
  <2>2. project # None /\ project \in Project /\ project.rev = Rev
    BY <1>3 DEF PatchEnd, TypeOK, Rev, SessionAssumption
  <2>3. SnapshotOf(project, project', lock')
    BY <2>1, <2>2 DEF SnapshotOf, Project
  <2>4. ProjectMoves
    BY <2>1, <2>2 DEF ProjectMoves
  <2> QED BY <2>1, <2>3, <2>4, OneMoves, SafeStep DEF Pushing
<1> QED BY <1>1, <1>2, <1>3

LEMMA SafeEdit ==
  ASSUME SessionAssumption, TypeOK, TypeOK', Safe, NEW c \in Conns,
         Request(c) \/ Handler(c), NEW applies, NEW d,
         project # None /\ applies => d \in Doc, Edit(c, applies, d)
  PROVE  Safe'
<1>1. CASE project # None /\ applies
  <2>1. /\ project' = [rev |-> project.rev + 1, doc |-> d]
        /\ pc'[c] = "rebuild" /\ work'[c] = [snapshot |-> project']
        /\ UNCHANGED <<ring, graph, lock>> /\ lock = None
    BY <1>1 DEF Edit, Commit, Goto, audioVars, TypeOK
  <2>2. project \in Project /\ project'.rev = Rev + 1
    BY <1>1, <2>1 DEF TypeOK, Rev
  <2>3. project' \in Project
    BY <1>1, <2>1, <2>2 DEF Project
  <2>4. project' # None
    BY <2>3 DEF SessionAssumption
  <2>5. SnapshotOf(project', project', lock')
    BY <2>1, <2>3, <2>4 DEF SnapshotOf, Project
  <2> QED BY <2>1, <2>2, <2>3, <2>5, OneMoves, SafeStep DEF Pushing, ProjectMoves
<1>2. CASE ~(project # None /\ applies)
  <2>1. pc'[c] = "idle" /\ UNCHANGED <<ring, graph, project, lock>>
    BY <1>2 DEF Edit, RefuseEdit, AnswerEdit, audioVars, TypeOK
  <2> QED BY <2>1, OneMoves, SafeElsewhere
<1> QED BY <1>1, <1>2

LEMMA SafeChain ==
  ASSUME SessionAssumption, TypeOK, TypeOK', Safe, NEW c \in Conns,
         Request(c) \/ Handler(c), NEW t \in Tracks, NEW n \in NodeIds,
         \/ ChainAddNode(c, t, n)
         \/ ChainRemoveNode(c, t, n)
         \/ ChainSetParam(c, t, n)
  PROVE  Safe'
<1>1. <<t, n>> \in Keys
  BY DEF Keys
<1>2. project # None =>
        /\ project.doc \in Doc
        /\ [project.doc EXCEPT !.inserts = @ \cup {<<t, n>>}] \in Doc
        /\ [project.doc EXCEPT !.inserts = @ \ {<<t, n>>}] \in Doc
  BY <1>1 DEF TypeOK, Project, Doc
<1>3. \E applies : \E d : (project # None => d \in Doc) /\ Edit(c, applies, d)
  BY <1>2 DEF ChainAddNode, ChainRemoveNode, ChainSetParam
<1> QED BY <1>3, SafeEdit

LEMMA SafeRebuild ==
  ASSUME SessionAssumption, TypeOK, Safe, NEW c \in Conns, Handler(c), Rebuild(c)
  PROVE  Safe'
<1>1. UNCHANGED <<ring, graph, project, lock>>
  BY DEF Rebuild, sessionVars, audioVars
<1>2. CASE Buildable(work[c].snapshot.doc)
  <2>1. /\ pc'[c] = "send"
        /\ work'[c] = [kind |-> "SetGraph", graph |-> work[c].snapshot]
    BY <1>2 DEF Rebuild, Goto, TypeOK
  <2>2. SnapshotOf(work[c].snapshot, project, lock)
    BY DEF Rebuild, Safe, SnapshotsAreCommitted
  <2> QED BY <1>1, <1>2, <2>1, <2>2, OneMoves, SafeStep DEF ProjectMoves
<1>3. CASE ~Buildable(work[c].snapshot.doc)
  <2>1. pc'[c] = "idle"
    BY <1>3 DEF Rebuild, AnswerEdit, TypeOK
  <2> QED BY <1>1, <2>1, OneMoves, SafeElsewhere
<1> QED BY <1>2, <1>3

LEMMA SafeOthers ==
  ASSUME SessionAssumption, TypeOK, Safe, NEW c \in Conns, Request(c) \/ Handler(c),
         \/ EditRefused(c)
         \/ Transport(c)
         \/ \E t \in Tracks : MidiNote(c, t)
         \/ \E render \in BOOLEAN : ReadProject(c, render)
         \/ OpenEditor(c)
         \/ \E t \in Tracks, n \in NodeIds : ShowEditor(c, t, n) \/ HideEditor(c, t, n)
  PROVE  Safe'
<1>1. UNCHANGED <<ring, graph, project, lock>>
  BY DEF EditRefused, Transport, MidiNote, ReadProject, OpenEditor, ShowEditor,
         HideEditor, sessionVars, audioVars
<1>2. \/ pc'[c] \notin {"send", "rebuild"}
      \/ pc'[c] = "send" /\ work'[c].kind # "SetGraph"
  <2>1. CASE Transport(c)
    BY <2>1 DEF Transport, Goto, TypeOK
  <2>2. ASSUME NEW t \in Tracks, MidiNote(c, t) PROVE <1>2!:
    BY <2>2 DEF MidiNote, Goto, Answer, TypeOK
  <2>3. CASE \/ EditRefused(c)
             \/ \E render \in BOOLEAN : ReadProject(c, render)
             \/ OpenEditor(c)
             \/ \E t \in Tracks, n \in NodeIds : ShowEditor(c, t, n) \/ HideEditor(c, t, n)
    BY <2>3 DEF EditRefused, ReadProject, OpenEditor, ShowEditor, HideEditor,
                Goto, Answer, AnswerEdit, TypeOK
  <2> QED BY <2>1, <2>2, <2>3
<1> QED BY <1>1, <1>2, OneMoves, SafeElsewhere

LEMMA SafeSendRt ==
  ASSUME SessionAssumption, TypeOK, TypeOK', Safe, NEW c \in Conns, Handler(c), SendRt(c)
  PROVE  Safe'
<1>1. UNCHANGED <<project, lock, graph>> /\ pc'[c] = "idle"
  BY DEF SendRt, sessionVars, Answer, AnswerEdit, TypeOK
<1>2. work[c] \in Cmd /\ pc[c] = "send"
  BY DEF SendRt, TypeOK, Carries
<1>3. \A d \in Conns : d # c => pc'[d] = pc[d] /\ work'[d] = work[d]
  BY OneMoves
<1>4. ASSUME NEW i \in 1..Len(ring'), InRing(i)'
      PROVE  /\ Buildable(ring'[i].graph.doc)
             /\ SnapshotOf(ring'[i].graph, project, lock)
  <2>1. CASE ring' = ring
    BY <1>4, <2>1 DEF Safe, GraphsAreOrdered, SnapshotsAreCommitted, InRing
  <2>2. CASE ring' = Append(ring, work[c])
    <3>1. /\ Len(ring') = Len(ring) + 1 /\ Len(ring) \in Nat
          /\ \A j \in 1..Len(ring) : ring'[j] = ring[j]
          /\ ring'[Len(ring) + 1] = work[c]
      BY <1>2, <2>2, AppendProperties, LenProperties DEF TypeOK
    <3>2. CASE i \in 1..Len(ring)
      BY <1>4, <3>1, <3>2 DEF Safe, GraphsAreOrdered, SnapshotsAreCommitted, InRing
    <3>3. CASE i = Len(ring) + 1
      BY <1>2, <1>4, <3>1, <3>3
         DEF Safe, GraphsAreOrdered, SnapshotsAreCommitted, InRing, Pushing
    <3> QED BY <1>4, <3>1, <3>2, <3>3
  <2> QED BY <2>1, <2>2 DEF SendRt
<1> QED BY <1>1, <1>3, <1>4 DEF Safe, GraphsAreOrdered, SnapshotsAreCommitted, Pushing

LEMMA SafeCallback ==
  ASSUME TypeOK, Safe, Callback
  PROVE  Safe'
<1>1. UNCHANGED <<project, lock, pc, work>> /\ ring # <<>>
  BY DEF Callback, sessionVars
<1>2. /\ Len(ring') = Len(ring) - 1 /\ Len(ring) \in Nat \ {0}
      /\ \A i \in 1..Len(ring') : ring'[i] = ring[i + 1]
      /\ Head(ring) = ring[1]
  BY HeadTailProperties, EmptySeq DEF Callback, TypeOK
<1>3. ASSUME NEW i \in 1..Len(ring'), InRing(i)'
      PROVE  /\ Buildable(ring'[i].graph.doc)
             /\ SnapshotOf(ring'[i].graph, project, lock)
  BY <1>2, <1>3 DEF Safe, GraphsAreOrdered, SnapshotsAreCommitted, InRing
<1>4. graph' # None => Buildable(graph'.doc) /\ SnapshotOf(graph', project, lock)
  <2>1. CASE Head(ring).kind = "SetGraph"
    BY <1>2, <2>1 DEF Callback, Safe, GraphsAreOrdered, SnapshotsAreCommitted, InRing
  <2>2. CASE Head(ring).kind # "SetGraph"
    BY <2>2 DEF Callback, Safe, GraphsAreOrdered, SnapshotsAreCommitted
  <2> QED BY <2>1, <2>2
<1> QED BY <1>1, <1>3, <1>4 DEF Safe, GraphsAreOrdered, SnapshotsAreCommitted, Pushing

\* Under every interleaving of the handlers, every graph that is rendered,
\* queued or about to be queued has an order of its buses and was the
\* project at one moment.
THEOREM SessionSafe == Spec => []Safe
<1> USE SessionAssumption
<1> DEFINE IInv == LoadsAreOrdered /\ Safe
<1>1. Init => IInv
  BY DEF Init, LoadsAreOrdered, Safe, GraphsAreOrdered, SnapshotsAreCommitted,
         Pushing, InRing
<1>2. TypeOK /\ TypeOK' /\ IInv /\ [Next]_vars => IInv'
  <2> SUFFICES ASSUME TypeOK, TypeOK', IInv, [Next]_vars PROVE Safe'
    BY LoadsStep
  <2>1. ASSUME NEW c \in Conns, Request(c) PROVE Safe'
    BY <2>1, SafeLoad, SafePatch, SafeChain, SafeOthers
       DEF Request, SessionAssumption
  <2>2. ASSUME NEW c \in Conns, Handler(c) PROVE Safe'
    BY <2>2, SafeLoad, SafePatch, SafeRebuild, SafeSendRt, SafeOthers DEF Handler
  <2>3. CASE UNCHANGED vars
    BY <2>3 DEF vars, Safe, GraphsAreOrdered, SnapshotsAreCommitted, Pushing, InRing
  <2> QED BY <2>1, <2>2, <2>3, SafeCallback DEF Next
<1> QED BY <1>1, <1>2, SessionTypes, PTL DEF Spec

\* Every graph on its way to the audio thread has its buses in an order with
\* sources first (handlers.rs project.load and project.patch).
THEOREM GraphsOrdered == Spec => []GraphsAreOrdered
BY SessionSafe, PTL DEF Safe

\* Each is the project as some edit left it (handlers.rs commit and push).
THEOREM SnapshotsCommitted == Spec => []SnapshotsAreCommitted
BY SessionSafe, PTL DEF Safe
-----------------------------------------------------------------------------
(* Clients that take turns: the inductive invariant, by its parts          *)

\* The graph at place j of the ring, or the one that is rendered at place 0
GraphAt(j) == IF j = 0 THEN graph ELSE ring[j].graph

\* The graph at place j is the one that the command at place i will find.
IsLast(j, i) ==
  /\ j \in 0..(i - 1)
  /\ j > 0 => InRing(j)
  /\ \A k \in (j + 1)..(i - 1) : ~InRing(k)

IsTrusted(cmd) == cmd.kind = "LiveNote" /\ cmd.trusted

Fits(note, g) ==
  /\ g # None
  /\ note.idx + 1 \in 1..Len(g.doc.tracks)
  /\ g.doc.tracks[note.idx + 1] = note.track

\* A handler has begun to change the project and has not ended yet.
Working(c) == pc[c] \in {"patch", "rebuild"} \/ Pushing(c)

Rendered == IF graph = None THEN 0 ELSE graph.rev

\* What is built and pushed is the project as it still is.
ProjectIsPushed ==
  \A c \in Conns : /\ pc[c] = "rebuild" => work[c].snapshot = project
                   /\ Pushing(c) => work[c].graph = project

\* After an edit that succeeded the last graph of all is the project.
ProjectIsHeard ==
  (\A c \in Conns : ~Editing(c)) /\ lastEdit = "ok" =>
    /\ project # None
    /\ \A j \in 0..Len(ring) : IsLast(j, Len(ring) + 1) => GraphAt(j) = project

\* The index is that of the project, and in the middle of a load that of
\* the project to come.
IndexIsCurrent ==
  /\ \A c \in Conns : pc[c] = "loadStore" => trackIndex = work[c].doc.tracks
  /\ (\A c \in Conns : pc[c] # "loadStore") /\ project # None
       => trackIndex = project.doc.tracks

\* A note in the ring, or on its way there, fits the graph it will find.
NotesFit ==
  /\ \A i \in 1..Len(ring) : IsTrusted(ring[i]) =>
       \A j \in 0..(i - 1) : IsLast(j, i) => Fits(ring[i], GraphAt(j))
  /\ \A c \in Conns : pc[c] = "send" /\ IsTrusted(work[c]) =>
       \A j \in 0..Len(ring) : IsLast(j, Len(ring) + 1) => Fits(work[c], GraphAt(j))

NodesAreThere ==
  \A c \in Conns : pc[c] = "showEditor" =>
    project # None /\ work[c].key \in project.doc.inserts

\* Graphs stand in the ring in the order of their edits, all of them newer
\* than the one that is rendered and older than one that is still to come.
GraphsInOrder ==
  /\ \A i \in 1..Len(ring) : InRing(i) => Rendered < ring[i].graph.rev
  /\ \A i, j \in 1..Len(ring) :
       InRing(i) /\ InRing(j) /\ i < j => ring[i].graph.rev < ring[j].graph.rev
  /\ \A c \in Conns : Working(c) =>
       /\ Rendered < Rev
       /\ \A i \in 1..Len(ring) : InRing(i) => ring[i].graph.rev < Rev

TurnsInv ==
  /\ OneAtATime
  /\ ProjectIsPushed
  /\ ProjectIsHeard
  /\ IndexIsCurrent
  /\ NotesFit
  /\ NodesAreThere
  /\ GraphsInOrder

\* The handler that is under way is the only one.
LEMMA OthersIdle ==
  ASSUME OneAtATime', NEW c \in Conns, pc'[c] # "idle",
         \A d \in Conns : d # c => pc'[d] = pc[d] /\ work'[d] = work[d]
  PROVE  \A d \in Conns : d # c => pc'[d] = "idle" /\ pc[d] = "idle"
BY DEF OneAtATime, Busy

LEMMA CommandType ==
  ASSUME TypeOK
  PROVE  /\ Len(ring) \in Nat
         /\ \A i \in 1..Len(ring) : ring[i] \in Cmd
         /\ \A i \in 1..Len(ring) : InRing(i) => ring[i].graph \in Project
         /\ Rendered \in Nat /\ Rev \in Nat
<1>1. Len(ring) \in Nat /\ \A i \in 1..Len(ring) : ring[i] \in Cmd
  BY LenProperties, ElementOfSeq DEF TypeOK
<1>2. \A i \in 1..Len(ring) : InRing(i) => ring[i].graph \in Project
  BY <1>1 DEF InRing, Cmd
<1>3. Rendered \in Nat
  BY DEF Rendered, TypeOK, Project
<1> QED BY <1>1, <1>2, <1>3, RevType

\* A request is answered, and nothing but the end of an edit with an error
\* can be seen of it.
LEMMA TurnsAnswer ==
  ASSUME TurnsInv, OneAtATime', NEW c \in Conns,
         \A d \in Conns : d # c => pc'[d] = pc[d] /\ work'[d] = work[d],
         pc'[c] = "idle", pc[c] # "loadStore",
         UNCHANGED <<project, trackIndex, ring, graph>>,
         lastEdit' = "err" \/ (lastEdit' = lastEdit /\ ~Editing(c))
  PROVE  TurnsInv'
<1>1. \A i : InRing(i)' <=> InRing(i)
  BY DEF InRing
<1>2. \A j : GraphAt(j)' = GraphAt(j)
  BY DEF GraphAt
<1>3. \A j, i : IsLast(j, i)' <=> IsLast(j, i)
  BY <1>1 DEF IsLast
<1>4. \A d \in Conns : d # c => (Pushing(d)' <=> Pushing(d)) /\ (Editing(d)' <=> Editing(d))
                                /\ (Working(d)' <=> Working(d))
  BY DEF Pushing, Editing, Working
<1>5. ~Pushing(c)' /\ ~Editing(c)' /\ ~Working(c)'
  BY DEF Pushing, Editing, Working
<1>6. ProjectIsPushed'
  BY <1>4, <1>5 DEF TurnsInv, ProjectIsPushed
<1>7. ProjectIsHeard'
  BY <1>2, <1>3, <1>4, <1>5 DEF TurnsInv, ProjectIsHeard
<1>8. IndexIsCurrent'
  BY DEF TurnsInv, IndexIsCurrent
<1>9. NotesFit'
  <2>1. \A n, g : Fits(n, g)' <=> Fits(n, g)
    BY DEF Fits
  <2> QED BY <1>2, <1>3 DEF TurnsInv, NotesFit, Fits, IsTrusted
<1>10. NodesAreThere'
  BY DEF TurnsInv, NodesAreThere
<1>11. GraphsInOrder'
  <2>1. Rendered' = Rendered /\ Rev' = Rev
    BY DEF Rendered, Rev
  <2> QED BY <1>1, <1>4, <1>5, <2>1 DEF TurnsInv, GraphsInOrder
<1> QED BY <1>6, <1>7, <1>8, <1>9, <1>10, <1>11 DEF TurnsInv

\* A handler goes on, alone, and leaves the ring and the audio thread alone.
LEMMA TurnsGoesOn ==
  ASSUME TypeOK, TypeOK', Safe, TurnsInv, OneAtATime', NEW c \in Conns,
         \A d \in Conns : d # c => pc'[d] = pc[d] /\ work'[d] = work[d],
         pc'[c] # "idle",
         UNCHANGED <<ring, graph, lastEdit>>,
         pc'[c] = "rebuild" => work'[c].snapshot = project',
         Pushing(c)' => work'[c].graph = project',
         pc'[c] = "loadStore" => trackIndex' = work'[c].doc.tracks,
         pc'[c] # "loadStore" /\ project' # None =>
           \/ trackIndex' = project'.doc.tracks
           \/ UNCHANGED <<project, trackIndex>> /\ pc[c] # "loadStore",
         ~Editing(c)' => UNCHANGED project /\ ~Editing(c),
         pc'[c] = "send" /\ IsTrusted(work'[c]) =>
           \A j \in 0..Len(ring) : IsLast(j, Len(ring) + 1) => Fits(work'[c], GraphAt(j)),
         pc'[c] = "showEditor" => project' # None /\ work'[c].key \in project'.doc.inserts,
         Working(c)' => Rev' = Rev + 1 \/ (Working(c) /\ Rev' = Rev)
  PROVE  TurnsInv'
<1>0. \A d \in Conns : d # c => pc'[d] = "idle" /\ pc[d] = "idle"
  BY OthersIdle
<1>1. \A i : InRing(i)' <=> InRing(i)
  BY DEF InRing
<1>2. \A j : GraphAt(j)' = GraphAt(j)
  BY DEF GraphAt
<1>3. \A j, i : IsLast(j, i)' <=> IsLast(j, i)
  BY <1>1 DEF IsLast
<1>4. \A d \in Conns : d # c => /\ ~Pushing(d)' /\ ~Editing(d)' /\ ~Working(d)'
                                /\ ~Pushing(d) /\ ~Editing(d) /\ ~Working(d)
  BY <1>0 DEF Pushing, Editing, Working
<1>5. ProjectIsPushed'
  BY <1>0, <1>4 DEF ProjectIsPushed
<1>6. ProjectIsHeard'
  BY <1>2, <1>3, <1>4 DEF TurnsInv, ProjectIsHeard
<1>7. IndexIsCurrent'
  BY <1>0 DEF TurnsInv, IndexIsCurrent
<1>8. NotesFit'
  BY <1>0, <1>2, <1>3 DEF TurnsInv, NotesFit, Fits, IsTrusted
<1>9. NodesAreThere'
  BY <1>0 DEF NodesAreThere
<1>10. GraphsInOrder'
  <2>1. Rendered' = Rendered
    BY DEF Rendered
  <2>2. /\ \A i \in 1..Len(ring) : InRing(i) => ring[i].graph.rev \in Nat /\ ring[i].graph.rev <= Rev
        /\ Rendered \in Nat /\ Rendered <= Rev /\ Rev \in Nat
    BY CommandType DEF Safe, SnapshotsAreCommitted, SnapshotOf, Rev, Rendered, Project
  <2>3. Working(c)' => Rendered < Rev' /\ \A i \in 1..Len(ring) : InRing(i) => ring[i].graph.rev < Rev'
    BY <2>2 DEF TurnsInv, GraphsInOrder
  <2> QED BY <1>1, <1>4, <2>1, <2>3 DEF TurnsInv, GraphsInOrder
<1> QED BY <1>5, <1>6, <1>7, <1>8, <1>9, <1>10 DEF TurnsInv

\* A step of one connection, the others standing still
Moves(c) ==
  /\ Request(c) \/ Handler(c)
  /\ \A d \in Conns : d # c => pc'[d] = pc[d] /\ work'[d] = work[d]

LEMMA TurnsLoad ==
  ASSUME SessionAssumption, TypeOK, TypeOK', Safe, TurnsInv, OneAtATime',
         NEW c \in Conns, Moves(c),
         (\E d \in LoadDocs : LoadBuild(c, d)) \/ LoadIndex(c) \/ LoadStore(c)
  PROVE  TurnsInv'
<1> USE DEF Moves
<1>1. ASSUME NEW d \in LoadDocs, LoadBuild(c, d) PROVE TurnsInv'
  <2>1. CASE Buildable(d)
    <3>1. pc'[c] = "loadIndex" /\ UNCHANGED <<project, trackIndex, ring, graph, lastEdit>> /\ pc[c] = "idle"
      BY <1>1, <2>1 DEF LoadBuild, Goto, TypeOK, sessionVars, audioVars
    <3> QED BY <3>1, TurnsGoesOn DEF Pushing, Editing, Working
  <2>2. CASE ~Buildable(d)
    <3>1. /\ pc'[c] = "idle" /\ UNCHANGED <<project, trackIndex, ring, graph>> /\ pc[c] = "idle"
          /\ lastEdit' = "err"
      BY <1>1, <2>2 DEF LoadBuild, AnswerEdit, TypeOK, sessionVars, audioVars
    <3> QED BY <3>1, TurnsAnswer
  <2> QED BY <2>1, <2>2
<1>2. CASE LoadIndex(c)
  <2>1. /\ pc'[c] = "loadStore" /\ UNCHANGED <<project, ring, graph, lastEdit>>
        /\ work'[c] = work[c] /\ trackIndex' = work[c].doc.tracks
    BY <1>2 DEF LoadIndex, Goto, TypeOK, audioVars
  <2> QED BY <2>1, TurnsGoesOn DEF Pushing, Editing, Working
<1>3. CASE LoadStore(c)
  <2>1. /\ pc'[c] = "send" /\ UNCHANGED <<trackIndex, ring, graph, lastEdit>>
        /\ work'[c] = [kind |-> "SetGraph", graph |-> project'] /\ pc[c] = "loadStore"
        /\ project' = [rev |-> Rev + 1, doc |-> work[c].doc]
    BY <1>3 DEF LoadStore, Goto, TypeOK, audioVars
  <2>2. trackIndex' = project'.doc.tracks
    BY <2>1 DEF TurnsInv, IndexIsCurrent
  <2>3. project' \in Project
    <3>1. work[c] \in [doc : Doc]
      BY <2>1 DEF TypeOK, Carries
    <3> QED BY <2>1, <3>1, RevType DEF Project
  <2>4. project' # None /\ Rev' = Rev + 1
    BY <2>1, <2>3 DEF SessionAssumption, Rev
  <2> QED BY <2>1, <2>2, <2>4, TurnsGoesOn DEF Pushing, Editing, Working, IsTrusted
<1> QED BY <1>1, <1>2, <1>3

LEMMA TurnsPatch ==
  ASSUME SessionAssumption, TypeOK, TypeOK', Safe, TurnsInv, OneAtATime',
         NEW c \in Conns, Moves(c),
         (\E ops \in Patches : PatchBegin(c, ops)) \/ PatchOp(c) \/ PatchEnd(c)
  PROVE  TurnsInv'
<1> USE DEF Moves
<1>1. ASSUME NEW ops \in Patches, PatchBegin(c, ops) PROVE TurnsInv'
  <2>1. CASE project = None
    <3>1. /\ pc'[c] = "idle" /\ UNCHANGED <<project, trackIndex, ring, graph>> /\ pc[c] = "idle"
          /\ lastEdit' = "err"
      BY <1>1, <2>1 DEF PatchBegin, AnswerEdit, TypeOK, audioVars
    <3> QED BY <3>1, TurnsAnswer
  <2>2. CASE project # None
    <3>1. /\ pc'[c] = "patch" /\ UNCHANGED <<trackIndex, ring, graph, lastEdit>> /\ pc[c] = "idle"
          /\ project' = [project EXCEPT !.rev = @ + 1]
      BY <1>1, <2>2 DEF PatchBegin, Goto, TypeOK, audioVars
    <3>2. project \in Project
      BY <2>2 DEF TypeOK
    <3>3. project' # None /\ Rev' = Rev + 1 /\ project'.doc = project.doc
      <4>1. project' \in Project /\ project'.rev = project.rev + 1 /\ project'.doc = project.doc
        BY <3>1, <3>2 DEF Project
      <4> QED BY <2>2, <4>1 DEF Rev, SessionAssumption
    <3>4. trackIndex' = project'.doc.tracks
      BY <2>2, <3>1, <3>3, OthersIdle DEF TurnsInv, IndexIsCurrent
    <3> QED BY <3>1, <3>3, <3>4, TurnsGoesOn DEF Pushing, Editing, Working
  <2> QED BY <2>1, <2>2
<1>2. CASE PatchOp(c)
  <2>1. pc[c] = "patch" /\ project # None /\ project \in Project /\ work[c].ops # <<>>
        /\ work[c].ops \in Seq(Op)
    BY <1>2 DEF PatchOp, TypeOK, Carries, SessionAssumption
  <2>2. CASE OpApplies(project.doc, Head(work[c].ops))
    <3> DEFINE o == Head(work[c].ops)
    <3>1. /\ pc'[c] = "patch" /\ UNCHANGED <<trackIndex, ring, graph, lastEdit>>
          /\ project' = [project EXCEPT !.doc = OpResult(@, o)]
      BY <1>2, <2>2 DEF PatchOp, Goto, TypeOK, audioVars
    <3>2. o \in Op
      BY <2>1, HeadTailProperties
    <3>3. project.doc \in Doc
      BY <2>1 DEF Project
    <3>4. OpResult(project.doc, o) \in Doc /\ OpResult(project.doc, o).tracks = project.doc.tracks
      BY <2>2, <3>2, <3>3, OpResultType
    <3> HIDE DEF o
    <3>5. project' \in Project /\ project'.rev = project.rev /\ project'.doc = OpResult(project.doc, o)
      BY <2>1, <3>1, <3>4 DEF Project
    <3>6. project' # None /\ Rev' = Rev
      BY <2>1, <3>5 DEF Rev, SessionAssumption
    <3>7. trackIndex = project.doc.tracks
      BY <2>1, <3>1, OthersIdle DEF TurnsInv, IndexIsCurrent
    <3>8. trackIndex' = project'.doc.tracks
      BY <3>1, <3>4, <3>5, <3>7
    <3> QED BY <2>1, <3>1, <3>6, <3>8, TurnsGoesOn DEF Pushing, Editing, Working
  <2>3. CASE ~OpApplies(project.doc, Head(work[c].ops))
    <3>1. pc'[c] = "idle" /\ UNCHANGED <<project, trackIndex, ring, graph>> /\ lastEdit' = "err"
      BY <1>2, <2>3 DEF PatchOp, PatchFails, AnswerEdit, TypeOK, audioVars
    <3> QED BY <2>1, <3>1, TurnsAnswer
  <2> QED BY <2>2, <2>3
<1>3. CASE PatchEnd(c)
  <2>1. /\ pc'[c] = "rebuild" /\ work'[c] = [snapshot |-> project] /\ pc[c] = "patch"
        /\ UNCHANGED <<project, ring, graph, lastEdit>> /\ trackIndex' = project.doc.tracks
    BY <1>3 DEF PatchEnd, Commit, Goto, TypeOK, audioVars
  <2>2. Rev' = Rev
    BY <2>1 DEF Rev
  <2> QED BY <2>1, <2>2, TurnsGoesOn DEF Pushing, Editing, Working
<1> QED BY <1>1, <1>2, <1>3

LEMMA TurnsEdit ==
  ASSUME SessionAssumption, TypeOK, TypeOK', Safe, TurnsInv, OneAtATime',
         NEW c \in Conns, Moves(c), pc[c] = "idle",
         NEW applies, NEW d, project # None /\ applies => d \in Doc, Edit(c, applies, d)
  PROVE  TurnsInv'
<1> USE DEF Moves
<1>1. CASE project # None /\ applies
  <2>1. /\ project' = [rev |-> project.rev + 1, doc |-> d]
        /\ pc'[c] = "rebuild" /\ work'[c] = [snapshot |-> project']
        /\ UNCHANGED <<ring, graph, lastEdit>> /\ trackIndex' = project'.doc.tracks
    BY <1>1 DEF Edit, Commit, Goto, audioVars, TypeOK
  <2>2. project \in Project
    BY <1>1 DEF TypeOK
  <2>3. project' \in Project /\ project'.rev = project.rev + 1
    BY <1>1, <2>1, <2>2 DEF Project
  <2>4. project' # None /\ Rev' = Rev + 1
    BY <1>1, <2>3 DEF Rev, SessionAssumption
  <2> QED BY <2>1, <2>4, TurnsGoesOn DEF Pushing, Editing, Working
<1>2. CASE ~(project # None /\ applies)
  <2>1. /\ pc'[c] = "idle" /\ UNCHANGED <<ring, graph, project, trackIndex>>
        /\ lastEdit' = "err"
    BY <1>2 DEF Edit, RefuseEdit, AnswerEdit, audioVars, TypeOK
  <2> QED BY <2>1, TurnsAnswer
<1> QED BY <1>1, <1>2

LEMMA TurnsChain ==
  ASSUME SessionAssumption, TypeOK, TypeOK', Safe, TurnsInv, OneAtATime',
         NEW c \in Conns, Moves(c), NEW t \in Tracks, NEW n \in NodeIds,
         \/ ChainAddNode(c, t, n)
         \/ ChainRemoveNode(c, t, n)
         \/ ChainSetParam(c, t, n)
  PROVE  TurnsInv'
<1>1. <<t, n>> \in Keys
  BY DEF Keys
<1>2. project # None =>
        /\ project.doc \in Doc
        /\ [project.doc EXCEPT !.inserts = @ \cup {<<t, n>>}] \in Doc
        /\ [project.doc EXCEPT !.inserts = @ \ {<<t, n>>}] \in Doc
  BY <1>1 DEF TypeOK, Project, Doc
<1>3. pc[c] = "idle" /\ \E applies : \E d : (project # None => d \in Doc) /\ Edit(c, applies, d)
  BY <1>2 DEF ChainAddNode, ChainRemoveNode, ChainSetParam
<1> QED BY <1>3, TurnsEdit

LEMMA TurnsRebuild ==
  ASSUME TypeOK, TypeOK', Safe, TurnsInv, OneAtATime', NEW c \in Conns, Moves(c), Rebuild(c)
  PROVE  TurnsInv'
<1> USE DEF Moves
<1>1. pc[c] = "rebuild" /\ UNCHANGED <<ring, graph, project, trackIndex>>
  BY DEF Rebuild, sessionVars, audioVars
<1>2. CASE Buildable(work[c].snapshot.doc)
  <2>1. /\ pc'[c] = "send" /\ UNCHANGED lastEdit
        /\ work'[c] = [kind |-> "SetGraph", graph |-> work[c].snapshot]
    BY <1>2 DEF Rebuild, Goto, TypeOK
  <2>2. work[c].snapshot = project /\ Rev' = Rev
    BY <1>1 DEF TurnsInv, ProjectIsPushed, Rev
  <2> QED BY <1>1, <2>1, <2>2, TurnsGoesOn DEF Pushing, Editing, Working, IsTrusted
<1>3. CASE ~Buildable(work[c].snapshot.doc)
  <2>1. pc'[c] = "idle" /\ lastEdit' = "err"
    BY <1>3 DEF Rebuild, AnswerEdit, TypeOK
  <2> QED BY <1>1, <2>1, TurnsAnswer
<1> QED BY <1>2, <1>3

\* A note is sent for a place of the index, and if the last edit succeeded
\* that is its place in the last graph of all.
LEMMA TurnsNote ==
  ASSUME SessionAssumption, TypeOK, TypeOK', Safe, TurnsInv, OneAtATime',
         NEW c \in Conns, Moves(c), NEW t \in Tracks, MidiNote(c, t)
  PROVE  TurnsInv'
<1> USE DEF Moves
<1>1. pc[c] = "idle" /\ UNCHANGED <<project, trackIndex, ring, graph, lastEdit>>
  BY DEF MidiNote, sessionVars, audioVars, Goto, Answer
<1>2. CASE pc'[c] = "idle"
  BY <1>1, <1>2, TurnsAnswer DEF Editing, Pushing
<1>3. CASE pc'[c] # "idle"
  <2>1. PICK i \in 0..Len(trackIndex) :
          /\ IsPosition(trackIndex, t, i)
          /\ Goto(c, "send", [kind |-> "LiveNote", idx |-> i, track |-> t,
                              trusted |-> lastEdit = "ok"])
    BY <1>3 DEF MidiNote, Answer, TypeOK
  <2>2. /\ pc'[c] = "send"
        /\ work'[c] = [kind |-> "LiveNote", idx |-> i, track |-> t, trusted |-> lastEdit = "ok"]
    BY <2>1 DEF Goto, TypeOK
  <2>3. ~Pushing(c)' /\ ~Working(c)' /\ ~Editing(c)' /\ ~Editing(c)
    BY <1>1, <2>2 DEF Pushing, Working, Editing
  <2>4. ASSUME IsTrusted(work'[c]), NEW j \in 0..Len(ring), IsLast(j, Len(ring) + 1)
        PROVE  Fits(work'[c], GraphAt(j))
    <3>1. \A d \in Conns : pc[d] = "idle" /\ ~Editing(d)
      BY <1>1, <1>3, OthersIdle DEF Editing, Pushing
    <3>2. lastEdit = "ok"
      <4>1. work'[c].trusted = (lastEdit = "ok")
        BY <2>2
      <4> QED BY <2>4, <4>1 DEF IsTrusted
    <3>3. project # None /\ GraphAt(j) = project
      BY <2>4, <3>1, <3>2 DEF TurnsInv, ProjectIsHeard
    <3>4. trackIndex = project.doc.tracks
      BY <3>1, <3>3 DEF TurnsInv, IndexIsCurrent
    <3> QED BY <2>1, <2>2, <3>3, <3>4 DEF Fits, IsPosition
  <2> QED BY <1>1, <2>2, <2>3, <2>4, TurnsGoesOn
<1> QED BY <1>2, <1>3

LEMMA TurnsOthers ==
  ASSUME SessionAssumption, TypeOK, TypeOK', Safe, TurnsInv, OneAtATime',
         NEW c \in Conns, Moves(c),
         \/ EditRefused(c)
         \/ Transport(c)
         \/ \E render \in BOOLEAN : ReadProject(c, render)
         \/ OpenEditor(c)
         \/ \E t \in Tracks, n \in NodeIds : ShowEditor(c, t, n) \/ HideEditor(c, t, n)
  PROVE  TurnsInv'
<1> USE DEF Moves
<1>1. /\ UNCHANGED <<ring, graph, project, trackIndex>>
      /\ pc[c] = "idle" \/ pc[c] = "showEditor"
  BY DEF EditRefused, Transport, ReadProject, OpenEditor, ShowEditor, HideEditor,
         sessionVars, audioVars
<1>2. ~Editing(c) /\ ~Working(c)
  BY <1>1 DEF Editing, Working, Pushing
<1>3. CASE \/ EditRefused(c)
           \/ \E render \in BOOLEAN : ReadProject(c, render)
           \/ OpenEditor(c)
           \/ \E t \in Tracks, n \in NodeIds : HideEditor(c, t, n)
  <2>1. pc'[c] = "idle" /\ lastEdit' \in {lastEdit, "err"}
    BY <1>3 DEF EditRefused, ReadProject, OpenEditor, HideEditor, Answer, AnswerEdit, TypeOK
  <2> QED BY <1>1, <1>2, <2>1, TurnsAnswer
<1>4. CASE Transport(c)
  <2>1. pc'[c] = "send" /\ work'[c] = [kind |-> "Transport"] /\ UNCHANGED lastEdit
    BY <1>4 DEF Transport, Goto, TypeOK
  <2>2. ~Editing(c)' /\ ~Working(c)' /\ ~Pushing(c)' /\ ~IsTrusted(work'[c])
    BY <2>1 DEF Editing, Working, Pushing, IsTrusted
  <2> QED BY <1>1, <1>2, <2>1, <2>2, TurnsGoesOn
<1>5. ASSUME NEW t \in Tracks, NEW n \in NodeIds, ShowEditor(c, t, n) PROVE TurnsInv'
  <2>1. CASE pc'[c] = "idle"
    <3>1. UNCHANGED lastEdit
      BY <1>5 DEF ShowEditor, Answer, Goto
    <3> QED BY <1>1, <1>2, <2>1, <3>1, TurnsAnswer
  <2>2. CASE pc'[c] # "idle"
    <3>1. /\ pc'[c] = "showEditor" /\ work'[c] = [key |-> <<t, n>>] /\ UNCHANGED lastEdit
          /\ project # None /\ <<t, n>> \in project.doc.inserts
      BY <1>5, <2>2 DEF ShowEditor, Answer, Goto, TypeOK
    <3>2. ~Editing(c)' /\ ~Working(c)' /\ ~Pushing(c)'
      BY <3>1 DEF Editing, Working, Pushing
    <3> QED BY <1>1, <1>2, <3>1, <3>2, TurnsGoesOn
  <2> QED BY <2>1, <2>2
<1> QED BY <1>3, <1>4, <1>5

\* A command that is appended becomes the last graph of all, if it is one.
Appended(x) ==
  /\ Len(ring) \in Nat /\ Len(ring') = Len(ring) + 1 /\ ring'[Len(ring) + 1] = x
  /\ \A i \in 1..Len(ring) : ring'[i] = ring[i] /\ (InRing(i)' <=> InRing(i))
  /\ \A i \in Nat : i = Len(ring) + 1 => (InRing(i)' <=> x.kind = "SetGraph")
  /\ \A i \in 1..(Len(ring) + 1) : \A j \in 0..(i - 1) :
       (IsLast(j, i)' <=> IsLast(j, i)) /\ GraphAt(j)' = GraphAt(j)
  /\ \A j \in 0..Len(ring') : IsLast(j, Len(ring) + 1)' =>
       IF x.kind = "SetGraph" THEN GraphAt(j)' = x.graph
       ELSE j \in 0..Len(ring) /\ IsLast(j, Len(ring) + 1) /\ GraphAt(j)' = GraphAt(j)

LEMMA LastAfterAppend ==
  ASSUME TypeOK, NEW x \in Cmd, ring' = Append(ring, x), UNCHANGED graph
  PROVE  Appended(x)
<1>1. /\ Len(ring') = Len(ring) + 1 /\ Len(ring) \in Nat /\ ring'[Len(ring) + 1] = x
      /\ \A i \in 1..Len(ring) : ring'[i] = ring[i]
  BY AppendProperties, LenProperties DEF TypeOK
<1>2. /\ \A i \in 1..Len(ring) : InRing(i)' <=> InRing(i)
      /\ \A i \in Nat : i = Len(ring) + 1 => (InRing(i)' <=> x.kind = "SetGraph")
  BY <1>1 DEF InRing
<1>3. \A j \in 0..Len(ring) : GraphAt(j)' = GraphAt(j)
  BY <1>1 DEF GraphAt
<1>4. ASSUME NEW i \in 1..(Len(ring) + 1), NEW j \in 0..(i - 1)
      PROVE  (IsLast(j, i)' <=> IsLast(j, i)) /\ GraphAt(j)' = GraphAt(j)
  BY <1>1, <1>2, <1>3 DEF IsLast
<1>5. ASSUME NEW j \in 0..Len(ring'), IsLast(j, Len(ring) + 1)'
      PROVE  IF x.kind = "SetGraph" THEN GraphAt(j)' = x.graph
             ELSE j \in 0..Len(ring) /\ IsLast(j, Len(ring) + 1) /\ GraphAt(j)' = GraphAt(j)
  <2>1. CASE x.kind = "SetGraph"
    <3>1. j = Len(ring) + 1
      BY <1>1, <1>2, <1>5, <2>1 DEF IsLast
    <3> QED BY <1>1, <2>1, <3>1 DEF GraphAt
  <2>2. CASE x.kind # "SetGraph"
    <3>1. j \in 0..Len(ring)
      BY <1>1, <1>2, <1>5, <2>2 DEF IsLast
    <3> QED BY <1>1, <1>2, <1>3, <1>5, <2>2, <3>1 DEF IsLast
  <2> QED BY <2>1, <2>2
<1> QED BY <1>1, <1>2, <1>4, <1>5 DEF Appended

LEMMA TurnsSendRt ==
  ASSUME SessionAssumption, TypeOK, TypeOK', Safe, TurnsInv, OneAtATime',
         NEW c \in Conns, Moves(c), SendRt(c)
  PROVE  TurnsInv'
<1> USE DEF Moves
<1>1. /\ pc[c] = "send" /\ pc'[c] = "idle" /\ work[c] \in Cmd
      /\ UNCHANGED <<project, trackIndex, graph>>
  BY DEF SendRt, Answer, AnswerEdit, TypeOK, Carries, sessionVars
<1>2. CASE ~HasRoom
  <2>1. UNCHANGED ring /\ (lastEdit' = "err" \/ (lastEdit' = lastEdit /\ ~Editing(c)))
    BY <1>1, <1>2 DEF SendRt, Answer, AnswerEdit, Editing, Pushing
  <2> QED BY <1>1, <2>1, TurnsAnswer
<1>3. CASE HasRoom
  <2> DEFINE x == work[c]
  <2>1. /\ ring' = Append(ring, x)
        /\ lastEdit' = IF x.kind = "SetGraph" THEN "ok" ELSE lastEdit
    BY <1>3 DEF SendRt, Answer, AnswerEdit
  <2>2. \A d \in Conns : d # c => pc[d] = "idle" /\ pc'[d] = "idle"
    BY <1>1 DEF TurnsInv, OneAtATime, Busy
  <2>3. \A d \in Conns : pc'[d] = "idle" /\ ~Pushing(d)' /\ ~Editing(d)' /\ ~Working(d)'
    BY <1>1, <2>2 DEF Pushing, Editing, Working
  <2>4. Appended(x)
    BY <1>1, <2>1, LastAfterAppend
  <2> HIDE DEF x
  <2>5. ProjectIsPushed' /\ NodesAreThere'
    BY <2>3 DEF ProjectIsPushed, NodesAreThere
  <2>6. IndexIsCurrent'
    BY <1>1, <2>2, <2>3 DEF TurnsInv, IndexIsCurrent
  <2>7. ProjectIsHeard'
    <3>1. CASE x.kind = "SetGraph"
      <4>1. x.graph = project /\ project # None
        BY <1>1, <3>1 DEF x, TurnsInv, ProjectIsPushed, Pushing, Cmd, SessionAssumption
      <4> QED BY <1>1, <2>4, <3>1, <4>1 DEF Appended, ProjectIsHeard
    <3>2. CASE x.kind # "SetGraph"
      <4>1. \A d \in Conns : ~Editing(d)
        BY <1>1, <2>2, <3>2 DEF x, Editing, Pushing
      <4> QED BY <1>1, <2>1, <2>4, <3>2, <4>1 DEF Appended, TurnsInv, ProjectIsHeard
    <3> QED BY <3>1, <3>2
  <2>8. NotesFit'
    <3>1. ASSUME NEW i \in 1..Len(ring'), IsTrusted(ring'[i]), NEW j \in 0..(i - 1), IsLast(j, i)'
          PROVE  Fits(ring'[i], GraphAt(j)')
      <4>1. CASE i \in 1..Len(ring)
        BY <2>4, <3>1, <4>1 DEF Appended, TurnsInv, NotesFit
      <4>2. CASE i = Len(ring) + 1
        BY <1>1, <2>4, <3>1, <4>2 DEF x, Appended, TurnsInv, NotesFit
      <4> QED BY <2>4, <4>1, <4>2, CommandType DEF Appended
    <3> QED BY <2>3, <3>1 DEF NotesFit, Fits, IsTrusted
  <2>9. GraphsInOrder'
    <3>1. Rendered' = Rendered /\ Rev' = Rev
      BY <1>1 DEF Rendered, Rev
    <3>2. /\ Len(ring) \in Nat /\ Len(ring') = Len(ring) + 1
          /\ \A i \in 1..Len(ring) : ring'[i] = ring[i] /\ (InRing(i)' <=> InRing(i))
          /\ ring'[Len(ring) + 1] = x
          /\ \A i \in Nat : i = Len(ring) + 1 => (InRing(i)' <=> x.kind = "SetGraph")
      BY <2>4 DEF Appended
    <3>3. \A i \in 1..Len(ring') : i \in Nat /\ (i \in 1..Len(ring) \/ i = Len(ring) + 1)
      BY <3>2
    <3>4. /\ \A i \in 1..Len(ring) : InRing(i) => Rendered < ring[i].graph.rev
          /\ \A i, j \in 1..Len(ring) :
               InRing(i) /\ InRing(j) /\ i < j => ring[i].graph.rev < ring[j].graph.rev
      BY DEF TurnsInv, GraphsInOrder
    <3>5. CASE x.kind = "SetGraph"
      <4>1. Working(c) /\ x.graph.rev = Rev
        BY <1>1, <3>5 DEF x, TurnsInv, ProjectIsPushed, Pushing, Working, Cmd, SessionAssumption, Rev
      <4>2. Rendered < x.graph.rev /\ \A i \in 1..Len(ring) : InRing(i) => ring[i].graph.rev < x.graph.rev
        BY <4>1 DEF TurnsInv, GraphsInOrder
      <4>3. \A i \in 1..Len(ring') : InRing(i)' => Rendered < ring'[i].graph.rev
        BY <3>2, <3>3, <3>4, <4>2
      <4>4. \A i, j \in 1..Len(ring') :
              InRing(i)' /\ InRing(j)' /\ i < j => ring'[i].graph.rev < ring'[j].graph.rev
        BY <3>2, <3>3, <3>4, <4>2
      <4> QED BY <2>3, <3>1, <4>3, <4>4 DEF GraphsInOrder
    <3>6. CASE x.kind # "SetGraph"
      <4>1. \A i \in 1..Len(ring') : InRing(i)' =>
              i \in 1..Len(ring) /\ InRing(i) /\ ring'[i] = ring[i]
        BY <3>6, <3>2, <3>3
      <4>2. \A i \in 1..Len(ring') : InRing(i)' => Rendered < ring'[i].graph.rev
        BY <3>4, <4>1
      <4>3. \A i, j \in 1..Len(ring') :
              InRing(i)' /\ InRing(j)' /\ i < j => ring'[i].graph.rev < ring'[j].graph.rev
        BY <3>4, <4>1
      <4> QED BY <2>3, <3>1, <4>2, <4>3 DEF GraphsInOrder
    <3> QED BY <3>5, <3>6
  <2> QED BY <2>5, <2>6, <2>7, <2>8, <2>9 DEF TurnsInv
<1> QED BY <1>2, <1>3

\* What was at place i of the ring is at place i - 1 when the first has gone.
Popped ==
  /\ Len(ring) \in Nat \ {0} /\ Len(ring') = Len(ring) - 1
  /\ \A i \in 1..Len(ring') : ring'[i] = ring[i + 1] /\ (InRing(i)' <=> InRing(i + 1))
  /\ GraphAt(0)' = IF InRing(1) THEN GraphAt(1) ELSE GraphAt(0)
  /\ \A i \in 1..(Len(ring') + 1) : \A j \in 0..(i - 1) : IsLast(j, i)' =>
       \E k \in 0..i : IsLast(k, i + 1) /\ GraphAt(j)' = GraphAt(k)

LEMMA LastAfterCallback == ASSUME TypeOK, Callback PROVE Popped
<1>1. /\ Len(ring) \in Nat \ {0} /\ Len(ring') = Len(ring) - 1
      /\ \A i \in 1..Len(ring') : ring'[i] = ring[i + 1]
      /\ Head(ring) = ring[1]
  BY HeadTailProperties, EmptySeq DEF Callback, TypeOK
<1>2. \A i \in 1..Len(ring') : InRing(i)' <=> InRing(i + 1)
  BY <1>1 DEF InRing
<1>3. GraphAt(0)' = IF InRing(1) THEN GraphAt(1) ELSE GraphAt(0)
  BY <1>1 DEF GraphAt, InRing, Callback
<1>4. ASSUME NEW i \in 1..(Len(ring') + 1), NEW j \in 0..(i - 1), IsLast(j, i)'
      PROVE  \E k \in 0..i : IsLast(k, i + 1) /\ GraphAt(j)' = GraphAt(k)
  <2>0. \A k \in 2..i : InRing(k) <=> InRing(k - 1)'
    BY <1>1, <1>2
  <2>1. CASE j > 0
    <3>1. j + 1 \in 0..i /\ IsLast(j + 1, i + 1)
      BY <1>1, <1>2, <1>4, <2>0, <2>1 DEF IsLast
    <3>2. GraphAt(j)' = GraphAt(j + 1)
      BY <1>1, <1>4, <2>1 DEF GraphAt
    <3> QED BY <3>1, <3>2
  <2>2. CASE j = 0 /\ InRing(1)
    <3>1. IsLast(1, i + 1)
      BY <1>1, <1>4, <2>0, <2>2 DEF IsLast
    <3> QED BY <1>3, <2>2, <3>1
  <2>3. CASE j = 0 /\ ~InRing(1)
    <3>1. IsLast(0, i + 1)
      BY <1>1, <1>4, <2>0, <2>3 DEF IsLast
    <3> QED BY <1>3, <2>3, <3>1
  <2> QED BY <2>1, <2>2, <2>3
<1> QED BY <1>1, <1>2, <1>3, <1>4 DEF Popped

LEMMA TurnsCallback ==
  ASSUME SessionAssumption, TypeOK, TypeOK', TurnsInv, OneAtATime', Callback
  PROVE  TurnsInv'
<1>1. UNCHANGED <<project, trackIndex, lastEdit, pc, work>>
  BY DEF Callback, sessionVars
<1>2. Popped
  BY LastAfterCallback
<1>3. \A d \in Conns : /\ Pushing(d)' <=> Pushing(d)
                       /\ Editing(d)' <=> Editing(d)
                       /\ Working(d)' <=> Working(d)
  BY <1>1 DEF Pushing, Editing, Working
<1>4. ProjectIsPushed' /\ NodesAreThere' /\ IndexIsCurrent'
  BY <1>1, <1>3 DEF TurnsInv, ProjectIsPushed, NodesAreThere, IndexIsCurrent
<1>5. \A j \in 0..Len(ring') : IsLast(j, Len(ring) + 1)' =>
        \E k \in 0..Len(ring) : IsLast(k, Len(ring) + 1) /\ GraphAt(j)' = GraphAt(k)
  BY <1>2 DEF Popped
<1>6. ProjectIsHeard'
  BY <1>1, <1>3, <1>5 DEF TurnsInv, ProjectIsHeard
<1>7. NotesFit'
  <2>1. ASSUME NEW i \in 1..Len(ring'), IsTrusted(ring'[i]), NEW j \in 0..(i - 1), IsLast(j, i)'
        PROVE  Fits(ring'[i], GraphAt(j)')
    <3>1. PICK k \in 0..i : IsLast(k, i + 1) /\ GraphAt(j)' = GraphAt(k)
      BY <1>2, <2>1 DEF Popped
    <3>2. i + 1 \in 1..Len(ring) /\ ring'[i] = ring[i + 1]
      BY <1>2 DEF Popped
    <3> QED BY <2>1, <3>1, <3>2 DEF TurnsInv, NotesFit
  <2>2. ASSUME NEW d \in Conns, pc'[d] = "send", IsTrusted(work'[d]), NEW j \in 0..Len(ring'),
               IsLast(j, Len(ring) + 1)'
        PROVE  Fits(work'[d], GraphAt(j)')
    BY <1>1, <1>5, <2>2 DEF TurnsInv, NotesFit
  <2> QED BY <2>1, <2>2 DEF NotesFit, Fits, IsTrusted
<1>8. GraphsInOrder'
  <2>1. Rev' = Rev
    BY <1>1 DEF Rev
  <2>2. Rendered' = IF InRing(1) THEN ring[1].graph.rev ELSE Rendered
    <3>1. GraphAt(0) = graph /\ GraphAt(0)' = graph' /\ GraphAt(1) = ring[1].graph
      BY DEF GraphAt
    <3>2. InRing(1) => ring[1].graph # None
      BY <1>2, CommandType DEF Popped, SessionAssumption
    <3> QED BY <1>2, <3>1, <3>2 DEF Popped, Rendered
  <2>3. \A i \in 1..Len(ring') : InRing(i)' => Rendered' < ring'[i].graph.rev
    BY <1>2, <2>2, CommandType DEF Popped, TurnsInv, GraphsInOrder
  <2>4. \A i, j \in 1..Len(ring') :
          InRing(i)' /\ InRing(j)' /\ i < j => ring'[i].graph.rev < ring'[j].graph.rev
    BY <1>2, CommandType DEF Popped, TurnsInv, GraphsInOrder
  <2>5. \A d \in Conns : Working(d)' =>
          /\ Rendered' < Rev'
          /\ \A i \in 1..Len(ring') : InRing(i)' => ring'[i].graph.rev < Rev'
    <3> SUFFICES ASSUME NEW d \in Conns, Working(d)
                 PROVE  /\ Rendered' < Rev
                        /\ \A i \in 1..Len(ring') : InRing(i)' => ring'[i].graph.rev < Rev
      BY <1>3, <2>1
    <3>1. Rendered < Rev /\ \A i \in 1..Len(ring) : InRing(i) => ring[i].graph.rev < Rev
      BY DEF TurnsInv, GraphsInOrder
    <3>2. Rendered' < Rev
      BY <2>2, <3>1 DEF InRing
    <3> QED BY <1>2, <3>1, <3>2 DEF Popped
  <2> QED BY <2>3, <2>4, <2>5 DEF GraphsInOrder
<1> QED BY <1>4, <1>6, <1>7, <1>8 DEF TurnsInv

LEMMA TurnsStep ==
  ASSUME SessionAssumption, TypeOK, TypeOK', Safe, TurnsInv, [Next /\ TakeTurns]_vars
  PROVE  TurnsInv'
<1>0. CASE UNCHANGED vars
  <2>1. \A i : InRing(i)' <=> InRing(i)
    BY <1>0 DEF vars, InRing
  <2>2. \A c \in Conns : /\ Pushing(c)' <=> Pushing(c)
                         /\ Editing(c)' <=> Editing(c)
                         /\ Working(c)' <=> Working(c)
    BY <1>0 DEF vars, Pushing, Editing, Working
  <2>3. /\ \A j : GraphAt(j)' = GraphAt(j)
        /\ \A j, i : IsLast(j, i)' <=> IsLast(j, i)
        /\ Rendered' = Rendered /\ Rev' = Rev
    BY <1>0, <2>1 DEF vars, GraphAt, IsLast, Rendered, Rev
  <2>4. OneAtATime' /\ ProjectIsPushed' /\ IndexIsCurrent' /\ NodesAreThere'
    BY <1>0, <2>2 DEF vars, TurnsInv, OneAtATime, Busy, ProjectIsPushed, IndexIsCurrent, NodesAreThere
  <2>5. ProjectIsHeard' /\ GraphsInOrder'
    BY <1>0, <2>1, <2>2, <2>3 DEF vars, TurnsInv, ProjectIsHeard, GraphsInOrder
  <2>6. NotesFit'
    BY <1>0, <2>3 DEF vars, TurnsInv, NotesFit, Fits, IsTrusted
  <2> QED BY <2>4, <2>5, <2>6 DEF TurnsInv
<1>1. CASE Next /\ TakeTurns
  <2>0. OneAtATime'
    BY <1>1 DEF TakeTurns
  <2>1. ASSUME NEW c \in Conns, Request(c) PROVE TurnsInv'
    <3>1. Moves(c)
      BY <2>1, OneMoves DEF Moves
    <3> QED BY <2>0, <2>1, <3>1, TurnsLoad, TurnsPatch, TurnsChain, TurnsNote, TurnsOthers
            DEF Request, SessionAssumption
  <2>2. ASSUME NEW c \in Conns, Handler(c) PROVE TurnsInv'
    <3>1. Moves(c)
      BY <2>2, OneMoves DEF Moves
    <3> QED BY <2>0, <2>2, <3>1, TurnsLoad, TurnsPatch, TurnsRebuild, TurnsSendRt, TurnsOthers
            DEF Handler
  <2> QED BY <1>1, <2>0, <2>1, <2>2, TurnsCallback DEF Next
<1> QED BY <1>0, <1>1

\* What the session keeps true for every interleaving it keeps for clients
\* that take turns as well.
LEMMA TurnsHold == TurnsSpec => [](TypeOK /\ Safe /\ TurnsInv)
<1> USE SessionAssumption
<1>1. Init => TurnsInv
  BY DEF Init, TurnsInv, OneAtATime, Busy, ProjectIsPushed, ProjectIsHeard, IndexIsCurrent,
         NotesFit, NodesAreThere, GraphsInOrder, Pushing, Editing, Working
<1>2. TurnsSpec => Spec
  <2>1. [Next /\ TakeTurns]_vars => [Next]_vars
    OBVIOUS
  <2> QED BY <2>1, PTL DEF TurnsSpec, Spec
<1>3. TypeOK /\ TypeOK' /\ Safe /\ TurnsInv /\ [Next /\ TakeTurns]_vars => TurnsInv'
  BY TurnsStep
<1> QED BY <1>1, <1>2, <1>3, SessionTypes, SessionSafe, PTL DEF TurnsSpec

\* For clients that take turns: once all edits are answered, the last of them
\* with ok, and the ring is drained, the audio thread renders the project
\* (session.rs mutate_project, project_load; lib.rs run_callback).
THEOREM AudioFollows == TurnsSpec => []AudioFollowsProject
<1>1. TypeOK /\ TurnsInv => AudioFollowsProject
  <2> SUFFICES ASSUME TypeOK, TurnsInv, Quiet, lastEdit = "ok" PROVE graph = project
    BY DEF AudioFollowsProject
  <2>1. Len(ring) = 0 /\ \A c \in Conns : ~Editing(c)
    BY EmptySeq DEF Quiet, TypeOK
  <2>2. IsLast(0, Len(ring) + 1)
    BY <2>1 DEF IsLast
  <2> QED BY <2>1, <2>2 DEF TurnsInv, ProjectIsHeard, GraphAt
<1> QED BY <1>1, TurnsHold, PTL

\* For clients that take turns the index is that of the project whenever no
\* edit is under way (session.rs TrackIndex::set).
THEOREM IndexFollows == TurnsSpec => []IndexFollowsProject
<1>1. TurnsInv => IndexFollowsProject
  BY DEF TurnsInv, IndexIsCurrent, IndexFollowsProject, Editing
<1> QED BY <1>1, TurnsHold, PTL

\* For clients that take turns a live note sounds on the track it was sent
\* for (session.rs midi_note_on, graph.rs push_live).
THEOREM NoteReaches == TurnsSpec => []NoteReachesItsTrack
<1>1. TypeOK /\ TurnsInv => NoteReachesItsTrack
  <2> SUFFICES ASSUME TypeOK, TurnsInv, ring # <<>>, IsTrusted(Head(ring)) PROVE Fits(Head(ring), graph)
    BY DEF NoteReachesItsTrack, IsTrusted, Fits
  <2>1. 1 \in 1..Len(ring) /\ Head(ring) = ring[1]
    BY HeadTailProperties, EmptySeq DEF TypeOK
  <2>2. IsLast(0, 1) /\ GraphAt(0) = graph
    BY DEF IsLast, GraphAt
  <2> QED BY <2>1, <2>2 DEF TurnsInv, NotesFit
<1> QED BY <1>1, TurnsHold, PTL

\* For clients that take turns an editor opens only on a node the project has
\* (session.rs chain_show_editor).
THEOREM EditorOpens == TurnsSpec => EditorOpensOnNode
<1> DEFINE Nodes == IF project = None THEN {} ELSE project.doc.inserts
<1>1. TypeOK /\ TurnsInv /\ [Next /\ TakeTurns]_vars => [editors' \subseteq editors \cup Nodes]_editors
  <2> SUFFICES ASSUME TypeOK, TurnsInv, Next
               PROVE  editors' \subseteq editors \cup Nodes \/ editors' = editors
    BY DEF vars
  <2>1. ASSUME NEW c \in Conns, OpenEditor(c) PROVE editors' \subseteq editors \cup Nodes
    BY <2>1 DEF OpenEditor, TurnsInv, NodesAreThere
  <2>2. ASSUME NEW c \in Conns, NEW t, NEW n, HideEditor(c, t, n) PROVE editors' \subseteq editors
    BY <2>2 DEF HideEditor
  <2>3. ASSUME NEW c \in Conns, NEW applies, NEW d, Edit(c, applies, d) PROVE editors' = editors
    BY <2>3 DEF Edit
  <2>4. ASSUME NEW c \in Conns, Request(c),
               ~\E t \in Tracks, n \in NodeIds : HideEditor(c, t, n)
        PROVE  editors' = editors
    <3>1. ASSUME NEW t, NEW n, \/ ChainAddNode(c, t, n) \/ ChainRemoveNode(c, t, n)
                               \/ ChainSetParam(c, t, n)
          PROVE editors' = editors
      BY <2>3, <3>1 DEF ChainAddNode, ChainRemoveNode, ChainSetParam
    <3> QED BY <2>4, <3>1 DEF Request, LoadBuild, PatchBegin, ShowEditor, MidiNote, ReadProject,
                  EditRefused, Transport, sessionVars
  <2>5. ASSUME NEW c \in Conns, Handler(c), ~OpenEditor(c) PROVE editors' = editors
    BY <2>5 DEF Handler, LoadIndex, LoadStore, PatchOp, PatchEnd, Rebuild, SendRt, sessionVars
  <2>6. Callback => editors' = editors
    BY DEF Callback, sessionVars
  <2> QED BY <2>1, <2>2, <2>4, <2>5, <2>6 DEF Next
<1> QED BY <1>1, TurnsHold, PTL DEF TurnsSpec, EditorOpensOnNode

\* An edit counts one revision, and no other step does.
LEMMA RevCounts ==
  ASSUME SessionAssumption, TypeOK, TypeOK', NEW c \in Conns, Request(c) \/ Handler(c)
  PROVE  Rev' = Rev \/ Rev' = Rev + 1
<1> SUFFICES ASSUME project' # project PROVE Rev' = Rev \/ Rev' = Rev + 1
  BY DEF Rev
<1>1. CASE LoadStore(c)
  <2>1. work[c] \in [doc : Doc]
    BY <1>1 DEF LoadStore, TypeOK, Carries
  <2>2. project' \in Project /\ project'.rev = Rev + 1
    BY <1>1, <2>1, RevType DEF LoadStore, Project
  <2> QED BY <2>2 DEF Rev, SessionAssumption
<1>2. ASSUME NEW ops, PatchBegin(c, ops) PROVE Rev' = Rev + 1
  <2>1. project # None /\ project \in Project /\ project' = [project EXCEPT !.rev = @ + 1]
    BY <1>2 DEF PatchBegin, TypeOK
  <2>2. project' \in Project /\ project'.rev = project.rev + 1
    BY <2>1 DEF Project
  <2> QED BY <2>1, <2>2 DEF Rev, SessionAssumption
<1>3. CASE PatchOp(c)
  <2>1. /\ project # None /\ project \in Project
        /\ project' = [project EXCEPT !.doc = OpResult(@, Head(work[c].ops))]
    BY <1>3 DEF PatchOp, PatchFails, TypeOK, SessionAssumption
  <2>2. project'.rev = project.rev /\ project' # None
    <3>1. lock' = lock /\ lock # None
      BY <1>3 DEF PatchOp, PatchFails, TypeOK, SessionAssumption
    <3> QED BY <2>1, <3>1 DEF Project, TypeOK
  <2> QED BY <2>1, <2>2 DEF Rev
<1>4. ASSUME NEW applies, NEW d, project # None => d \in Doc, Edit(c, applies, d)
      PROVE  Rev' = Rev + 1
  <2>1. /\ project # None /\ project \in Project /\ d \in Doc
        /\ project' = [rev |-> project.rev + 1, doc |-> d]
    BY <1>4 DEF Edit, TypeOK
  <2>2. project' \in Project /\ project'.rev = project.rev + 1
    BY <2>1 DEF Project
  <2> QED BY <2>1, <2>2 DEF Rev, SessionAssumption
<1>5. ASSUME NEW t \in Tracks, NEW n \in NodeIds,
             \/ ChainAddNode(c, t, n) \/ ChainRemoveNode(c, t, n) \/ ChainSetParam(c, t, n)
      PROVE  Rev' = Rev + 1
  <2>1. <<t, n>> \in Keys
    BY DEF Keys
  <2>2. project # None =>
          /\ project.doc \in Doc
          /\ [project.doc EXCEPT !.inserts = @ \cup {<<t, n>>}] \in Doc
          /\ [project.doc EXCEPT !.inserts = @ \ {<<t, n>>}] \in Doc
    BY <2>1 DEF TypeOK, Project, Doc
  <2>3. \E applies : \E d : (project # None => d \in Doc) /\ Edit(c, applies, d)
    BY <1>5, <2>2 DEF ChainAddNode, ChainRemoveNode, ChainSetParam
  <2> QED BY <2>3, <1>4
<1>6. CASE Handler(c)
  BY <1>1, <1>3, <1>6 DEF Handler, LoadIndex, PatchEnd, Rebuild, SendRt, OpenEditor, sessionVars
<1>7. CASE Request(c)
  <2>1. FreshIds \subseteq NodeIds
    BY DEF SessionAssumption
  <2> QED BY <1>2, <1>5, <1>7, <2>1 DEF Request, LoadBuild, ShowEditor, HideEditor, MidiNote, ReadProject,
     EditRefused, Transport, sessionVars
<1> QED BY <1>6, <1>7

\* For clients that take turns the rendered graph implements GraphMirror: it
\* follows the project and never goes back (session.rs mutate_project).
THEOREM MovesForward == TurnsSpec => GraphMovesForward
<1> USE SessionAssumption
<1>1. Init => Mirror!Init
  BY DEF Init, Mirror!Init, Rev
<1>2. /\ TypeOK /\ TypeOK' /\ Safe /\ TurnsInv /\ [Next /\ TakeTurns]_vars
      => [Mirror!Next]_<<Rev, Rendered>>
  <2> SUFFICES ASSUME TypeOK, TypeOK', Safe, TurnsInv, Next
               PROVE  Mirror!Next \/ UNCHANGED <<Rev, Rendered>>
    BY DEF vars, Rev, Rendered
  <2>1. ASSUME NEW c \in Conns, Request(c) \/ Handler(c)
        PROVE  Rendered' = Rendered /\ (Rev' = Rev \/ Rev' = Rev + 1)
    BY <2>1, OneMoves, RevCounts DEF Rendered
  <2>2. CASE Callback
    <3>1. Popped /\ Rev' = Rev /\ graph = GraphAt(0) /\ graph' = GraphAt(0)'
      BY <2>2, LastAfterCallback DEF Callback, sessionVars, Rev, GraphAt
    <3>2. CASE InRing(1)
      <4>1. 1 \in 1..Len(ring) /\ ring[1].graph \in Project /\ graph' = ring[1].graph
        BY <3>1, <3>2, CommandType DEF Popped, GraphAt
      <4>2. Rendered' = ring[1].graph.rev
        BY <4>1 DEF Rendered, SessionAssumption
      <4>3. Rendered < ring[1].graph.rev /\ ring[1].graph.rev <= Rev
        BY <3>2, <4>1 DEF TurnsInv, GraphsInOrder, Safe, SnapshotsAreCommitted, SnapshotOf, Rev
      <4>4. Rendered' \in (Rendered + 1)..Rev
        BY <4>1, <4>2, <4>3, CommandType DEF Project
      <4> QED BY <3>1, <4>4 DEF Mirror!Next, Mirror!Follow, Rendered
    <3>3. CASE ~InRing(1)
      BY <3>1, <3>3 DEF Popped, Rendered
    <3> QED BY <3>2, <3>3
  <2> QED BY <2>1, <2>2 DEF Next, Mirror!Next, Mirror!Change, Rendered
<1> QED BY <1>1, <1>2, TurnsHold, PTL DEF TurnsSpec, GraphMovesForward, Mirror!Spec, Rendered
=============================================================================
