------------------------- MODULE ApplicationsProofs -------------------------
(***************************************************************************)
(* Theorems about the applications resource, for any clients, any bodies   *)
(* and any number of requests: what the store holds, what an answer of 200 *)
(* or 204 is worth, and which components replace one another.              *)
(***************************************************************************)
EXTENDS Applications, SequenceTheorems, TLAPS

-----------------------------------------------------------------------------
(* Bodies and the manifests they become.                                   *)

Manifest ==
    [app : Strings, name : Strings, version : Strings,
     type : ComponentTypes, active : BOOLEAN, distUrl : Seq(Strings),
     diskSpace : {0}, sla : BOOLEAN, unhealthyAt : {FALSE}]

(* ToAppManifest never sets unhealthy_at.                                  *)
LEMMA ManifestsOfPost ==
    ASSUME NEW p \in Posts
    PROVE  Manifests(p) \subseteq Manifest
<1>1. p \in App
  BY PostsAssumption
<1>2. SUFFICES ASSUME NEW c \in p.components
               PROVE  ToAppManifest(p, c) \in Manifest
  BY DEF Manifests, Components
<1>3. c \in AppComponent /\ p.name \in Strings
  BY <1>1 DEF App
<1>4. ComponentType(c.type) \in ComponentTypes
  BY DEF ComponentType, ComponentTypes
<1>5. DistURL(p, c) \in Seq(Strings)
  BY <1>3 DEF DistURL, AppComponent
<1>6. QED  BY <1>3, <1>4, <1>5 DEF ToAppManifest, AppComponent, Manifest

LEMMA ManifestsTyped ==
    /\ AllManifests \subseteq Manifest
    /\ \A p \in Posts : Manifests(p) \subseteq AllManifests
    /\ \A m \in AllManifests : Id(m) \in Ids
BY ManifestsOfPost DEF AllManifests, Ids

(* A string has a part at least: what is missing is not a manifest, and    *)
(* nobody posts the body of an idle goroutine.                             *)
LEMMA NoneIsNone == None \notin AllManifests
<1>1. ASSUME NEW m \in Manifest  PROVE  m # None
  <2>1. m.app \in Strings
    BY <1>1 DEF Manifest
  <2>2. None.app = <<>>
    BY DEF None
  <2>3. QED  BY <2>1, <2>2 DEF Strings
<1>2. QED  BY <1>1, ManifestsTyped

LEMMA NoPostIsNone == NoPost \notin Posts /\ Manifests(NoPost) = {}
<1>1. ASSUME NEW p \in App  PROVE  p # NoPost
  <2>1. p.name \in Strings
    BY <1>1 DEF App
  <2>2. NoPost.name = <<>>
    BY DEF NoPost
  <2>3. QED  BY <2>1, <2>2 DEF Strings
<1>2. Manifests(NoPost) = {}
  BY DEF Manifests, Components, NoPost
<1>3. QED  BY <1>1, <1>2, PostsAssumption

-----------------------------------------------------------------------------
(* The invariant: types, manifests that marshal under their own ids, and   *)
(* what of the body of a Save in progress is stored already.               *)

Answers == [code : {0, 200, 204, 404, 422, 500}, body : Shown \cup {NoPost}]

Shape ==
    /\ store \in [Ids -> AllManifests \cup {None}]
    /\ post \in [Clients -> Posts \cup {NoPost}]
    /\ todo \in [Clients -> SUBSET AllManifests]
    /\ posted \in SUBSET Posts
    /\ touched \in [Clients -> SUBSET Ids]
    /\ lost \in [Clients -> SUBSET AllManifests]
    /\ answer \in [Clients -> Answers]
    /\ requests \in 0..MaxRequests

TodoIsPosted ==
    \A c \in Clients : /\ todo[c] \subseteq Manifests(post[c])
                       /\ lost[c] \subseteq Manifests(post[c])

AsWritten ==
    \A id \in Ids : store[id] # None =>
        Id(store[id]) = id /\ Marshals(store[id])

SameId(p, m) == {x \in Manifests(p) : Id(x) = Id(m)}

StoredSoFar ==
    \A c \in Clients : ~Idle(c) =>
        \A m \in Manifests(post[c]) \ todo[c] :
            m \notin lost[c] /\ Id(m) \notin touched[c]
                => store[Id(m)] \in SameId(post[c], m)

Inv == Shape /\ TodoIsPosted /\ AsWritten /\ StoredSoFar

(* What a goroutine saves are manifests.                                   *)
LEMMA PostedAreManifests ==
    ASSUME Shape, NEW c \in Clients, NEW m \in Manifests(post[c])
    PROVE  m \in AllManifests /\ Id(m) \in Ids /\ m # None
BY ManifestsTyped, NoPostIsNone, NoneIsNone DEF Shape

LEMMA InvInit == Init => Inv
<1> SUFFICES ASSUME Init PROVE Inv
  OBVIOUS
<1>1. \A c \in Clients : Idle(c)
  BY DEF Init, Idle
<1>2. Shape
  BY RequestsAssumption DEF Init, Shape, Answers
<1>3. QED  BY <1>1, <1>2 DEF Init, Inv, TodoIsPosted, AsWritten, StoredSoFar

-----------------------------------------------------------------------------
(* The steps.                                                              *)

LEMMA AnswerTyped ==
    ASSUME Shape, NEW c, NEW code \in {0, 200, 204, 404, 422, 500},
           NEW body \in Shown \cup {NoPost}, Answer(c, code, body)
    PROVE  answer' \in [Clients -> Answers]
<1>1. [code |-> code, body |-> body] \in Answers
  BY DEF Answers
<1>2. QED  BY <1>1 DEF Shape, Answer

LEMMA TouchTyped ==
    ASSUME Shape, NEW c, NEW id \in Ids, Touch(c, id)
    PROVE  /\ touched' \in [Clients -> SUBSET Ids]
           /\ \A o \in Clients : touched[o] \subseteq touched'[o]
           /\ \A o \in Clients : o # c /\ ~Idle(o) => id \in touched'[o]
BY DEF Shape, Touch

LEMMA InputTyped ==
    ASSUME Shape, Input
    PROVE  requests' \in 0..MaxRequests
BY RequestsAssumption DEF Shape, Input

(* A write under an id that the other goroutines see as touched does not   *)
(* take back what they have stored.                                        *)
LEMMA OthersStored ==
    ASSUME Inv, NEW c \in Clients, NEW id \in Ids, NEW x,
           store' = [store EXCEPT ![id] = x], Touch(c, id), UNCHANGED post,
           NEW o \in Clients, o # c, todo'[o] = todo[o], ~Idle(o),
           NEW m \in Manifests(post[o]) \ todo[o], m \notin lost[o],
           Id(m) \notin touched'[o]
    PROVE  store'[Id(m)] \in SameId(post[o], m)
<1>1. Shape /\ StoredSoFar
  BY DEF Inv
<1>2. Id(m) \notin touched[o] /\ Id(m) # id
  BY <1>1, TouchTyped
<1>3. store'[Id(m)] = store[Id(m)]
  BY <1>1, <1>2, PostedAreManifests DEF Shape
<1>4. QED  BY <1>1, <1>2, <1>3 DEF StoredSoFar

LEMMA SaveKeeps ==
    ASSUME Inv, NEW c \in Clients, NEW p \in Posts, Save(c, p)
    PROVE  Inv'
<1>1. Shape /\ TodoIsPosted /\ AsWritten /\ StoredSoFar /\ Idle(c)
  BY DEF Inv, Save
<1>2. requests' \in 0..MaxRequests /\ UNCHANGED store
  BY <1>1, InputTyped DEF Save
<1>3. CASE Valid(p)
  <2>1. /\ post' = [post EXCEPT ![c] = p]
        /\ todo' = [todo EXCEPT ![c] = Manifests(p)]
        /\ posted' = posted \cup {p}
        /\ UNCHANGED <<answer, touched, lost>>
    BY <1>3 DEF Save, Begin
  <2>2. Shape'
    BY <1>1, <1>2, <2>1, ManifestsTyped DEF Shape
  <2>3. TodoIsPosted'
    BY <1>1, <2>1, NoPostIsNone DEF Shape, TodoIsPosted, Idle
  <2>4. AsWritten'
    BY <1>1, <1>2 DEF AsWritten
  <2>5. StoredSoFar'
    <3>1. post'[c] = p /\ todo'[c] = Manifests(p)
      BY <1>1, <2>1 DEF Shape
    <3>2. ASSUME NEW o \in Clients, o # c
          PROVE  /\ post'[o] = post[o]
                 /\ todo'[o] = todo[o]
      BY <1>1, <2>1, <3>2 DEF Shape
    <3>3. QED  BY <1>1, <1>2, <2>1, <3>1, <3>2 DEF StoredSoFar, Idle
  <2>6. QED  BY <2>2, <2>3, <2>4, <2>5 DEF Inv
<1>4. CASE ~Valid(p)
  <2>1. Answer(c, 422, NoPost) /\ UNCHANGED <<post, todo, posted, touched, lost>>
    BY <1>4 DEF Save, history
  <2>2. Shape'
    <3>1. answer' \in [Clients -> Answers]
      BY <1>1, <2>1, AnswerTyped
    <3>2. QED  BY <1>1, <1>2, <2>1, <3>1 DEF Shape
  <2>3. QED
    BY <1>1, <1>2, <2>1, <2>2
    DEF Inv, TodoIsPosted, AsWritten, StoredSoFar, Idle
<1>5. QED  BY <1>3, <1>4

LEMMA SaveComponentKeeps ==
    ASSUME Inv, NEW c \in Clients, NEW m \in todo[c], SaveComponent(c, m)
    PROVE  Inv'
<1>1. Shape /\ TodoIsPosted /\ AsWritten /\ StoredSoFar
  BY DEF Inv
<1>2. /\ Marshals(m)
      /\ store' = [store EXCEPT ![Id(m)] = m]
      /\ Touch(c, Id(m))
      /\ todo' = [todo EXCEPT ![c] = @ \ {m}]
      /\ UNCHANGED <<post, answer, requests, posted, lost>>
  BY DEF SaveComponent
<1>3. m \in Manifests(post[c]) /\ m \in AllManifests /\ Id(m) \in Ids
  BY <1>1, PostedAreManifests DEF TodoIsPosted
<1>4. todo' \in [Clients -> SUBSET AllManifests] /\ TodoIsPosted'
  BY <1>1, <1>2 DEF Shape, TodoIsPosted
<1>5. /\ \A o \in Clients : o # c => todo'[o] = todo[o]
      /\ todo'[c] = todo[c] \ {m}
  BY <1>1, <1>2 DEF Shape
<1>6. Shape'
  BY <1>1, <1>2, <1>3, <1>4, TouchTyped DEF Shape
<1>7. AsWritten'
  BY <1>1, <1>2, <1>3 DEF AsWritten, Shape
<1>8. ASSUME NEW n \in Manifests(post[c]) \ todo'[c], ~Idle(c),
             n \notin lost[c], Id(n) \notin touched'[c]
      PROVE  store'[Id(n)] \in SameId(post[c], n)
  <2>1. Id(n) \notin touched[c]
    BY <1>1, <1>2, <1>3, <1>8, TouchTyped
  <2>2. CASE Id(n) = Id(m)
    BY <1>1, <1>2, <1>3, <2>2 DEF SameId, Shape
  <2>3. CASE Id(n) # Id(m)
    <3>1. n \notin todo[c]
      BY <1>5, <2>3
    <3>2. store'[Id(n)] = store[Id(n)]
      BY <1>1, <1>2, <2>3, PostedAreManifests DEF Shape
    <3>3. QED  BY <1>1, <1>8, <2>1, <3>1, <3>2 DEF StoredSoFar
  <2>4. QED  BY <2>2, <2>3
<1>9. StoredSoFar'
  <2>1. SUFFICES ASSUME NEW o \in Clients, ~Idle(o),
                        NEW n \in Manifests(post[o]) \ todo'[o],
                        n \notin lost[o], Id(n) \notin touched'[o]
                 PROVE  store'[Id(n)] \in SameId(post[o], n)
    BY <1>2 DEF StoredSoFar, Idle, SameId
  <2>2. CASE o = c
    BY <1>8, <2>1, <2>2
  <2>3. CASE o # c
    BY <1>2, <1>3, <1>5, <2>1, <2>3, OthersStored
  <2>4. QED  BY <2>2, <2>3
<1>10. QED  BY <1>4, <1>6, <1>7, <1>9 DEF Inv

LEMMA SaveComponentFailsKeeps ==
    ASSUME Inv, NEW c \in Clients, NEW m \in todo[c], SaveComponentFails(c, m)
    PROVE  Inv'
<1>1. Shape /\ TodoIsPosted /\ AsWritten /\ StoredSoFar
  BY DEF Inv
<1>2. /\ todo' = [todo EXCEPT ![c] = @ \ {m}]
      /\ lost' = [lost EXCEPT ![c] = @ \cup {m}]
      /\ UNCHANGED <<store, post, answer, requests, posted, touched>>
  BY DEF SaveComponentFails
<1>3. m \in Manifests(post[c]) /\ m \in AllManifests
  BY <1>1, PostedAreManifests DEF TodoIsPosted
<1>4. Shape' /\ AsWritten'
  BY <1>1, <1>2, <1>3 DEF Shape, AsWritten
<1>5. /\ todo'[c] = todo[c] \ {m} /\ lost'[c] = lost[c] \cup {m}
      /\ \A o \in Clients : o # c => todo'[o] = todo[o] /\ lost'[o] = lost[o]
  BY <1>1, <1>2 DEF Shape
<1>6. TodoIsPosted'
  BY <1>1, <1>2, <1>3, <1>5 DEF TodoIsPosted
<1>7. StoredSoFar'
  <2>1. SUFFICES ASSUME NEW o \in Clients, ~Idle(o),
                        NEW n \in Manifests(post[o]) \ todo'[o],
                        n \notin lost'[o], Id(n) \notin touched[o]
                 PROVE  store[Id(n)] \in SameId(post[o], n)
    BY <1>2 DEF StoredSoFar, Idle, SameId
  <2>2. n \notin todo[o] /\ n \notin lost[o]
    BY <1>5, <2>1
  <2>3. QED  BY <1>1, <2>1, <2>2 DEF StoredSoFar
<1>8. QED  BY <1>4, <1>6, <1>7 DEF Inv

LEMMA SavedKeeps ==
    ASSUME Inv, NEW c \in Clients, Saved(c)
    PROVE  Inv'
<1>1. Shape /\ TodoIsPosted /\ AsWritten /\ StoredSoFar
  BY DEF Inv
<1>2. /\ Answer(c, 200, NoPost)
      /\ post' = [post EXCEPT ![c] = NoPost]
      /\ todo' = [todo EXCEPT ![c] = {}]
      /\ touched' = [touched EXCEPT ![c] = {}]
      /\ lost' = [lost EXCEPT ![c] = {}]
      /\ UNCHANGED <<store, requests, posted>>
  BY DEF Saved, Finish
<1>3. Shape'
  <2>1. answer' \in [Clients -> Answers]
    BY <1>1, <1>2, AnswerTyped
  <2>2. QED  BY <1>1, <1>2, <2>1 DEF Shape
<1>4. /\ Idle(c)' /\ todo'[c] = {} /\ lost'[c] = {}
      /\ \A o \in Clients : o # c =>
            /\ post'[o] = post[o] /\ todo'[o] = todo[o]
            /\ touched'[o] = touched[o] /\ lost'[o] = lost[o]
  BY <1>1, <1>2 DEF Shape, Idle
<1>5. TodoIsPosted' /\ AsWritten'
  BY <1>1, <1>2, <1>4 DEF TodoIsPosted, AsWritten
<1>6. StoredSoFar'
  BY <1>1, <1>2, <1>4 DEF StoredSoFar, Idle
<1>7. QED  BY <1>3, <1>5, <1>6 DEF Inv

LEMMA DeleteKeeps ==
    ASSUME Inv, NEW c \in Clients, NEW id \in Ids, Delete(c, id)
    PROVE  Inv'
<1>1. Shape /\ TodoIsPosted /\ AsWritten /\ StoredSoFar
  BY DEF Inv
<1>2. /\ Idle(c)
      /\ store' = [store EXCEPT ![id] = None]
      /\ Touch(c, id)
      /\ UNCHANGED <<post, todo, posted, lost>>
  BY DEF Delete
<1>3. Shape'
  <2>1. requests' \in 0..MaxRequests
    BY <1>1, InputTyped DEF Delete
  <2>2. answer' \in [Clients -> Answers]
    BY <1>1, AnswerTyped DEF Delete
  <2>3. QED  BY <1>1, <1>2, <2>1, <2>2, TouchTyped DEF Shape
<1>4. TodoIsPosted'
  BY <1>1, <1>2 DEF TodoIsPosted
<1>5. AsWritten'
  BY <1>1, <1>2 DEF AsWritten, Shape
<1>6. StoredSoFar'
  <2>1. SUFFICES ASSUME NEW o \in Clients, ~Idle(o),
                        NEW n \in Manifests(post[o]) \ todo[o],
                        n \notin lost[o], Id(n) \notin touched'[o]
                 PROVE  store'[Id(n)] \in SameId(post[o], n)
    BY <1>2 DEF StoredSoFar, Idle, SameId
  <2>2. o # c /\ todo'[o] = todo[o]
    BY <1>2, <2>1
  <2>3. QED  BY <1>2, <2>1, <2>2, OthersStored
<1>7. QED  BY <1>3, <1>4, <1>5, <1>6 DEF Inv

(* A step that only answers: ShowOne, Deploy and a store that fails.       *)
LEMMA AnswersKeep ==
    ASSUME Inv, NEW c \in Clients, NEW id \in Ids,
           Get(c, id) \/ GetFails(c, id) \/ DeleteFails(c, id)
    PROVE  Inv'
<1>1. Shape /\ TodoIsPosted /\ AsWritten /\ StoredSoFar
  BY DEF Inv
<1>2. UNCHANGED <<store, post, todo, posted, touched, lost>>
  BY DEF Get, GetFails, DeleteFails, history
<1>3. requests' \in 0..MaxRequests
  BY <1>1, InputTyped DEF Get, GetFails, DeleteFails, Shape
<1>4. answer' \in [Clients -> Answers]
  <2>1. CASE Get(c, id) /\ store[id] # None
    <3>1. FromAppManifest(store[id]) \in Shown
      BY <1>1, <2>1 DEF Shape, Shown
    <3>2. QED  BY <1>1, <2>1, <3>1, AnswerTyped DEF Get
  <2>2. CASE ~(Get(c, id) /\ store[id] # None)
    BY <1>1, <2>2, AnswerTyped DEF Get, GetFails, DeleteFails
  <2>3. QED  BY <2>1, <2>2
<1>5. QED
  BY <1>1, <1>2, <1>3, <1>4
  DEF Inv, Shape, TodoIsPosted, AsWritten, StoredSoFar, Idle

LEMMA RestartKeeps ==
    ASSUME Inv, Restart
    PROVE  Inv'
<1>1. Shape /\ TodoIsPosted /\ AsWritten /\ StoredSoFar
  BY DEF Inv
<1>2. /\ post' = [c \in Clients |-> NoPost]
      /\ todo' = [c \in Clients |-> {}]
      /\ answer' = [c \in Clients |-> [code |-> 0, body |-> NoPost]]
      /\ touched' = [c \in Clients |-> {}]
      /\ lost' = [c \in Clients |-> {}]
      /\ UNCHANGED <<store, posted>>
  BY DEF Restart
<1>3. [code |-> 0, body |-> NoPost] \in Answers
  BY DEF Answers
<1>4. Shape'
  BY <1>1, <1>2, <1>3, InputTyped DEF Shape, Restart
<1>5. \A c \in Clients : Idle(c)'
  BY <1>2 DEF Idle
<1>6. QED
  BY <1>1, <1>2, <1>4, <1>5
  DEF Inv, TodoIsPosted, AsWritten, StoredSoFar

LEMMA InvNext == Inv /\ [Next]_vars => Inv'
<1> SUFFICES ASSUME Inv, [Next]_vars PROVE Inv'
  OBVIOUS
<1>1. ASSUME NEW c \in Clients, NEW p \in Posts, Save(c, p)  PROVE  Inv'
  BY <1>1, SaveKeeps
<1>2. ASSUME NEW c \in Clients, NEW m \in todo[c], SaveComponent(c, m)
      PROVE  Inv'
  BY <1>2, SaveComponentKeeps
<1>F. ASSUME NEW c \in Clients, NEW m \in todo[c], SaveComponentFails(c, m)
      PROVE  Inv'
  BY <1>F, SaveComponentFailsKeeps
<1>3. ASSUME NEW c \in Clients, Saved(c)  PROVE  Inv'
  BY <1>3, SavedKeeps
<1>4. ASSUME NEW c \in Clients, NEW id \in Ids, Delete(c, id)  PROVE  Inv'
  BY <1>4, DeleteKeeps
<1>5. ASSUME NEW c \in Clients, NEW id \in Ids,
             Get(c, id) \/ GetFails(c, id) \/ DeleteFails(c, id)
      PROVE  Inv'
  BY <1>5, AnswersKeep
<1>6. CASE Restart
  BY <1>6, RestartKeeps
<1>7. CASE UNCHANGED vars
  BY <1>7
  DEF vars, Inv, Shape, TodoIsPosted, AsWritten, StoredSoFar, Idle
<1>8. QED  BY <1>1, <1>2, <1>F, <1>3, <1>4, <1>5, <1>6, <1>7 DEF Next

LEMMA InvAlways == Spec => []Inv
BY InvInit, InvNext, PTL DEF Spec

-----------------------------------------------------------------------------
(* The invariants of the run.                                              *)

(* Whatever clients post, the state of the resource has its types, and a   *)
(* goroutine has only manifests of its own body still to save (Save,       *)
(* applications.go 117-142).                                               *)
THEOREM TypeCorrect == Spec => []TypeOK
<1>1. Inv => TypeOK
  BY DEF Inv, Shape, TodoIsPosted, TypeOK, Answers
<1>2. QED  BY <1>1, InvAlways, PTL

(* Nothing that has an SLA is ever stored: ToAppManifest does not set what *)
(* Marshal requires, and Save (134-138) goes on without an error.          *)
THEOREM SlaIsNeverStored == Spec => []NoSlaIsStored
<1>1. Inv => NoSlaIsStored
  BY ManifestsTyped
  DEF Inv, Shape, AsWritten, Manifest, Marshals, NoSlaIsStored
<1>2. QED  BY <1>1, InvAlways, PTL

-----------------------------------------------------------------------------
(* Where things come from: what a goroutine saves was accepted, what is    *)
(* stored and what was shown is of a body that was.                        *)

Of(m, bodies) == \E p \in bodies : m \in Manifests(p)

Origin ==
    /\ \A c \in Clients : ~Idle(c) => post[c] \in posted
    /\ \A id \in Ids : store[id] # None => Of(store[id], posted)
    /\ \A c \in Clients : answer[c].body # NoPost =>
          \E m : Of(m, posted) /\ answer[c].body = FromAppManifest(m)

LEMMA OriginInit == Init => Origin
BY DEF Init, Origin, Idle

LEMMA StillOf ==
    ASSUME NEW A, NEW B, A \subseteq B, NEW m, Of(m, A)
    PROVE  Of(m, B)
BY DEF Of

(* An answer that shows nothing, or something of a body that was accepted. *)
LEMMA AnswerOrigin ==
    ASSUME Shape, Origin, NEW c \in Clients, NEW code, NEW body,
           Answer(c, code, body), UNCHANGED posted,
           body # NoPost =>
              \E m : Of(m, posted) /\ body = FromAppManifest(m)
    PROVE  \A o \in Clients : answer'[o].body # NoPost =>
              \E m : Of(m, posted') /\ answer'[o].body = FromAppManifest(m)
<1>1. SUFFICES ASSUME NEW o \in Clients, answer'[o].body # NoPost
               PROVE  \E m : Of(m, posted) /\ answer'[o].body = FromAppManifest(m)
  OBVIOUS
<1>2. CASE o = c
  BY <1>1, <1>2 DEF Shape, Answer
<1>3. CASE o # c
  <2>1. answer'[o] = answer[o]
    BY <1>3 DEF Shape, Answer
  <2>2. QED  BY <1>1, <2>1 DEF Origin
<1>4. QED  BY <1>2, <1>3

LEMMA OriginNext == Inv /\ Origin /\ [Next]_vars => Origin'
<1> SUFFICES ASSUME Inv, Origin, [Next]_vars PROVE Origin'
  OBVIOUS
<1>0. Shape /\ TodoIsPosted
  BY DEF Inv
<1>1. ASSUME NEW c \in Clients, NEW p \in Posts, Save(c, p)  PROVE  Origin'
  <2>1. CASE Valid(p)
    <3>1. /\ posted' = posted \cup {p} /\ post' = [post EXCEPT ![c] = p]
          /\ UNCHANGED <<store, answer>>
      BY <1>1, <2>1 DEF Save, Begin
    <3>2. \A o \in Clients : ~Idle(o)' => post'[o] \in posted'
      BY <1>0, <3>1 DEF Shape, Origin, Idle
    <3>3. \A m : Of(m, posted) => Of(m, posted')
      BY <3>1, StillOf
    <3>4. QED  BY <3>1, <3>2, <3>3 DEF Origin
  <2>2. CASE ~Valid(p)
    <3>1. /\ Answer(c, 422, NoPost)
          /\ UNCHANGED <<store, post, posted>>
      BY <1>1, <2>2 DEF Save, history
    <3>2. QED  BY <1>0, <3>1, AnswerOrigin DEF Origin, Idle
  <2>3. QED  BY <2>1, <2>2
<1>2. ASSUME NEW c \in Clients, NEW m \in todo[c], SaveComponent(c, m)
      PROVE  Origin'
  <2>1. /\ store' = [store EXCEPT ![Id(m)] = m]
        /\ UNCHANGED <<post, answer, posted>>
    BY <1>2 DEF SaveComponent
  <2>2. m \in Manifests(post[c])
    BY <1>0 DEF TodoIsPosted
  <2>3. ~Idle(c)
    BY <2>2, NoPostIsNone DEF Idle
  <2>4. Of(m, posted)
    BY <2>2, <2>3 DEF Of, Origin
  <2>5. \A id \in Ids : store'[id] # None => Of(store'[id], posted)
    BY <1>0, <2>1, <2>4 DEF Shape, Origin
  <2>6. QED  BY <2>1, <2>5 DEF Origin, Idle
<1>3. ASSUME NEW c \in Clients, NEW m \in todo[c], SaveComponentFails(c, m)
      PROVE  Origin'
  BY <1>3 DEF SaveComponentFails, Origin, Idle
<1>4. ASSUME NEW c \in Clients, Saved(c)  PROVE  Origin'
  <2>1. /\ Answer(c, 200, NoPost)
        /\ post' = [post EXCEPT ![c] = NoPost]
        /\ UNCHANGED <<store, posted>>
    BY <1>4 DEF Saved, Finish
  <2>2. \A o \in Clients : ~Idle(o)' => post'[o] \in posted'
    BY <1>0, <2>1 DEF Shape, Origin, Idle
  <2>3. QED  BY <1>0, <2>1, <2>2, AnswerOrigin DEF Origin
<1>5. ASSUME NEW c \in Clients, NEW id \in Ids, Delete(c, id)  PROVE  Origin'
  <2>1. /\ Answer(c, 204, NoPost)
        /\ store' = [store EXCEPT ![id] = None]
        /\ UNCHANGED <<post, posted>>
    BY <1>5 DEF Delete
  <2>2. \A x \in Ids : store'[x] # None => Of(store'[x], posted)
    BY <1>0, <2>1 DEF Shape, Origin
  <2>3. QED  BY <1>0, <2>1, <2>2, AnswerOrigin DEF Origin, Idle
<1>6. ASSUME NEW c \in Clients, NEW id \in Ids,
             GetFails(c, id) \/ DeleteFails(c, id)
      PROVE  Origin'
  <2>1. Answer(c, 500, NoPost) /\ UNCHANGED <<store, post, posted>>
    BY <1>6 DEF GetFails, DeleteFails, history
  <2>2. QED  BY <1>0, <2>1, AnswerOrigin DEF Origin, Idle
<1>7. ASSUME NEW c \in Clients, NEW id \in Ids, Get(c, id)  PROVE  Origin'
  <2>1. UNCHANGED <<store, post, posted>>
    BY <1>7 DEF Get, history
  <2>2. CASE store[id] = None
    <3>1. Answer(c, 404, NoPost)
      BY <1>7, <2>2 DEF Get
    <3>2. QED  BY <1>0, <2>1, <3>1, AnswerOrigin DEF Origin, Idle
  <2>3. CASE store[id] # None
    <3>1. Answer(c, 200, FromAppManifest(store[id]))
      BY <1>7, <2>3 DEF Get
    <3>2. Of(store[id], posted)
      BY <2>3 DEF Origin
    <3>3. QED  BY <1>0, <2>1, <3>1, <3>2, AnswerOrigin DEF Origin, Idle
  <2>4. QED  BY <2>2, <2>3
<1>8. CASE Restart
  BY <1>8 DEF Restart, Origin, Idle
<1>9. CASE UNCHANGED vars
  BY <1>9 DEF vars, Origin, Idle
<1>10. QED
  BY <1>1, <1>2, <1>3, <1>4, <1>5, <1>6, <1>7, <1>8, <1>9 DEF Next

(* What is shown is of a body that an earlier request posted and that was  *)
(* accepted, across overwrites, failures of the store, deletes and         *)
(* restarts; of what was posted only the type when it is not known,        *)
(* dist_url and disk_space are replaced (ToAppManifest, converters.go      *)
(* 81-159, and FromAppManifest, 24-79).                                    *)
THEOREM ShownWerePosted == Spec => []ShownWasPosted
<1>1. ASSUME Origin, NEW c \in Clients, answer[c].body # NoPost
      PROVE  \E p \in posted :
                /\ p.name = answer[c].body.name
                /\ \A d \in answer[c].body.components :
                     \E x \in Components(p) :
                        /\ <<d.name, d.version, d.active, d.sla>>
                              = <<x.name, x.version, x.active, x.sla>>
                        /\ \/ d.type = x.type
                           \/ d.type = "SERVICE" /\ x.type \notin ComponentTypes
                        /\ d.distUrl = <<p.name, x.name, x.version>>
                        /\ d.diskSpace = 0
                        /\ d.key = x.name
  <2>1. PICK m : Of(m, posted) /\ answer[c].body = FromAppManifest(m)
    BY <1>1 DEF Origin
  <2>2. PICK p \in posted : m \in Manifests(p)
    BY <2>1 DEF Of
  <2>3. PICK x \in Components(p) : m = ToAppManifest(p, x)
    BY <2>2 DEF Manifests
  <2>4. p.name = answer[c].body.name
    BY <2>1, <2>3 DEF FromAppManifest, ToAppManifest
  <2>5. ASSUME NEW d \in answer[c].body.components
        PROVE  /\ <<d.name, d.version, d.active, d.sla>>
                     = <<x.name, x.version, x.active, x.sla>>
               /\ \/ d.type = x.type
                  \/ d.type = "SERVICE" /\ x.type \notin ComponentTypes
               /\ d.distUrl = <<p.name, x.name, x.version>>
               /\ d.diskSpace = 0
               /\ d.key = x.name
    BY <2>1, <2>3
    DEF FromAppManifest, ToAppManifest, ComponentType, DistURL
  <2>6. QED  BY <2>4, <2>5
<1>2. Origin => ShownWasPosted
  BY <1>1 DEF ShownWasPosted
<1>3. QED  BY <1>2, InvAlways, OriginInit, OriginNext, PTL DEF Spec

-----------------------------------------------------------------------------
(* The action properties of the run.                                       *)

(* A Save that answers 200 has tried to store every component (the loop of *)
(* Save, 135-138): what is not lost is stored so far, and nothing is left  *)
(* to do.                                                                  *)
THEOREM SavedAreStored == Spec => SavedIsStored
<1> DEFINE Kept == \A c \in Clients :
                      ~Idle(c) /\ Idle(c)' /\ answer'[c].code = 200
                        => \A m \in Manifests(post[c]) :
                              m \notin lost[c] /\ Id(m) \notin touched[c]
                                => IsStored(post[c], m)
<1>1. Inv /\ [Next]_vars => Kept
  <2>1. SUFFICES ASSUME Inv, [Next]_vars, NEW c \in Clients,
                        ~Idle(c), Idle(c)', answer'[c].code = 200
                 PROVE  todo[c] = {}
    BY DEF Inv, StoredSoFar, SameId, IsStored
  <2>2. Shape
    BY <2>1 DEF Inv
  <2>3. CASE Restart
    BY <2>1, <2>3 DEF Restart
  <2>4. CASE UNCHANGED vars
    BY <2>1, <2>4 DEF vars, Idle
  <2>5. ASSUME NEW o \in Clients, NEW p \in Posts, Save(o, p)
        PROVE  FALSE
    BY <2>1, <2>2, <2>5, NoPostIsNone DEF Save, Begin, Idle, Shape
  <2>6. ASSUME NEW o \in Clients, NEW m \in todo[o],
               SaveComponent(o, m) \/ SaveComponentFails(o, m)
        PROVE  FALSE
    BY <2>1, <2>6 DEF SaveComponent, SaveComponentFails, Idle
  <2>7. ASSUME NEW o \in Clients, NEW id \in Ids,
               \/ Delete(o, id) \/ DeleteFails(o, id)
               \/ Get(o, id) \/ GetFails(o, id)
        PROVE  FALSE
    BY <2>1, <2>7 DEF Delete, DeleteFails, Get, GetFails, Idle
  <2>8. ASSUME NEW o \in Clients, Saved(o)
        PROVE  todo[c] = {}
    BY <2>1, <2>2, <2>8 DEF Saved, Finish, Idle, Shape
  <2>9. QED  BY <2>1, <2>3, <2>4, <2>5, <2>6, <2>7, <2>8 DEF Next
<1>2. QED  BY <1>1, InvAlways, PTL DEF Spec, SavedIsStored

(* Three strings of one part each can be read off their concatenation.     *)
LEMMA OnePartEach ==
    ASSUME NEW S, NEW a \in Seq(S), NEW b \in Seq(S), NEW c \in Seq(S),
           Len(a) = 1, Len(b) = 1, Len(c) = 1
    PROVE  /\ (a \o b \o c)[1] = a[1]
           /\ (a \o b \o c)[2] = b[1]
           /\ (a \o b \o c)[3] = c[1]
<1> DEFINE ab == a \o b
<1>1. /\ ab \in Seq(S) /\ Len(ab) = Len(a) + Len(b)
      /\ \A i \in 1..Len(a) + Len(b) :
            ab[i] = IF i <= Len(a) THEN a[i] ELSE b[i - Len(a)]
  BY ConcatProperties
<1> HIDE DEF ab
<1>2. \A i \in 1..Len(ab) + Len(c) :
         (ab \o c)[i] = IF i <= Len(ab) THEN ab[i] ELSE c[i - Len(ab)]
  <2>1. ab \in Seq(S)
    BY <1>1
  <2>2. QED  BY <2>1, ConcatProperties
<1> DEFINE abc == ab \o c
<1>3. \A i \in 1..Len(ab) + Len(c) :
         abc[i] = IF i <= Len(ab) THEN ab[i] ELSE c[i - Len(ab)]
  BY <1>2
<1> HIDE DEF abc
<1>4. Len(ab) = 2 /\ ab[1] = a[1] /\ ab[2] = b[1]
  BY <1>1
<1>5. abc[1] = ab[1] /\ abc[2] = ab[2] /\ abc[3] = c[1]
  BY <1>3, <1>4
<1>6. QED  BY <1>4, <1>5 DEF ab, abc

LEMMA OnePart ==
    ASSUME NEW S, NEW a \in Seq(S), NEW b \in Seq(S), Len(a) = 1, Len(b) = 1,
           a[1] = b[1]
    PROVE  a = b
<1>1. \A k \in 1..Len(a) : a[k] = b[k]
  OBVIOUS
<1>2. QED  BY <1>1, SeqEqual

LEMMA ShortStrings ==
    ASSUME NEW n \in Strings, ~(Len(n) > 1)
    PROVE  n \in Seq(STRING) /\ Len(n) = 1
<1>1. n \in Seq(STRING) /\ n # <<>>
  BY DEF Strings
<1>2. Len(n) \in Nat \ {0}
  BY <1>1, EmptySeq
<1>3. ASSUME NEW k \in Nat \ {0}, ~(k > 1)  PROVE  k = 1
  BY <1>3
<1>4. QED  BY <1>1, <1>2, <1>3

LEMMA IdParts ==
    ASSUME NEW m \in Manifest,
           \A n \in {m.app, m.name, m.version} : ~(Len(n) > 1)
    PROVE  /\ m.app \in Seq(STRING) /\ Len(m.app) = 1
           /\ m.name \in Seq(STRING) /\ Len(m.name) = 1
           /\ m.version \in Seq(STRING) /\ Len(m.version) = 1
           /\ Id(m)[1] = m.app[1]
           /\ Id(m)[2] = m.name[1]
           /\ Id(m)[3] = m.version[1]
<1>1. m.app \in Strings /\ m.name \in Strings /\ m.version \in Strings
  BY DEF Manifest
<1> DEFINE a == m.app
           b == m.name
           c == m.version
<1>2. Id(m) = a \o b \o c
  BY DEF Id
<1>3. /\ a \in Strings /\ ~(Len(a) > 1)
      /\ b \in Strings /\ ~(Len(b) > 1)
      /\ c \in Strings /\ ~(Len(c) > 1)
  BY <1>1
<1> HIDE DEF a, b, c
<1>4. /\ a \in Seq(STRING) /\ Len(a) = 1
      /\ b \in Seq(STRING) /\ Len(b) = 1
      /\ c \in Seq(STRING) /\ Len(c) = 1
  BY <1>3, ShortStrings
<1>5. /\ (a \o b \o c)[1] = a[1]
      /\ (a \o b \o c)[2] = b[1]
      /\ (a \o b \o c)[3] = c[1]
  BY <1>4, OnePartEach
<1>6. QED  BY <1>2, <1>4, <1>5 DEF a, b, c

LEMMA NoDashNoClash ==
    ASSUME NEW m \in Manifest, NEW x \in Manifest, Id(m) = Id(x),
           \A n \in {m.app, m.name, m.version, x.app, x.name, x.version} :
              ~(Len(n) > 1)
    PROVE  Component(m) = Component(x)
<1>1. /\ \A n \in {m.app, m.name, m.version} : ~(Len(n) > 1)
      /\ \A n \in {x.app, x.name, x.version} : ~(Len(n) > 1)
  OBVIOUS
<1>2. m.app = x.app /\ m.name = x.name /\ m.version = x.version
  BY <1>1, IdParts, OnePart
<1>3. QED  BY <1>2 DEF Component

(* Everything is stored under its own id, before a step and after it, and  *)
(* names without a dash make different ids: a component is replaced by     *)
(* another one (AppStore.Save, under the id of ToAppManifest) only when    *)
(* one of their names has a dash.                                          *)
THEOREM OverwritesNeedDashes == Spec => OverwriteNeedsDash
<1> DEFINE Clash == \A id \in Ids :
                       LET m == store[id]  x == store'[id]
                       IN  m # None /\ x # None /\ Component(m) # Component(x)
                             => \E n \in {m.app, m.name, m.version, x.app,
                                          x.name, x.version} : Len(n) > 1
<1>1. Inv /\ Inv' => Clash
  <2> SUFFICES ASSUME Inv, Inv', NEW id \in Ids,
                      store[id] # None, store'[id] # None,
                      Component(store[id]) # Component(store'[id])
               PROVE  \E n \in {store[id].app, store[id].name,
                                store[id].version, store'[id].app,
                                store'[id].name, store'[id].version} :
                          Len(n) > 1
    OBVIOUS
  <2>1. store[id] \in Manifest /\ Id(store[id]) = id
    BY ManifestsTyped DEF Inv, Shape, AsWritten
  <2>2. store'[id] \in Manifest /\ Id(store'[id]) = id
    BY ManifestsTyped DEF Inv, Shape, AsWritten
  <2>3. QED  BY <2>1, <2>2, NoDashNoClash
<1>2. QED  BY <1>1, InvAlways, PTL DEF OverwriteNeedsDash

(* 204 is the answer of a Delete (144-154) that found something: what it   *)
(* deletes no other Delete can find.                                       *)
THEOREM DeletesOnce == Spec => DeleteOnce
<1> DEFINE Once == \A c \in Clients :
                      answer'[c] # answer[c] /\ answer'[c].code = 204
                        => \E id \in Ids :
                              store[id] # None /\ store'[id] = None
<1>1. Inv /\ [Next]_vars => Once
  <2>1. SUFFICES ASSUME Inv, [Next]_vars, NEW c \in Clients,
                        answer'[c] # answer[c], answer'[c].code = 204
                 PROVE  \E id \in Ids : store[id] # None /\ store'[id] = None
    OBVIOUS
  <2>2. Shape
    BY <2>1 DEF Inv
  <2>3. CASE Restart
    BY <2>1, <2>3 DEF Restart
  <2>4. CASE UNCHANGED vars
    BY <2>1, <2>4 DEF vars
  <2>5. ASSUME NEW o \in Clients, NEW code, NEW body, Answer(o, code, body)
        PROVE  o = c /\ code = 204
    BY <2>1, <2>2, <2>5 DEF Answer, Shape
  <2>6. ASSUME NEW o \in Clients, NEW p \in Posts, Save(o, p)
        PROVE  FALSE
    BY <2>1, <2>5, <2>6 DEF Save, Begin
  <2>7. ASSUME NEW o \in Clients, NEW m \in todo[o],
               SaveComponent(o, m) \/ SaveComponentFails(o, m)
        PROVE  FALSE
    BY <2>1, <2>7 DEF SaveComponent, SaveComponentFails
  <2>8. ASSUME NEW o \in Clients, Saved(o)
        PROVE  FALSE
    BY <2>5, <2>8 DEF Saved, Finish
  <2>9. ASSUME NEW o \in Clients, NEW id \in Ids,
               Get(o, id) \/ GetFails(o, id) \/ DeleteFails(o, id)
        PROVE  FALSE
    BY <2>5, <2>9 DEF Get, GetFails, DeleteFails
  <2>10. ASSUME NEW o \in Clients, NEW id \in Ids, Delete(o, id)
         PROVE  store[id] # None /\ store'[id] = None
    BY <2>2, <2>5, <2>10 DEF Delete, Shape
  <2>11. QED
    BY <2>1, <2>3, <2>4, <2>6, <2>7, <2>8, <2>9, <2>10 DEF Next
<1>2. QED  BY <1>1, InvAlways, PTL DEF Spec, DeleteOnce
=============================================================================
