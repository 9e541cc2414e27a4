---------------------------- MODULE Applications ----------------------------
(***************************************************************************)
(* The applications resource of the REST API: its handlers                 *)
(* (agora/api/applications.go), what they check (model/app_component.go),  *)
(* how they convert (model/converters.go) and what the application store   *)
(* can write (store/apps/app_store.go).  Each request runs in a goroutine  *)
(* of its own; a call on the store takes effect at one moment or fails     *)
(* without one, see KVStore.                                               *)
(*                                                                         *)
(* A name is the sequence of its parts between dashes: "ab-c" is           *)
(* <<"ab", "c">>, and the empty string is <<"">>.  The case of a type is   *)
(* left out: it is read in any case and shown in lower case.               *)
(***************************************************************************)
EXTENDS Sequences, FiniteSets, Integers

CONSTANTS
    Clients,    \* goroutines that serve requests
    Posts,      \* the bodies of POST and PUT: applications with components
    ValidNames, \* names that pass Required, MinSize, MaxSize and AlphaDash
    MaxRequests \* bound: the requests that write

ComponentTypes == {"SERVICE", "TASK", "CRON", "SPARK_JOB"}

(* A string has one part at least, and what a body leaves out is the zero  *)
(* value of its field; of an SLA only whether there is one matters here.   *)
(* A dist_url is the sequence of the names it is made of.                  *)
Strings == Seq(STRING) \ {<<>>}
AppComponent ==
    [name : Strings, version : Strings, type : STRING, active : BOOLEAN,
     distUrl : Seq(Strings), diskSpace : Nat, sla : BOOLEAN]
App == [name : Strings, components : SUBSET AppComponent]

ASSUME PostsAssumption == Posts \subseteq App
ASSUME RequestsAssumption == MaxRequests \in Nat

VARIABLES
    store,      \* the application store: id -> manifest, None when missing
    post,       \* goroutine -> the body it saves
    todo,       \* goroutine -> the manifests it has still to save
    answer,     \* goroutine -> what it has answered last
    requests,   \* how many requests that write were made
    posted,     \* history: the bodies of the requests that were accepted
    touched,    \* history: goroutine -> ids others wrote during its Save
    lost        \* history: goroutine -> the manifests its Save did not store

history == <<posted, touched, lost>>
vars == <<store, post, todo, answer, requests, posted, touched, lost>>

-----------------------------------------------------------------------------
(* Conversion and validation.                                              *)

(* readAppJSON (24-34): the loop that is to name a component after its key *)
(* assigns to a copy, so a component keeps the name of its own body.       *)
Components(p) == p.components

(* validateData (36-61): the tags of App and App.Valid.  The validator     *)
(* does not descend into the map, so nothing of a component is checked.    *)
Valid(p) == p.name \in ValidNames /\ Components(p) # {}

(* A type that is not known becomes the zero value.                        *)
ComponentType(type) == IF type \in ComponentTypes THEN type ELSE "SERVICE"

(* The image in the docker index, by its names.                            *)
DistURL(p, c) == <<p.name, c.name, c.version>>

(* Mutant: the converter sets every field the store requires.              *)
ToCompleteManifest(p, c) ==
    [app |-> p.name, name |-> c.name, version |-> c.version,
     type |-> ComponentType(c.type), active |-> c.active,
     distUrl |-> DistURL(p, c), diskSpace |-> 0, sla |-> c.sla,
     unhealthyAt |-> c.sla]

(* ToAppManifest, for one component: what the body says of dist_url and    *)
(* disk_space is not looked at, and the SLA's unhealthy_at is never set.   *)
ToAppManifest(p, c) ==
    [app |-> p.name, name |-> c.name, version |-> c.version,
     type |-> ComponentType(c.type), active |-> c.active,
     distUrl |-> DistURL(p, c), diskSpace |-> 0, sla |-> c.sla,
     unhealthyAt |-> FALSE]

(* Mutant: the id leaves the version out.                                  *)
IdWithoutVersion(m) == m.app \o m.name

(* strings.Join([app, component, version], "-").                           *)
Id(m) == m.app \o m.name \o m.version

(* FromAppManifest: an application of the one component.                   *)
FromAppManifest(m) ==
    [name |-> m.app,
     components |-> {[key |-> m.name, name |-> m.name, version |-> m.version,
                      type |-> m.type, active |-> m.active,
                      distUrl |-> m.distUrl, diskSpace |-> m.diskSpace,
                      sla |-> m.sla]}]

(* proto.Marshal: ApplicationSLA requires unhealthy_at.                    *)
Marshals(m) == m.sla => m.unhealthyAt

-----------------------------------------------------------------------------
Manifests(p) == {ToAppManifest(p, c) : c \in Components(p)}
AllManifests == UNION {Manifests(p) : p \in Posts}
Ids == {Id(m) : m \in AllManifests}
None == [app |-> <<>>]
NoPost == [name |-> <<>>, components |-> {}]
Shown == {FromAppManifest(m) : m \in AllManifests}

TypeOK ==
    /\ store \in [Ids -> AllManifests \cup {None}]
    /\ post \in [Clients -> Posts \cup {NoPost}]
    /\ \A c \in Clients : todo[c] \subseteq Manifests(post[c])
    /\ posted \subseteq Posts
    /\ \A c \in Clients : touched[c] \subseteq Ids
    /\ \A c \in Clients : lost[c] \subseteq Manifests(post[c])
    /\ \A c \in Clients :
          /\ answer[c].code \in {0, 200, 204, 404, 422, 500}
          /\ answer[c].body \in Shown \cup {NoPost}
    /\ requests \in 0..MaxRequests

Answer(c, code, body) ==
    answer' = [answer EXCEPT ![c] = [code |-> code, body |-> body]]

Idle(c) == post[c] = NoPost

Init ==
    /\ store = [id \in Ids |-> None]
    /\ post = [c \in Clients |-> NoPost]
    /\ todo = [c \in Clients |-> {}]
    /\ answer = [c \in Clients |-> [code |-> 0, body |-> NoPost]]
    /\ requests = 0
    /\ posted = {}
    /\ touched = [c \in Clients |-> {}]
    /\ lost = [c \in Clients |-> {}]

Touch(c, id) ==
    touched' = [o \in Clients |->
                   IF o # c /\ ~Idle(o) THEN touched[o] \cup {id}
                   ELSE touched[o]]

Input == requests < MaxRequests /\ requests' = requests + 1

-----------------------------------------------------------------------------
(* Save (118-142), one AppStore.Save for each component, in any order (the *)
(* components are a map).                                                  *)

Begin(c, p) ==
    /\ post' = [post EXCEPT ![c] = p]
    /\ todo' = [todo EXCEPT ![c] = Manifests(p)]
    /\ UNCHANGED <<answer, touched, lost>>

(* Mutant: the handler goes on after validateData has answered 422.        *)
SaveUnchecked(c, p) ==
    /\ Idle(c)
    /\ Input
    /\ Begin(c, p)
    /\ posted' = posted \cup {b \in {p} : Valid(b)}
    /\ UNCHANGED store

Save(c, p) ==
    /\ Idle(c)
    /\ Input
    /\ IF Valid(p)
       THEN Begin(c, p) /\ posted' = posted \cup {p}
       ELSE Answer(c, 422, NoPost) /\ UNCHANGED <<post, todo, history>>
    /\ UNCHANGED store

SaveComponent(c, m) ==
    /\ m \in todo[c]
    /\ Marshals(m)
    /\ store' = [store EXCEPT ![Id(m)] = m]
    /\ Touch(c, Id(m))
    /\ todo' = [todo EXCEPT ![c] = @ \ {m}]
    /\ UNCHANGED <<post, answer, requests, posted, lost>>

(* AppStore.Save returns an error: of Marshal, or whatever the store fails *)
(* with, which it can at any call.  The handler does not look at it.       *)
SaveComponentFails(c, m) ==
    /\ m \in todo[c]
    /\ todo' = [todo EXCEPT ![c] = @ \ {m}]
    /\ lost' = [lost EXCEPT ![c] = @ \cup {m}]
    /\ UNCHANGED <<store, post, answer, requests, posted, touched>>

(* The end of Save forgets what it was about.                              *)
Finish(c) ==
    /\ Answer(c, 200, NoPost)
    /\ post' = [post EXCEPT ![c] = NoPost]
    /\ todo' = [todo EXCEPT ![c] = {}]
    /\ touched' = [touched EXCEPT ![c] = {}]
    /\ lost' = [lost EXCEPT ![c] = {}]
    /\ UNCHANGED <<store, requests, posted>>

(* Mutant: the loop ends after the first component.                        *)
SavedFirst(c) == ~Idle(c) /\ todo[c] # Manifests(post[c]) /\ Finish(c)

(* 200, and the body that was posted (left out here), not what is stored.  *)
Saved(c) == ~Idle(c) /\ todo[c] = {} /\ Finish(c)

(* Mutant: a missing application is deleted like any other.                *)
DeleteIdempotent(c, id) ==
    /\ Idle(c)
    /\ Input
    /\ store' = [store EXCEPT ![id] = None]
    /\ Answer(c, 204, NoPost)
    /\ Touch(c, id)
    /\ UNCHANGED <<post, todo, posted, lost>>

(* Delete (145-154).                                                       *)
Delete(c, id) ==
    /\ Idle(c)
    /\ Input
    /\ store[id] # None
    /\ store' = [store EXCEPT ![id] = None]
    /\ Answer(c, 204, NoPost)
    /\ Touch(c, id)
    /\ UNCHANGED <<post, todo, posted, lost>>

(* The store that New wires deletes a key that is missing with an error    *)
(* (mdb_store.go 84-95), and may fail otherwise.                           *)
DeleteFails(c, id) ==
    /\ Idle(c)
    /\ Input
    /\ Answer(c, 500, NoPost)
    /\ UNCHANGED <<store, post, todo, history>>

(* ShowOne (97-115) and Deploy (158-177) answer with what the store holds; *)
(* Deploy submits it as well, see TaskManager, and answers 202.            *)
Get(c, id) ==
    /\ Idle(c)
    /\ IF store[id] = None
       THEN Answer(c, 404, NoPost)
       ELSE Answer(c, 200, FromAppManifest(store[id]))
    /\ UNCHANGED <<store, post, todo, requests, history>>

GetFails(c, id) ==
    /\ Idle(c)
    /\ Answer(c, 500, NoPost)
    /\ UNCHANGED <<store, post, todo, requests, history>>

(* The process dies and starts again: only the store survives.             *)
Restart ==
    /\ Input
    /\ post' = [c \in Clients |-> NoPost]
    /\ todo' = [c \in Clients |-> {}]
    /\ answer' = [c \in Clients |-> [code |-> 0, body |-> NoPost]]
    /\ touched' = [c \in Clients |-> {}]
    /\ lost' = [c \in Clients |-> {}]
    /\ UNCHANGED <<store, posted>>

Next ==
    \/ \E c \in Clients :
          \/ \E p \in Posts : Save(c, p)
          \/ \E m \in todo[c] : SaveComponent(c, m) \/ SaveComponentFails(c, m)
          \/ Saved(c)
          \/ \E id \in Ids :
                \/ Delete(c, id) \/ DeleteFails(c, id)
                \/ Get(c, id) \/ GetFails(c, id)
    \/ Restart

Spec == Init /\ [][Next]_vars

-----------------------------------------------------------------------------
(* What a component is: the application, its name and its version.         *)
Component(m) == <<m.app, m.name, m.version>>

(* What the store holds for m is one of the components of body p with its  *)
(* id.                                                                     *)
IsStored(p, m) == store[Id(m)] \in {x \in Manifests(p) : Id(x) = Id(m)}

(* All that 200 from Save (118-142) is worth: a component is stored unless *)
(* AppStore.Save returned an error for it, which line 137 drops, or        *)
(* another request has written under its id meanwhile.  It is not that the *)
(* component is stored: any failure of the store is answered with 200 too. *)
SavedIsStored ==
    [][\A c \in Clients : ~Idle(c) /\ Idle(c)' /\ answer'[c].code = 200
          => \A m \in Manifests(post[c]) :
                m \notin lost[c] /\ Id(m) \notin touched[c]
                    => IsStored(post[c], m)]_vars

(* An application with an SLA is accepted (200) and never stored: its      *)
(* manifest lacks a field the protocol requires, Marshal fails, and Save   *)
(* (136-138) ignores the error.  No task of an application that comes in   *)
(* over the API is ever health checked or kept at a number of instances.   *)
NoSlaIsStored == \A id \in Ids : store[id] # None => ~store[id].sla

(* The id of a component (ToAppManifest) tells components apart only while *)
(* names have no dash, though AlphaDash admits it: a component is replaced *)
(* by another one only when a name of one of the two has a dash.           *)
OverwriteNeedsDash ==
    [][\A id \in Ids :
          LET m == store[id]  x == store'[id]
          IN  m # None /\ x # None /\ Component(m) # Component(x)
                => \E n \in {m.app, m.name, m.version, x.app, x.name,
                             x.version} : Len(n) > 1]_vars

(* Delete answers 204 only when it has deleted something, and 500 for an   *)
(* application that is not there: of concurrent deletes of an application  *)
(* (Delete, 145-154) one answers 204.                                      *)
DeleteOnce ==
    [][\A c \in Clients : answer'[c] # answer[c] /\ answer'[c].code = 204
          => \E id \in Ids : store[id] # None /\ store'[id] = None]_vars

(* What ShowOne and Deploy answer with, after any failures, overwrites,    *)
(* deletes and restarts, is a component of a body that an earlier request  *)
(* posted and validateData let pass, as it was posted but for these        *)
(* changes of the converters: a type that is not known has become SERVICE, *)
(* dist_url is the one of the docker index (converters.go 133), disk_space *)
(* is 0 (140) and the key is the name.                                     *)
ShownWasPosted ==
    \A c \in Clients : answer[c].body # NoPost =>
        \E p \in posted :
            /\ p.name = answer[c].body.name
            /\ \A d \in answer[c].body.components :
                 \E x \in Components(p) :
                    /\ <<d.name, d.version, d.active, d.sla>>
                          = <<x.name, x.version, x.active, x.sla>>
                    /\ \/ d.type = x.type
                       \/ d.type = "SERVICE" /\ x.type \notin ComponentTypes
                    /\ d.distUrl = <<p.name, x.name, x.version>>
                    /\ d.diskSpace = 0
                    /\ d.key = x.name

=============================================================================
