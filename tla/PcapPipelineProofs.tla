-------------------------- MODULE PcapPipelineProofs --------------------------
(***************************************************************************)
(* Proofs about PcapPipeline, for any uploads of any names and kinds, and  *)
(* any kills, restarts and failed writes: its types, that no upload is     *)
(* forgotten on its way, and that no processor runs on a capture twice.    *)
(* Of an upload whose names no other upload has, what the monitor finds    *)
(* under its name is still what it has inspected (Held), and there is one  *)
(* chance to file it, one to announce it and one to run on it (Once).  Of  *)
(* any upload that is filed, the publisher has yet to tell each processor, *)
(* or has told it, or another upload answers for it in the index (Tells).  *)
(***************************************************************************)
EXTENDS PcapPipeline, SequenceTheorems, TLAPS

Working == {"open", "check", "delete", "move", "unpack", "place", "remove", "hand on", "copy", "unlink"}
Inspected == Working \ {"open"}

\* Files are where their uploads' names say.
Places ==
  /\ \A n \in Names : upload[n] # None => upload[n] \in sent /\ is[upload[n]].name = n
  /\ \A n \in Names : processed[n] # None =>
       LET u == processed[n].of IN
       /\ u \in sent /\ n \in NamesOf(u)
       /\ Shared(u) \/ (n = Target(u) /\ processed[n].kind = "capture")

\* The monitor goes the way of the kind it has inspected.
Held ==
  /\ mon.at \in Working => mon.name \in Names
  /\ mon.at \in Inspected => mon.held \in sent /\ is[mon.held].name = mon.name
  /\ mon.at = "delete" => is[mon.held].kind = "other"
  /\ mon.at = "move" => is[mon.held].kind = "capture"
  /\ mon.at = "unpack" => is[mon.held].kind \in {"packed", "broken"}
  /\ mon.at \in {"place", "remove"} => is[mon.held].kind = "packed"
  /\ mon.at = "remove" => IsFiled(mon.held) \/ Shared(mon.held)
  /\ mon.at = "hand on" => is[mon.held].kind = "archive" \/ upload[mon.name] # mon.held
  /\ mon.at \in {"copy", "unlink"} => is[mon.held].kind = "archive" \/ Shared(mon.held)
  /\ mon.at = "copy" /\ upload[mon.name] # mon.held => mon.name \in seen
  /\ mon.at = "unlink" => mon.held \in zeek

\* What UploadsAreKept says of captures and archives.
OnItsWay ==
  \A u \in sent : is[u].kind \in {"capture", "packed", "archive"} =>
    InUpload(u) \/ Arrived(u) \/ Shared(u) \/ u \in lost

\* The publisher tells of a name.
Told == pub.at = "announce" => pub.name \in Names /\ pub.held \in Uploads

IInv == TypeOK /\ Places /\ Held /\ Told /\ OnItsWay

-----------------------------------------------------------------------------
LEMMA InitOK == Init => IInv
<1> SUFFICES ASSUME Init PROVE IInv
  OBVIOUS
<1> USE PcapPipelineAssumption
<1>1. TypeOK
  BY DEF Init, TypeOK, Idle, Entries, Processors
<1>2. Places /\ Held /\ Told /\ OnItsWay
  BY DEF Init, Places, Held, Told, OnItsWay, Idle, Working, Inspected
<1> QED BY <1>1, <1>2 DEF IInv

LEMMA ToldKept == ASSUME IInv, UNCHANGED pub PROVE Told'
BY DEF IInv, Told

\* Two uploads of one name share it.
LEMMA SameName ==
  ASSUME NEW u \in Uploads, NEW v \in Uploads, u # v, NEW n, n \in NamesOf(u), n \in NamesOf(v)
  PROVE  Shared(u) /\ Shared(v)
BY DEF Shared

LEMMA WayIs ==
  ASSUME NEW k \in Kinds
  PROVE  /\ Way(k) \in {"delete", "move", "unpack", "hand on"}
         /\ Way(k) = "delete" <=> k = "other"
         /\ Way(k) = "move" <=> k = "capture"
         /\ Way(k) = "unpack" <=> k \in {"packed", "broken"}
         /\ Way(k) = "hand on" <=> k = "archive"
BY DEF Way, Kinds

-----------------------------------------------------------------------------
LEMMA PutOK == ASSUME IInv, NEW u \in Uploads, Put(u) PROVE IInv'
<1> USE PcapPipelineAssumption DEF Put, behind, pubVars, workVars
<1>1. TypeOK /\ is[u] \in Upload /\ is[u].name \in Names
  BY DEF IInv, TypeOK, Upload
<1>2. TypeOK'
  BY <1>1 DEF TypeOK, Entries
<1>3. \A n \in Names : upload'[n] = IF n = is[u].name THEN u ELSE upload[n]
  BY <1>1 DEF TypeOK
<1>4. Places'
  BY <1>1, <1>3 DEF IInv, Places, NamesOf, Target, Shared
<1>5. Held'
  <2>1. UNCHANGED <<is, mon, processed, zeek>> /\ sent \subseteq sent'
    OBVIOUS
  <2>2. \A v : IsFiled(v)' = IsFiled(v) /\ Shared(v)' = Shared(v)
    BY <2>1 DEF IsFiled, Target, Shared, NamesOf
  <2>3. mon.at \in Inspected => is[mon.held].name = mon.name /\ mon.name \in Names
    BY DEF IInv, Held, Inspected, Working
  <2>4. mon.at = "hand on" /\ upload[mon.name] # mon.held => upload'[mon.name] # mon.held
    BY <1>1, <1>3, <2>3 DEF IInv, Held, Inspected, Working
  <2>5. mon.at = "copy" /\ upload'[mon.name] # mon.held => mon.name \in seen'
    <3>1. mon.at = "copy" => mon.at \in Inspected /\ mon.at # "down"
      BY DEF Inspected, Working
    <3> QED BY <1>1, <1>3, <2>3, <3>1 DEF IInv, Held
  <2> QED BY <2>1, <2>2, <2>4, <2>5 DEF IInv, Held
<1>6. OnItsWay'
  <2> SUFFICES ASSUME NEW v \in sent', is[v].kind \in {"capture", "packed", "archive"}
               PROVE  InUpload(v)' \/ Arrived(v)' \/ Shared(v)' \/ v \in lost'
    BY DEF OnItsWay
  <2>1. CASE v = u
    BY <2>1, <1>1, <1>3 DEF InUpload
  <2>2. CASE v # u
    <3>1. v \in sent /\ v \in Uploads
      BY <2>2, <1>1 DEF TypeOK
    <3>2. InUpload(v) \/ Arrived(v) \/ Shared(v) \/ v \in lost
      BY <3>1 DEF IInv, OnItsWay
    <3>3. CASE InUpload(v)
      <4>1. is[v].name \in Names
        BY <3>1, <1>1 DEF TypeOK, Upload
      <4>2. CASE is[v].name = is[u].name
        BY <4>2, <2>2, <3>1, SameName DEF NamesOf, Shared
      <4>3. CASE is[v].name # is[u].name
        BY <4>1, <4>3, <3>3, <1>3 DEF InUpload
      <4> QED BY <4>2, <4>3
    <3>4. CASE Arrived(v)
      BY <3>4 DEF Arrived, IsFiled, Target
    <3> QED BY <3>2, <3>3, <3>4 DEF Shared, NamesOf
  <2> QED BY <2>1, <2>2
<1> QED BY <1>2, <1>4, <1>5, <1>6, ToldKept DEF IInv

-----------------------------------------------------------------------------
(* The monitor.                                                            *)

\* What a step may remove from upload/ without an upload getting lost.
Dispensable(u) ==
  is[u].kind \in {"capture", "packed", "archive"} =>
    Arrived(u)' \/ Shared(u) \/ u \in lost'

LEMMA RemovedOK ==
  ASSUME IInv, mon.name \in Names, UNCHANGED users, upload' = Taken(mon.name),
         zeek \subseteq zeek', lost \subseteq lost',
         \A v \in sent : IsFiled(v) => IsFiled(v)' \/ Shared(v),
         \A u \in Uploads : u = upload[mon.name] => Dispensable(u)
  PROVE  OnItsWay'
<1> USE DEF users
<1> SUFFICES ASSUME NEW v \in sent', is[v].kind \in {"capture", "packed", "archive"}
             PROVE  InUpload(v)' \/ Arrived(v)' \/ Shared(v)' \/ v \in lost'
  BY DEF OnItsWay
<1>1. /\ v \in sent /\ v # None /\ Shared(v)' = Shared(v)
      /\ upload \in [Names -> Entries] /\ is[v].name \in Names
  BY PcapPipelineAssumption DEF IInv, TypeOK, Shared, NamesOf, Upload
<1>2. InUpload(v) \/ Arrived(v) \/ Shared(v) \/ v \in lost
  BY <1>1 DEF IInv, OnItsWay
<1>3. CASE InUpload(v)
  <2>1. CASE is[v].name = mon.name
    BY <1>1, <1>3, <2>1 DEF InUpload, Dispensable, IInv, TypeOK
  <2>2. CASE is[v].name # mon.name
    BY <1>1, <1>3, <2>2 DEF InUpload, Taken
  <2> QED BY <2>1, <2>2
<1>4. CASE Arrived(v)
  BY <1>1, <1>4 DEF Arrived
<1> QED BY <1>1, <1>2, <1>3, <1>4

\* Steps that file nothing.
LEMMA PlacesKept ==
  ASSUME IInv, UNCHANGED <<users, processed>>,
         upload' = upload \/ (mon.name \in Names /\ upload' = Taken(mon.name))
  PROVE  Places'
<1>1. is' = is /\ sent' = sent /\ processed' = processed /\ Places
  BY DEF IInv, users
<1>2. \A n \in Names : upload'[n] = upload[n] \/ upload'[n] = None
  BY DEF IInv, TypeOK, Taken
<1>3. \A n \in Names : upload'[n] # None => upload'[n] \in sent /\ is[upload'[n]].name = n
  BY <1>1, <1>2 DEF Places
<1> QED BY <1>1, <1>3 DEF Places, NamesOf, Shared, Target

\* Nobody else's file is under a name that is not shared.
LEMMA Mine ==
  ASSUME IInv, mon.at \in Inspected
  PROVE  /\ mon.name \in Names /\ mon.held \in Uploads /\ mon.held # None
         /\ is[mon.held] \in Upload /\ is[mon.held].name = mon.name
         /\ upload[mon.name] \notin {None, mon.held} =>
              /\ upload[mon.name] \in Uploads /\ is[upload[mon.name]] \in Upload
              /\ Shared(upload[mon.name]) /\ Shared(mon.held)
<1>1. /\ mon.name \in Names /\ mon.held \in Uploads
      /\ is[mon.held] \in Upload /\ is[mon.held].name = mon.name
  BY DEF IInv, TypeOK, Held, Working, Inspected
<1>2. ASSUME upload[mon.name] \notin {None, mon.held}
      PROVE  /\ upload[mon.name] \in Uploads /\ is[upload[mon.name]] \in Upload
             /\ Shared(upload[mon.name]) /\ Shared(mon.held)
  <2>1. /\ upload[mon.name] \in Uploads /\ is[upload[mon.name]].name = mon.name
        /\ is[upload[mon.name]] \in Upload
    BY <1>1, <1>2 DEF IInv, TypeOK, Entries, Places
  <2> QED BY <1>1, <1>2, <2>1, SameName DEF NamesOf
<1> QED BY <1>1, <1>2, PcapPipelineAssumption

MonOK ==
  mon \in [at : {"idle", "down", "open", "check", "delete", "move", "unpack",
                "place", "remove", "hand on", "copy", "unlink"},
          name : Names \cup {None}, held : Entries]

\* What the monitor is set to do next is of its type.
LEMMA DoingOK ==
  ASSUME NEW what \in {"idle", "down", "open", "check", "delete", "move", "unpack",
                       "place", "remove", "hand on", "copy", "unlink"},
         NEW n \in Names \cup {None}, NEW h \in Entries
  PROVE  /\ mon' = Doing(what, n, h) => MonOK' /\ mon'.at = what /\ mon'.name = n /\ mon'.held = h
         /\ mon' = Idle => MonOK' /\ mon'.at = "idle"
<1>1. ASSUME mon' = Doing(what, n, h)
      PROVE  MonOK' /\ mon'.at = what /\ mon'.name = n /\ mon'.held = h
  BY <1>1 DEF Doing, MonOK
<1>2. ASSUME mon' = Idle PROVE MonOK' /\ mon'.at = "idle"
  BY <1>2 DEF Idle, MonOK, Entries
<1> QED BY <1>1, <1>2

LEMMA TakeUpOK ==
  ASSUME IInv, Inspect \/ StartMonitor \/ \E n \in Names : HandOver(n)
  PROVE  IInv'
<1> USE PcapPipelineAssumption DEF users, behind, pubVars, workVars
<1>1. /\ UNCHANGED <<is, sent, upload, zeek, torn, lost, stranded, behind, faults>>
      /\ seen' \subseteq seen
  BY DEF Inspect, StartMonitor, HandOver
<1>2. \/ mon' = Idle
      \/ \E n \in Names : mon' = Doing("open", n, None)
      \/ mon.at = "open" /\ upload[mon.name] # None /\ mon' = Doing("check", mon.name, upload[mon.name])
  BY DEF Inspect, StartMonitor, HandOver
<1>3. mon.at = "open" /\ upload[mon.name] # None =>
        mon.name \in Names /\ upload[mon.name] \in sent /\ is[upload[mon.name]].name = mon.name
  BY DEF IInv, Held, Working, Places
<1>4. MonOK' /\ Held'
  <2>1. CASE mon' = Idle
    BY <2>1, DoingOK DEF Held, Working, Inspected, Entries
  <2>2. ASSUME NEW n \in Names, mon' = Doing("open", n, None) PROVE MonOK' /\ Held'
    BY <2>2, DoingOK DEF Held, Working, Inspected, Entries
  <2>3. CASE mon.at = "open" /\ upload[mon.name] # None /\ mon' = Doing("check", mon.name, upload[mon.name])
    <3>1. upload[mon.name] \in Entries
      BY <2>3, <1>3 DEF IInv, TypeOK
    <3>2. /\ MonOK' /\ mon'.at = "check" /\ mon'.name = mon.name
          /\ mon'.held = upload[mon.name]
      BY <2>3, <3>1, <1>3 DEF Doing, MonOK
    <3> QED BY <2>3, <3>2, <1>1, <1>3 DEF Held, Working, Inspected
  <2> QED BY <1>2, <2>1, <2>2, <2>3
<1>5. TypeOK'
  BY <1>1, <1>4 DEF IInv, TypeOK, MonOK
<1>6. Places' /\ OnItsWay'
  BY <1>1 DEF IInv, Places, OnItsWay, InUpload, Arrived, IsFiled, Target, Shared, NamesOf
<1> QED BY <1>1, <1>4, <1>5, <1>6, ToldKept DEF IInv

LEMMA CheckOK == ASSUME IInv, Check PROVE IInv'
<1> USE PcapPipelineAssumption DEF users, behind, pubVars, workVars
<1>1. /\ mon.at \in Inspected /\ is[mon.held].kind \in Kinds /\ mon.name \in Names
      /\ mon.held \in sent /\ mon.held \in Entries /\ is[mon.held].name = mon.name
  BY Mine DEF Check, Inspected, Working, Upload, IInv, Held, Entries
<1>2. UNCHANGED <<is, sent, zeek, processed, torn, lost, seen, stranded, behind, faults>>
  BY DEF Check
<1>3. CASE upload[mon.name] = mon.held
  <2>1. mon' = Doing(Way(is[mon.held].kind), mon.name, mon.held) /\ UNCHANGED upload
    BY <1>3 DEF Check
  <2>2. /\ MonOK' /\ mon'.at = Way(is[mon.held].kind) /\ mon'.name = mon.name
        /\ mon'.held = mon.held
    <3>1. Way(is[mon.held].kind) \in {"delete", "move", "unpack", "hand on"}
      BY <1>1, WayIs
    <3> QED BY <1>1, <2>1, <3>1, DoingOK
  <2>3. Held'
    BY <1>1, <1>2, <2>1, <2>2, WayIs DEF Held, Working, Inspected
  <2>4. TypeOK'
    BY <1>2, <2>1, <2>2 DEF IInv, TypeOK, MonOK
  <2>5. Places' /\ OnItsWay'
    BY <1>2, <2>1 DEF IInv, Places, OnItsWay, InUpload, Arrived, IsFiled, Target, Shared, NamesOf
  <2> QED BY <1>2, <2>3, <2>4, <2>5, ToldKept DEF IInv
<1>4. CASE upload[mon.name] # mon.held
  <2>1. mon' = Idle /\ upload' = Taken(mon.name)
    BY <1>4 DEF Check
  <2>2. \A u \in Uploads : u = upload[mon.name] => Dispensable(u)
    BY <1>1, <1>4, Mine DEF Dispensable
  <2>3. OnItsWay' /\ Places'
    BY <1>1, <1>2, <2>1, <2>2, RemovedOK, PlacesKept DEF IsFiled, Target
  <2>4. MonOK' /\ Held'
    BY <2>1, DoingOK DEF Held, Working, Inspected, Entries
  <2>5. TypeOK'
    BY <1>1, <1>2, <2>1, <2>4 DEF IInv, TypeOK, MonOK, Taken, Entries
  <2> QED BY <1>2, <2>3, <2>4, <2>5, ToldKept DEF IInv
<1> QED BY <1>3, <1>4

\* Steps that remove the entry and are done with it.
LEMMA DoneOK ==
  ASSUME IInv, mon.name \in Names, UNCHANGED <<users, seen, behind, torn, stranded>>,
         faults' \in 0..MaxFaults, zeek \subseteq zeek', zeek' \subseteq Uploads,
         lost \subseteq lost', lost' \subseteq Uploads,
         mon' = Idle, upload' = Taken(mon.name),
         \A u \in Uploads : u = upload[mon.name] => Dispensable(u)
  PROVE  IInv'
<1> USE PcapPipelineAssumption DEF users, behind, pubVars, workVars
<1>1. OnItsWay' /\ Places'
  BY RemovedOK, PlacesKept DEF IsFiled, Target
<1>2. MonOK' /\ Held'
  BY DoingOK DEF Held, Working, Inspected, Entries
<1>3. TypeOK'
  BY <1>2 DEF IInv, TypeOK, MonOK, Taken, Entries
<1> QED BY <1>1, <1>2, <1>3, ToldKept DEF IInv

LEMMA DeleteOK == ASSUME IInv, Delete PROVE IInv'
<1>1. mon.at = "delete" /\ mon.at \in Inspected /\ is[mon.held].kind = "other"
  BY DEF Delete, Inspected, Working, IInv, Held
<1>2. ASSUME NEW u \in Uploads, u = upload[mon.name] PROVE Dispensable(u)
  <2>1. CASE u = mon.held
    BY <1>1, <2>1 DEF Dispensable
  <2>2. CASE u # mon.held
    BY <1>1, <1>2, <2>2, Mine, PcapPipelineAssumption DEF Dispensable
  <2> QED BY <2>1, <2>2
<1> QED BY <1>1, <1>2, Mine, DoneOK DEF Delete, users, IInv, TypeOK

LEMMA RemoveOK == ASSUME IInv, Remove PROVE IInv'
<1>1. /\ mon.at = "remove" /\ mon.at \in Inspected /\ is[mon.held].kind = "packed"
      /\ IsFiled(mon.held) \/ Shared(mon.held)
  BY DEF Remove, Inspected, Working, IInv, Held
<1>2. UNCHANGED <<is, sent, processed>>
  BY DEF Remove, users, behind
<1>3. ASSUME NEW u \in Uploads, u = upload[mon.name] PROVE Dispensable(u)
  <2>1. CASE u = mon.held /\ IsFiled(u)
    BY <1>1, <1>2, <2>1 DEF Dispensable, Arrived, IsFiled, Target
  <2>2. CASE u # mon.held \/ Shared(u)
    BY <1>1, <1>3, <2>2, Mine, PcapPipelineAssumption DEF Dispensable
  <2> QED BY <1>1, <2>1, <2>2
<1> QED BY <1>1, <1>3, Mine, DoneOK DEF Remove, users, IInv, TypeOK

LEMMA FaultOK == ASSUME IInv, Fault PROVE faults' \in 0..MaxFaults
<1>1. faults \in 0..MaxFaults /\ faults < MaxFaults /\ faults' = faults + 1
  BY DEF IInv, TypeOK, Fault
<1> QED BY <1>1, PcapPipelineAssumption

LEMMA WriteFailsOK == ASSUME IInv, WriteFails PROVE IInv'
<1>1. mon.at \in Inspected /\ upload[mon.name] \in Entries
  BY Mine DEF WriteFails, Inspected, Working, IInv, TypeOK
<1>2. \A u \in Uploads : u = upload[mon.name] => Dispensable(u)
  BY PcapPipelineAssumption DEF WriteFails, Dispensable
<1>3. faults' \in 0..MaxFaults
  <2>1. WriteFails => Fault
    BY DEF WriteFails
  <2> QED BY <2>1, FaultOK
<1> QED BY <1>1, <1>2, <1>3, Mine, DoneOK DEF WriteFails, users, IInv, TypeOK, Entries

\* Steps that change neither directory.
LEMMA KeepsOK ==
  ASSUME IInv, UNCHANGED <<users, upload, seen, lost, stranded, behind>>,
         zeek \subseteq zeek', zeek' \subseteq Uploads, torn' \subseteq Uploads,
         faults' \in 0..MaxFaults, MonOK', Held'
  PROVE  IInv'
<1> USE DEF users, behind, pubVars, workVars
<1>1. TypeOK'
  BY DEF IInv, TypeOK, MonOK
<1>2. Places' /\ OnItsWay'
  BY DEF IInv, Places, OnItsWay, InUpload, Arrived, IsFiled, Target, Shared, NamesOf
<1> QED BY <1>1, <1>2, ToldKept DEF IInv

LEMMA HandOnOK == ASSUME IInv, HandOn PROVE IInv'
<1>1. /\ mon.at = "hand on" /\ mon.at \in Inspected /\ mon.name \in Names
      /\ upload[mon.name] \in Entries
      /\ is[mon.held].kind = "archive" \/ upload[mon.name] # mon.held
  BY Mine DEF HandOn, Inspected, Working, IInv, TypeOK, Held
<1>2. UNCHANGED <<users, upload, seen, zeek, torn, lost, stranded, behind, faults>>
  BY DEF HandOn
<1>3. MonOK' /\ Held'
  <2>1. CASE mon' = Idle
    BY <2>1, DoingOK DEF Held, Working, Inspected, Entries
  <2>2. CASE upload[mon.name] # None /\ mon' = Doing("copy", mon.name, upload[mon.name])
    <3>1. /\ MonOK' /\ mon'.at = "copy" /\ mon'.name = mon.name
          /\ mon'.held = upload[mon.name]
      BY <1>1, <2>2, DoingOK
    <3>2. PICK u \in Uploads : u = upload[mon.name]
      BY <1>1, <2>2 DEF Entries
    <3>3. u \in sent /\ is[u].name = mon.name
      BY <1>1, <2>2, <3>2 DEF IInv, Places
    <3>4. is[u].kind = "archive" \/ Shared(u)
      BY <1>1, <2>2, <3>2, Mine
    <3>5. Shared(u) => Shared(mon.held)'
      BY <1>2, <3>1, <3>2 DEF Shared, NamesOf, users
    <3> QED BY <1>1, <1>2, <3>1, <3>2, <3>3, <3>4, <3>5 DEF Held, Working, Inspected, users
  <2> QED BY <2>1, <2>2 DEF HandOn
<1> QED BY <1>2, <1>3, KeepsOK DEF IInv, TypeOK

LEMMA CopiedOK == ASSUME IInv, Copied PROVE IInv'
<1>1. /\ mon.at = "copy" /\ mon.at \in Inspected /\ mon.name \in Names
      /\ mon.held \in Uploads /\ mon.held \in Entries /\ mon.held \in sent
      /\ is[mon.held].name = mon.name
      /\ is[mon.held].kind = "archive" \/ Shared(mon.held)
  BY Mine DEF Copied, Inspected, Working, IInv, Held, Entries
<1>2. /\ UNCHANGED <<users, upload, seen, torn, lost, stranded, behind, faults>>
      /\ zeek' = zeek \cup {mon.held} /\ mon' = Doing("unlink", mon.name, mon.held)
  BY DEF Copied
<1>3. MonOK' /\ mon'.at = "unlink" /\ mon'.name = mon.name /\ mon'.held = mon.held
  BY <1>1, <1>2, DoingOK
<1>4. Shared(mon.held) => Shared(mon.held)'
  BY <1>2, <1>3 DEF Shared, NamesOf, users
<1>5. Held'
  BY <1>1, <1>2, <1>3, <1>4 DEF Held, Working, Inspected, users
<1> QED BY <1>1, <1>2, <1>3, <1>5, KeepsOK DEF IInv, TypeOK

LEMMA UnlinkOK == ASSUME IInv, Unlink PROVE IInv'
<1>1. /\ mon.at = "unlink" /\ mon.at \in Inspected /\ mon.held \in zeek
      /\ is[mon.held].kind = "archive" \/ Shared(mon.held)
  BY DEF Unlink, Inspected, Working, IInv, Held
<1>2. UNCHANGED <<is, zeek>>
  BY DEF Unlink, users
<1>3. ASSUME NEW u \in Uploads, u = upload[mon.name] PROVE Dispensable(u)
  <2>1. CASE u = mon.held
    BY <1>1, <1>2, <2>1 DEF Dispensable, Arrived
  <2>2. CASE u # mon.held
    BY <1>1, <1>3, <2>2, Mine, PcapPipelineAssumption DEF Dispensable
  <2> QED BY <2>1, <2>2
<1> QED BY <1>1, <1>3, Mine, DoneOK DEF Unlink, users, IInv, TypeOK

LEMMA CopyFailsOK == ASSUME IInv, CopyFails PROVE IInv'
<1>1. /\ mon.at \in Inspected /\ mon.held \in Uploads
  BY Mine DEF CopyFails, Inspected, Working
<1>2. /\ UNCHANGED <<users, upload, seen, zeek, lost, stranded, behind>>
      /\ mon' = Idle /\ Fault /\ torn' = torn \cup {mon.held}
  BY DEF CopyFails
<1>3. MonOK' /\ Held'
  BY <1>2, DoingOK DEF Held, Working, Inspected, Entries
<1> QED BY <1>1, <1>2, <1>3, FaultOK, KeepsOK DEF IInv, TypeOK

LEMMA UnpackOK == ASSUME IInv, Unpack PROVE IInv'
<1> USE PcapPipelineAssumption DEF users, behind, pubVars, workVars
<1>1. /\ mon.at \in Inspected /\ upload[mon.name] \in Entries
      /\ mon.held \in sent /\ mon.held \in Entries /\ mon.name \in Names
      /\ is[mon.held].name = mon.name /\ is[mon.held].kind \in {"packed", "broken"}
  BY Mine DEF Unpack, Inspected, Working, IInv, Held, TypeOK, Entries
<1>2. UNCHANGED <<is, sent, zeek, processed, torn, lost, seen, stranded, behind, faults>>
  BY DEF Unpack
<1>3. CASE mon' = Idle /\ upload' = Taken(mon.name)
  <2>1. \/ upload[mon.name] # None /\ is[upload[mon.name]].kind = "broken"
        \/ mon' = Doing("hand on", mon.name, mon.held)
        \/ mon' = Doing("place", mon.name, upload[mon.name])
    BY DEF Unpack
  <2>2. is[upload[mon.name]].kind = "broken"
    BY <1>3, <2>1 DEF Idle, Doing
  <2>3. \A u \in Uploads : u = upload[mon.name] => Dispensable(u)
    BY <2>2 DEF Dispensable
  <2> QED BY <1>1, <1>2, <1>3, <2>3, DoneOK DEF IInv, TypeOK
<1> DEFINE Kept == UNCHANGED <<is, sent, upload, processed, zeek, lost>>
<1>6. Kept => Places' /\ OnItsWay'
  BY DEF IInv, Places, OnItsWay, InUpload, Arrived, IsFiled, Target, Shared, NamesOf
<1>4. CASE /\ upload[mon.name] = None \/ is[upload[mon.name]].kind \notin {"packed", "broken"}
           /\ mon' = Doing("hand on", mon.name, mon.held) /\ UNCHANGED upload
  <2>1. MonOK' /\ mon'.at = "hand on" /\ mon'.name = mon.name /\ mon'.held = mon.held
    BY <1>1, <1>4, DoingOK
  <2>2. TypeOK'
    BY <1>2, <1>4, <2>1 DEF IInv, TypeOK, MonOK
  <2>5. upload[mon.name] # mon.held
    BY <1>1, <1>4 DEF IInv, TypeOK
  <2>4. Held'
    BY <1>1, <1>2, <1>4, <2>1, <2>5 DEF Held, Working, Inspected
  <2>3. Places' /\ OnItsWay'
    BY <1>2, <1>4, <1>6
  <2> QED BY <1>2, <2>2, <2>3, <2>4, ToldKept DEF IInv
<1>5. CASE /\ upload[mon.name] # None /\ is[upload[mon.name]].kind = "packed"
           /\ mon' = Doing("place", mon.name, upload[mon.name]) /\ UNCHANGED upload
  <2>1. MonOK' /\ mon'.at = "place" /\ mon'.name = mon.name /\ mon'.held = upload[mon.name]
    BY <1>1, <1>5, DoingOK
  <2>2. TypeOK'
    BY <1>2, <1>5, <2>1 DEF IInv, TypeOK, MonOK
  <2>4. upload[mon.name] \in sent /\ is[upload[mon.name]].name = mon.name
    BY <1>1, <1>5 DEF IInv, Places
  <2>5. Held'
    BY <1>1, <1>2, <1>5, <2>1, <2>4 DEF Held, Working, Inspected
  <2>3. Places' /\ OnItsWay'
    BY <1>2, <1>5, <1>6
  <2> QED BY <1>2, <2>2, <2>3, <2>5, ToldKept DEF IInv
<1> QED BY <1>3, <1>4, <1>5 DEF Unpack

\* Filing an upload under one of its names.
LEMMA FiledOK ==
  ASSUME IInv, NEW u \in sent, NEW n \in Names, n \in NamesOf(u), NEW k \in Kinds,
         Filed(n, [of |-> u, kind |-> k]),
         Shared(u) \/ (n = Target(u) /\ k = "capture"),
         UNCHANGED users
  PROVE  /\ processed' \in [Names -> Files \cup {None}] /\ found' \subseteq Names
         /\ (upload' = upload \/ (mon.name \in Names /\ upload' = Taken(mon.name))) => Places'
         /\ \A v \in sent : IsFiled(v) => IsFiled(v)' \/ Shared(v)
         /\ Shared(u) \/ IsFiled(u)'
<1> USE DEF users
<1>1. /\ u \in Uploads /\ sent \subseteq Uploads /\ processed \in [Names -> Files \cup {None}]
      /\ found \subseteq Names /\ upload \in [Names -> Entries]
  BY DEF IInv, TypeOK
<1>2. /\ processed' \in [Names -> Files \cup {None}] /\ found' \subseteq Names
      /\ \A m \in Names :
           processed'[m] = IF m = n THEN [of |-> u, kind |-> k] ELSE processed[m]
  BY <1>1 DEF Filed, Files
<1>3. /\ \A v : Shared(v)' = Shared(v) /\ Target(v)' = Target(v) /\ NamesOf(v)' = NamesOf(v)
  BY DEF Shared, Target, NamesOf
<1>4. ASSUME upload' = upload \/ (mon.name \in Names /\ upload' = Taken(mon.name))
      PROVE  Places'
  <2>1. ASSUME NEW m \in Names, upload'[m] # None
        PROVE  upload'[m] \in sent /\ is[upload'[m]].name = m
    BY <1>1, <1>4, <2>1 DEF IInv, Places, Taken
  <2>2. ASSUME NEW m \in Names, processed'[m] # None
        PROVE  /\ processed'[m].of \in sent /\ m \in NamesOf(processed'[m].of)
               /\ \/ Shared(processed'[m].of)
                  \/ m = Target(processed'[m].of) /\ processed'[m].kind = "capture"
    <3>1. CASE m = n
      BY <1>2, <3>1
    <3>2. CASE m # n
      BY <1>2, <2>2, <3>2 DEF IInv, Places
    <3> QED BY <3>1, <3>2
  <2> QED BY <2>1, <2>2, <1>3 DEF Places
<1>5. ASSUME NEW v \in sent, IsFiled(v) PROVE IsFiled(v)' \/ Shared(v)
  <2>1. IsFiled(v)' <=> processed'[Target(v)] = [of |-> v, kind |-> "capture"]
    BY <1>3 DEF IsFiled
  <2>2. Target(v) \in Names /\ Target(v) \in NamesOf(v)
    BY PcapPipelineAssumption DEF IInv, TypeOK, Upload, Target, NamesOf
  <2>3. CASE Target(v) # n
    BY <1>2, <1>5, <2>1, <2>2, <2>3 DEF IsFiled
  <2>4. CASE Target(v) = n /\ v # u
    BY <1>1, <2>2, <2>4, SameName
  <2>5. CASE Target(v) = n /\ v = u
    BY <1>2, <2>1, <2>5
  <2> QED BY <2>3, <2>4, <2>5
<1>6. Shared(u) \/ IsFiled(u)'
  <2>1. n = Target(u) /\ k = "capture" => processed'[Target(u)'] = [of |-> u, kind |-> "capture"]
    BY <1>2, <1>3
  <2> QED BY <2>1 DEF IsFiled
<1> QED BY <1>2, <1>4, <1>5, <1>6

LEMMA MoveOK == ASSUME IInv, Move PROVE IInv'
<1> USE PcapPipelineAssumption DEF users, workVars
<1>1. /\ mon.at \in Inspected /\ mon.name \in Names /\ mon.held \in Uploads
      /\ is[mon.held].name = mon.name /\ is[mon.held].kind = "capture"
      /\ upload[mon.name] \in Entries
  BY Mine DEF Move, Inspected, Working, IInv, TypeOK, Held
<1>2. /\ UNCHANGED <<is, sent, zeek, torn, lost, seen, stranded, pub, up, missed, again, workVars, index, faults>>
      /\ mon' = Idle
  BY DEF Move
<1>3. MonOK' /\ Held'
  BY <1>2, DoingOK DEF Held, Working, Inspected, Entries
<1>4. CASE upload[mon.name] = None
  <2>1. UNCHANGED <<upload, processed, found>>
    BY <1>4 DEF Move
  <2>2. TypeOK'
    BY <1>2, <1>3, <2>1 DEF IInv, TypeOK, MonOK
  <2>3. Places' /\ OnItsWay'
    BY <1>2, <2>1 DEF IInv, Places, OnItsWay, InUpload, Arrived, IsFiled, Target, Shared, NamesOf
  <2> QED BY <1>2, <2>2, <2>3, <1>3, ToldKept DEF IInv
<1>5. ASSUME NEW u \in Uploads, u = upload[mon.name] PROVE IInv'
  <2>1. /\ u \in sent /\ is[u].name = mon.name /\ is[u].kind \in Kinds /\ u # None
    BY <1>1, <1>5 DEF IInv, TypeOK, Upload, Places
  <2>2. Filed(mon.name, [of |-> u, kind |-> is[u].kind]) /\ upload' = Taken(mon.name)
    BY <1>5, <2>1 DEF Move
  <2>3. mon.name \in NamesOf(u)
    BY <2>1 DEF NamesOf
  <2>4. Shared(u) \/ (mon.name = Target(u) /\ is[u].kind = "capture")
    BY <1>1, <1>5, <2>1, Mine DEF Target
  <2>5. /\ processed' \in [Names -> Files \cup {None}] /\ found' \subseteq Names
        /\ Places' /\ \A v \in sent : IsFiled(v) => IsFiled(v)' \/ Shared(v)
        /\ Shared(u) \/ IsFiled(u)'
    BY <1>1, <1>2, <2>1, <2>2, <2>3, <2>4, FiledOK
  <2>6. Dispensable(u)
    <3>1. CASE Shared(u)
      BY <3>1 DEF Dispensable
    <3>2. CASE u = mon.held /\ IsFiled(u)'
      BY <1>1, <1>2, <3>2 DEF Dispensable, Arrived
    <3>3. CASE u # mon.held
      BY <1>1, <1>5, <2>1, <3>3, Mine DEF Dispensable
    <3> QED BY <2>5, <3>1, <3>2, <3>3
  <2>7. OnItsWay'
    BY <1>1, <1>2, <1>5, <2>2, <2>5, <2>6, RemovedOK
  <2>8. TypeOK'
    BY <1>1, <1>2, <1>3, <2>2, <2>5 DEF IInv, TypeOK, MonOK, Taken, Entries
  <2> QED BY <1>2, <1>3, <2>5, <2>7, <2>8, ToldKept DEF IInv
<1> QED BY <1>1, <1>4, <1>5 DEF Entries

LEMMA PlaceOK == ASSUME IInv, Place PROVE IInv'
<1> USE PcapPipelineAssumption DEF users, workVars
<1>1. /\ mon.at \in Inspected /\ mon.name \in Names /\ mon.held \in Uploads
      /\ mon.held \in sent /\ mon.held \in Entries
      /\ is[mon.held].name = mon.name /\ is[mon.held].kind = "packed"
  BY Mine DEF Place, Inspected, Working, IInv, TypeOK, Held, Entries
<1>2. UNCHANGED <<is, sent, upload, zeek, torn, lost, seen, stranded, pub, up, missed, again, workVars, index, faults>>
  BY DEF Place
<1>3. PICK u \in Uploads : u = mon.held
  BY <1>1
<1>4. PICK n \in Names : n = Plain[mon.name]
  BY <1>1
<1>5. n \in NamesOf(u) /\ n = Target(u)
  BY <1>1, <1>3, <1>4 DEF NamesOf, Target
<1>6. Filed(n, [of |-> u, kind |-> "capture"]) /\ mon' = Doing("remove", mon.name, u)
  BY <1>3, <1>4 DEF Place
<1>7. /\ processed' \in [Names -> Files \cup {None}] /\ found' \subseteq Names
      /\ Places' /\ \A v \in sent : IsFiled(v) => IsFiled(v)' \/ Shared(v)
      /\ Shared(u) \/ IsFiled(u)'
  <2>1. "capture" \in Kinds /\ u \in sent
    BY <1>1, <1>3 DEF Kinds
  <2> QED BY <1>2, <1>5, <1>6, <2>1, FiledOK
<1>8. MonOK' /\ mon'.at = "remove" /\ mon'.name = mon.name /\ mon'.held = u
  BY <1>1, <1>3, <1>6, DoingOK
<1>9. Held'
  <2>1. Shared(u)' = Shared(u)
    BY <1>2 DEF Shared, NamesOf
  <2>2. IsFiled(u)' => IsFiled(mon.held)'
    BY <1>8 DEF IsFiled, Target
  <2>3. Shared(u)' => Shared(mon.held)'
    BY <1>8 DEF Shared, NamesOf
  <2> QED BY <1>1, <1>2, <1>3, <1>7, <1>8, <2>1, <2>2, <2>3 DEF Held, Working, Inspected
<1>10. TypeOK'
  BY <1>2, <1>7, <1>8 DEF IInv, TypeOK, MonOK
<1>11. OnItsWay'
  BY <1>2, <1>7 DEF IInv, TypeOK, OnItsWay, InUpload, Arrived, Target, Shared, NamesOf
<1> QED BY <1>2, <1>7, <1>9, <1>10, <1>11, ToldKept DEF IInv

LEMMA KillMonitorOK == ASSUME IInv, KillMonitor PROVE IInv'
<1> USE PcapPipelineAssumption DEF users, behind, pubVars, workVars
<1>1. UNCHANGED <<is, sent, upload, zeek, lost, behind>> /\ Fault
  BY DEF KillMonitor
<1>2. MonOK' /\ mon'.at = "down"
  BY DEF KillMonitor, Doing, MonOK, Entries
<1>3. stranded' \subseteq Uploads /\ torn' \subseteq Uploads /\ seen' = {}
  <2>1. mon.at = "copy" => mon.held \in Uploads
    BY Mine DEF Inspected, Working
  <2> QED BY <2>1 DEF KillMonitor, IInv, TypeOK
<1>4. TypeOK'
  BY <1>1, <1>2, <1>3, FaultOK DEF IInv, TypeOK, MonOK
<1>5. Held'
  BY <1>2 DEF Held, Working, Inspected
<1>6. Places' /\ OnItsWay'
  BY <1>1 DEF IInv, Places, OnItsWay, InUpload, Arrived, IsFiled, Target, Shared, NamesOf
<1> QED BY <1>1, <1>4, <1>5, <1>6, ToldKept DEF IInv

-----------------------------------------------------------------------------
(* The publisher and the processors.                                       *)

\* What is behind the monitor touches none of its state.
LEMMA BehindOK ==
  ASSUME IInv, UNCHANGED <<upVars, processed>>,
         found' \subseteq Names, up' \subseteq Processors, alive' \subseteq Processors,
         pub' \in [at : {"idle", "down", "announce"}, name : Names \cup {None}, held : Entries],
         queue' \in [Processors -> Seq(Names)],
         runs' \in [Processors -> [Uploads -> Nat]],
         missed' \in [Processors -> SUBSET Uploads],
         index' \subseteq Names \X Nat, recorded' \subseteq Names \X Nat,
         again' \subseteq Uploads, faults' \in 0..MaxFaults,
         Told'
  PROVE  IInv'
<1> USE DEF upVars, users
<1>1. TypeOK'
  BY DEF IInv, TypeOK
<1>2. Places' /\ OnItsWay'
  BY DEF IInv, Places, OnItsWay, InUpload, Arrived, IsFiled, Target, Shared, NamesOf
<1>3. /\ IsFiled(mon.held) => IsFiled(mon.held)'
      /\ Shared(mon.held) => Shared(mon.held)'
  BY DEF IsFiled, Target, Shared, NamesOf
<1>4. Held'
  BY <1>3 DEF IInv, Held
<1> QED BY <1>1, <1>2, <1>4 DEF IInv

LEMMA PublisherOK == ASSUME IInv, Publisher \/ KillPublisher PROVE IInv'
<1> USE PcapPipelineAssumption DEF workVars
<1>1. ASSUME NEW n \in Names, Find(n) PROVE IInv'
  <2>1. processed[n] # None => processed[n].of \in Uploads
    BY DEF IInv, TypeOK, Files
  <2>2. /\ pub' \in [at : {"idle", "down", "announce"}, name : Names \cup {None}, held : Entries]
        /\ Told'
    BY <1>1, <2>1 DEF Find, Idle, Doing, Entries, Told
  <2> QED BY <1>1, <2>2, BehindOK DEF Find, IInv, TypeOK
<1>2. CASE Skip
  BY <1>2, BehindOK DEF Skip, IInv, TypeOK, Told, Idle, Entries
<1>3. ASSUME NEW answered \in BOOLEAN, Announce(answered) PROVE IInv'
  <2>1. pub.name \in Names /\ pub.held \in Uploads /\ pub' = Idle
    BY <1>3 DEF Announce, IInv, Told
  <2>2. queue' \in [Processors -> Seq(Names)]
    <3>1. \A k \in Processors : queue[k] \in Seq(Names)
      BY DEF IInv, TypeOK
    <3>2. \A k \in Processors : Append(queue[k], pub.name) \in Seq(Names)
      BY <2>1, <3>1, AppendProperties
    <3>3. queue' = [k \in Processors |->
                     IF k \in up THEN Append(queue[k], pub.name) ELSE queue[k]]
      BY <1>3 DEF Announce
    <3> QED BY <3>1, <3>2, <3>3
  <2>3. missed' \in [Processors -> SUBSET Uploads]
    BY <1>3, <2>1 DEF Announce, IInv, TypeOK
  <2>4. /\ pub' \in [at : {"idle", "down", "announce"}, name : Names \cup {None}, held : Entries]
        /\ Told'
    BY <2>1 DEF Told, Idle, Entries
  <2>5. /\ UNCHANGED <<upVars, processed, found, up, again, alive, runs, recorded, index, faults>>
    BY <1>3 DEF Announce
  <2> QED BY <2>2, <2>3, <2>4, <2>5, BehindOK DEF IInv, TypeOK
<1>4. CASE StartPublisher
  <2>1. again' \subseteq Uploads
    <3>1. \A n \in Existing : processed[n].of \in Uploads
      BY DEF Existing, IInv, TypeOK, Files
    <3>2. again' = again \cup {processed[n].of : n \in Existing}
      BY <1>4 DEF StartPublisher
    <3>3. {processed[n].of : n \in Existing} \subseteq Uploads
      BY <3>1
    <3> QED BY <3>2, <3>3 DEF IInv, TypeOK
  <2> QED BY <1>4, <2>1, BehindOK DEF StartPublisher, Existing, IInv, TypeOK, Told, Idle, Entries
<1>5. CASE KillPublisher
  <2>1. faults' \in 0..MaxFaults
    BY <1>5, FaultOK DEF KillPublisher
  <2> QED BY <1>5, <2>1, BehindOK DEF KillPublisher, IInv, TypeOK, Told, Doing, Entries
<1> QED BY <1>1, <1>2, <1>3, <1>4, <1>5 DEF Publisher

\* Running the tool on the file of the first name in the queue.
LEMMA RanOK ==
  ASSUME IInv, NEW k \in Processors, queue[k] # <<>>, Ran(k), UNCHANGED is
  PROVE  /\ Head(queue[k]) \in Names
         /\ queue' \in [Processors -> Seq(Names)]
         /\ runs' \in [Processors -> [Uploads -> Nat]]
         /\ recorded' \subseteq Names \X Nat
<1> DEFINE n == Head(queue[k])
<1>1. queue[k] \in Seq(Names) /\ n \in Names /\ Tail(queue[k]) \in Seq(Names)
  <2>1. queue[k] \in Seq(Names)
    BY DEF IInv, TypeOK
  <2> QED BY <2>1, HeadTailProperties
<1>2. queue' \in [Processors -> Seq(Names)]
  BY <1>1 DEF Ran, IInv, TypeOK
<1>3. processed[n] # None => processed[n].of \in Uploads
  BY <1>1 DEF IInv, TypeOK, Files
<1>4. runs' \in [Processors -> [Uploads -> Nat]]
  <2>1. CASE processed[n] = None
    BY <2>1 DEF Ran, IInv, TypeOK
  <2>2. CASE processed[n] # None
    <3>1. runs' = [runs EXCEPT ![k][processed[n].of] = @ + 1]
      BY <2>2 DEF Ran
    <3>2. runs[k][processed[n].of] \in Nat
      BY <1>3, <2>2 DEF IInv, TypeOK
    <3>3. PICK u \in Uploads : u = processed[n].of
      BY <1>3, <2>2
    <3>4. runs \in [Processors -> [Uploads -> Nat]] /\ runs' = [runs EXCEPT ![k][u] = @ + 1]
      BY <3>1, <3>3 DEF IInv, TypeOK
    <3> QED BY <3>3, <3>4
  <2> QED BY <2>1, <2>2
<1>5. recorded' \subseteq Names \X Nat
  <2>1. processed[n] # None => Key(n, processed[n].of) \in Names \X Nat
    BY <1>1, <1>3 DEF Key, IInv, TypeOK, Upload
  <2> QED BY <2>1 DEF Ran, IInv, TypeOK
<1> QED BY <1>1, <1>2, <1>4, <1>5

LEMMA ProcessorOK ==
  ASSUME IInv, NEW k \in Processors,
         Subscribe(k) \/ Analyse(k) \/ (WorkerDies /\ k = Zeek) \/ RestartProcessor(k) \/ Refresh
  PROVE  IInv'
<1> USE PcapPipelineAssumption DEF pubVars, workVars
<1>1. CASE Subscribe(k)
  BY <1>1, BehindOK DEF Subscribe, IInv, TypeOK, Told
<1>2. CASE Analyse(k)
  <2>1. UNCHANGED is
    BY <1>2 DEF Analyse, upVars, users
  <2> QED BY <1>2, <2>1, RanOK, BehindOK DEF Analyse, IInv, TypeOK, Told
<1>3. CASE WorkerDies /\ k = Zeek
  <2>1. UNCHANGED is /\ faults' \in 0..MaxFaults
    BY <1>3, FaultOK DEF WorkerDies, upVars, users
  <2> QED BY <1>3, <2>1, RanOK, BehindOK DEF WorkerDies, IInv, TypeOK, Told
<1>4. CASE RestartProcessor(k)
  <2>1. faults' \in 0..MaxFaults
    BY <1>4, FaultOK DEF RestartProcessor
  <2>2. queue' \in [Processors -> Seq(Names)]
    <3>1. <<>> \in Seq(Names) /\ queue' = [queue EXCEPT ![k] = <<>>]
      BY <1>4 DEF RestartProcessor
    <3> QED BY <3>1 DEF IInv, TypeOK
  <2>3. missed' \in [Processors -> SUBSET Uploads]
    BY <1>4 DEF RestartProcessor, IInv, TypeOK
  <2> QED BY <1>4, <2>1, <2>2, <2>3, BehindOK DEF RestartProcessor, IInv, TypeOK, Told
<1>5. CASE Refresh
  BY <1>5, BehindOK DEF Refresh, IInv, TypeOK, Told
<1> QED BY <1>1, <1>2, <1>3, <1>4, <1>5

-----------------------------------------------------------------------------
LEMMA NextOK == IInv /\ [Next]_vars => IInv'
<1> SUFFICES ASSUME IInv, [Next]_vars PROVE IInv'
  OBVIOUS
<1>1. ASSUME NEW u \in Uploads, Put(u) PROVE IInv'
  BY <1>1, PutOK
<1>2. CASE Monitor \/ WriteFails \/ CopyFails \/ KillMonitor
  BY <1>2, TakeUpOK, CheckOK, DeleteOK, MoveOK, UnpackOK, PlaceOK, RemoveOK, HandOnOK,
     CopiedOK, UnlinkOK, WriteFailsOK, CopyFailsOK, KillMonitorOK DEF Monitor
<1>3. CASE Publisher \/ KillPublisher
  BY <1>3, PublisherOK
<1>4. ASSUME NEW k \in Processors, Subscribe(k) \/ Analyse(k) \/ RestartProcessor(k) PROVE IInv'
  BY <1>4, ProcessorOK
<1>5. CASE WorkerDies \/ Refresh
  BY <1>5, ProcessorOK DEF Processors
<1>6. CASE UNCHANGED vars
  BY <1>6, BehindOK DEF vars, behind, pubVars, workVars, IInv, TypeOK, Told
<1> QED BY <1>1, <1>2, <1>3, <1>4, <1>5, <1>6 DEF Next, Faults

-----------------------------------------------------------------------------
(* No processor runs on a capture twice.                                   *)

\* The chances an upload has to be filed, to be announced and to be run on.
Filing == {"open", "check", "move", "unpack", "place"}
Handled(u) == mon.at \in Filing /\ mon.name = is[u].name
ToFile(u) == u \notin sent \/ is[u].name \in seen \/ Handled(u)
Announced(u) == pub.at = "announce" /\ pub.name = Target(u)
ToTell(u) == Target(u) \in found \/ Announced(u)
Queued(k, u) == \E i \in 1..Len(queue[k]) : queue[k][i] = Target(u)

\* There is one way left to file it ...
FiledOnce(u) ==
  /\ u \notin sent => is[u].name \notin seen /\ ~Handled(u)
  /\ ~(is[u].name \in seen /\ Handled(u))

\* ... and what was announced is neither to be filed nor to be announced.
ToldOnce(u) ==
  /\ ToFile(u) => ~ToTell(u)
  /\ ~(Target(u) \in found /\ Announced(u))

RunOnce(k, u) ==
  /\ Queued(k, u) \/ runs[k][u] > 0 => ~ToFile(u) /\ ~ToTell(u)
  /\ Queued(k, u) => runs[k][u] = 0
  /\ runs[k][u] <= 1
  /\ \A i, j \in 1..Len(queue[k]) :
       queue[k][i] = Target(u) /\ queue[k][j] = Target(u) => i = j

Once ==
  \A u \in Uploads : ~Shared(u) =>
    FiledOnce(u) /\ (u \notin again => ToldOnce(u) /\ \A k \in Processors : RunOnce(k, u))

LEMMA OnceInit == Init => Once
BY DEF Init, Once, FiledOnce, ToldOnce, RunOnce, Handled, ToFile, ToTell, Announced, Queued,
       Idle, Filing

\* What depends on what the uploads are.
LEMMA SameUploads ==
  ASSUME UNCHANGED is
  PROVE  \A u : /\ Shared(u)' = Shared(u) /\ Target(u)' = Target(u)
                /\ NamesOf(u)' = NamesOf(u)
BY DEF Shared, Target, NamesOf

LEMMA OwnNames ==
  ASSUME IInv, NEW u \in Uploads
  PROVE  /\ is[u].name \in Names /\ Target(u) \in Names
         /\ is[u].name \in NamesOf(u) /\ Target(u) \in NamesOf(u)
BY PcapPipelineAssumption DEF IInv, TypeOK, Upload, Target, NamesOf

\* Under the names of an upload that shares none there is nothing else.
LEMMA Own ==
  ASSUME IInv, NEW u \in Uploads, ~Shared(u), NEW n \in Names, processed[n] # None
  PROVE  processed[n].of = u <=> n = Target(u)
<1>1. /\ processed[n].of \in Uploads /\ n \in NamesOf(processed[n].of)
      /\ Shared(processed[n].of) \/ n = Target(processed[n].of)
  BY DEF IInv, TypeOK, Places, Files
<1>2. PICK v \in Uploads : v = processed[n].of
  BY <1>1
<1>3. CASE n = Target(u) /\ v # u
  BY <1>1, <1>2, <1>3, OwnNames, SameName
<1> QED BY <1>1, <1>2, <1>3

\* Steps after which no upload has a chance to be filed that it did not have.
LEMMA NotFiledOK ==
  ASSUME Once, UNCHANGED <<is, found, pub, queue, runs, again>>,
         \A u \in Uploads : ~Shared(u) =>
           (FiledOnce(u) => FiledOnce(u)') /\ (ToFile(u)' => ToFile(u))
  PROVE  Once'
<1> SUFFICES ASSUME NEW u \in Uploads, ~Shared(u)' PROVE
               FiledOnce(u)' /\ (u \notin again' =>
                 ToldOnce(u)' /\ \A k \in Processors : RunOnce(k, u)')
  BY DEF Once
<1>1. ~Shared(u) /\ Target(u)' = Target(u)
  BY SameUploads
<1>2. FiledOnce(u)' /\ (ToFile(u)' => ToFile(u))
  BY <1>1 DEF Once
<1>3. ToTell(u)' = ToTell(u) /\ Announced(u)' = Announced(u)
  BY <1>1 DEF ToTell, Announced
<1>4. ASSUME u \notin again' PROVE ToldOnce(u)' /\ \A k \in Processors : RunOnce(k, u)'
  <2>1. ToldOnce(u) /\ \A k \in Processors : RunOnce(k, u)
    BY <1>1, <1>4 DEF Once
  <2>2. ToldOnce(u)'
    BY <1>1, <1>2, <1>3, <2>1 DEF ToldOnce
  <2>3. ASSUME NEW k \in Processors PROVE RunOnce(k, u)'
    BY <1>1, <1>2, <1>3, <2>1 DEF RunOnce, Queued
  <2> QED BY <2>2, <2>3
<1> QED BY <1>2, <1>4

LEMMA OncePut == ASSUME IInv, Once, NEW v \in Uploads, Put(v) PROVE Once'
<1>1. /\ UNCHANGED <<is, mon, found, pub, queue, runs, again>>
      /\ v \notin sent /\ sent' = sent \cup {v} /\ seen \subseteq seen'
      /\ seen' \subseteq seen \cup {is[v].name}
  BY DEF Put, behind, pubVars, workVars
<1>2. ASSUME NEW u \in Uploads, ~Shared(u)
      PROVE  (FiledOnce(u) => FiledOnce(u)') /\ (ToFile(u)' => ToFile(u))
  <2>1. CASE u = v
    BY <1>1, <2>1 DEF FiledOnce, ToFile, Handled
  <2>2. CASE u # v
    <3>1. is[u].name # is[v].name
      BY <1>2, <2>2, OwnNames, SameName
    <3> QED BY <1>1, <2>2, <3>1 DEF FiledOnce, ToFile, Handled
  <2> QED BY <2>1, <2>2
<1> QED BY <1>1, <1>2, NotFiledOK

\* Steps of the monitor that file nothing.
LEMMA OnceMonitor ==
  ASSUME IInv, Once,
         \/ StartMonitor \/ Inspect \/ Check \/ Delete \/ Unpack \/ Remove
         \/ HandOn \/ Copied \/ Unlink
         \/ WriteFails \/ CopyFails \/ KillMonitor \/ \E n \in Names : HandOver(n)
  PROVE  Once'
<1>1. UNCHANGED <<is, sent, found, pub, queue, runs, again>>
  BY DEF StartMonitor, Inspect, Check, Delete, Unpack, Remove, HandOn, Copied, Unlink,
         WriteFails, CopyFails, KillMonitor, HandOver, users, behind, pubVars, workVars
<1>2. CASE \E n \in Names : HandOver(n)
  <2>1. PICK n \in Names : n \in seen /\ seen' = seen \ {n} /\ mon = Idle
                          /\ (mon' = Idle \/ mon' = Doing("open", n, None))
    BY <1>2 DEF HandOver
  <2>2. /\ mon.at \notin Filing
        /\ mon'.at \in Filing => mon'.name = n
    BY <2>1 DEF Idle, Doing, Filing
  <2>3. ASSUME NEW u \in Uploads
        PROVE  (FiledOnce(u) => FiledOnce(u)') /\ (ToFile(u)' => ToFile(u))
    BY <1>1, <2>1, <2>2 DEF FiledOnce, ToFile, Handled
  <2> QED BY <1>1, <2>3, NotFiledOK
<1>3. CASE ~\E n \in Names : HandOver(n)
  <2>1. seen' \subseteq seen
    BY <1>3 DEF StartMonitor, Inspect, Check, Delete, Unpack, Remove, HandOn, Copied, Unlink,
                WriteFails, CopyFails, KillMonitor
  <2>2. mon'.at \in Filing => mon.at \in Filing /\ mon'.name = mon.name
    <3>1. CASE Inspect \/ Check \/ Unpack
      <4>1. mon.at \in Filing
        BY <3>1 DEF Inspect, Check, Unpack, Filing
      <4>2. mon' = Idle \/ \E at, u : mon' = Doing(at, mon.name, u)
        <5>1. CASE Inspect
          BY <5>1 DEF Inspect
        <5>2. CASE Check
          BY <5>2 DEF Check
        <5>3. Unpack => \/ mon' = Doing("hand on", mon.name, mon.held) \/ mon' = Idle
                        \/ mon' = Doing("place", mon.name, upload[mon.name])
          BY DEF Unpack
        <5> QED BY <3>1, <5>1, <5>2, <5>3
      <4> QED BY <4>1, <4>2 DEF Idle, Doing, Filing
    <3>2. CASE ~(Inspect \/ Check \/ Unpack)
      <4>1. \/ mon' = Idle \/ mon' = Doing("down", None, None)
            \/ mon' = Doing("copy", mon.name, upload[mon.name])
            \/ mon' = Doing("unlink", mon.name, mon.held)
        BY <1>3, <3>2 DEF StartMonitor, Delete, Remove, HandOn, Copied, Unlink, WriteFails,
                          CopyFails, KillMonitor
      <4> QED BY <4>1 DEF Idle, Doing, Filing
    <3> QED BY <3>1, <3>2
  <2>3. ASSUME NEW u \in Uploads
        PROVE  (FiledOnce(u) => FiledOnce(u)') /\ (ToFile(u)' => ToFile(u))
    BY <1>1, <2>1, <2>2 DEF FiledOnce, ToFile, Handled
  <2> QED BY <1>1, <2>3, NotFiledOK
<1> QED BY <1>2, <1>3

\* The steps that file an upload take its chance to be filed.
LEMMA OnceFiled ==
  ASSUME IInv, Once, Move \/ Place
  PROVE  Once'
<1>1. /\ UNCHANGED <<is, sent, seen, pub, queue, runs, again>>
      /\ mon.at \in Filing /\ mon'.at \notin Filing
      /\ mon.at \in Inspected
  <2>1. CASE Move
    BY <2>1 DEF Move, users, workVars, Idle, Filing, Inspected, Working
  <2>2. CASE Place
    BY <2>2 DEF Place, users, workVars, Doing, Filing, Inspected, Working
  <2> QED BY <2>1, <2>2
<1>2. PICK n \in Names :
        /\ found' \subseteq found \cup {n} /\ found \subseteq found'
        /\ \A u \in Uploads : n \in NamesOf(u) /\ ~Shared(u) /\ found' # found => is[u].name = mon.name
  <2>1. /\ mon.name \in Names /\ mon.held \in Uploads /\ is[mon.held].name = mon.name
        /\ Plain[mon.name] \in Names
    BY <1>1, Mine, PcapPipelineAssumption
  <2>2. CASE Move
    <3>1. found' \subseteq found \cup {mon.name} /\ found \subseteq found'
      BY <2>2 DEF Move, Filed
    <3>2. ASSUME NEW u \in Uploads, mon.name \in NamesOf(u), ~Shared(u)
          PROVE  is[u].name = mon.name
      BY <2>1, <3>2, SameName, OwnNames
    <3> QED BY <2>1, <3>1, <3>2
  <2>3. CASE Place
    <3>1. found' \subseteq found \cup {Plain[mon.name]} /\ found \subseteq found'
      BY <2>3 DEF Place, Filed
    <3>2. ASSUME NEW u \in Uploads, Plain[mon.name] \in NamesOf(u), ~Shared(u)
          PROVE  is[u].name = mon.name
      <4>1. Plain[mon.name] \in NamesOf(mon.held)
        BY <2>1 DEF NamesOf
      <4> QED BY <2>1, <3>2, <4>1, SameName
    <3> QED BY <2>1, <3>1, <3>2
  <2> QED BY <2>2, <2>3
<1> SUFFICES ASSUME NEW u \in Uploads, ~Shared(u)' PROVE
               FiledOnce(u)' /\ (u \notin again' =>
                 ToldOnce(u)' /\ \A k \in Processors : RunOnce(k, u)')
  BY DEF Once
<1>3. ~Shared(u) /\ Target(u)' = Target(u) /\ Target(u) \in NamesOf(u)
  BY <1>1, SameUploads, OwnNames
<1>4. FiledOnce(u) /\ FiledOnce(u)' /\ (ToFile(u)' => ToFile(u))
  BY <1>1, <1>3 DEF Once, FiledOnce, ToFile, Handled
<1>5. Announced(u)' = Announced(u)
  BY <1>1, <1>3 DEF Announced
<1>6. ASSUME u \notin again' PROVE ToldOnce(u)' /\ \A k \in Processors : RunOnce(k, u)'
  <2>1. ToldOnce(u) /\ \A k \in Processors : RunOnce(k, u)
    BY <1>1, <1>3, <1>6 DEF Once
  <2>2. CASE (Target(u) \in found') = (Target(u) \in found)
    <3>1. ToTell(u)' = ToTell(u)
      BY <1>3, <1>5, <2>2 DEF ToTell
    <3>2. ToldOnce(u)'
      BY <1>3, <1>4, <1>5, <2>1, <2>2, <3>1 DEF ToldOnce
    <3>3. ASSUME NEW k \in Processors PROVE RunOnce(k, u)'
      BY <1>1, <1>3, <1>4, <2>1, <3>1 DEF RunOnce, Queued
    <3> QED BY <3>2, <3>3
  <2>3. CASE (Target(u) \in found') # (Target(u) \in found)
    <3>1. Handled(u)
      BY <1>1, <1>2, <1>3, <2>3 DEF Handled
    <3>2. ToFile(u) /\ ~ToFile(u)'
      BY <1>1, <1>4, <3>1 DEF ToFile, FiledOnce, Handled
    <3>3. ToldOnce(u)'
      BY <1>5, <2>1, <3>2 DEF ToldOnce, ToTell
    <3>4. ASSUME NEW k \in Processors PROVE RunOnce(k, u)'
      BY <1>1, <1>3, <2>1, <3>2 DEF RunOnce, Queued
    <3> QED BY <3>3, <3>4
  <2> QED BY <2>2, <2>3
<1> QED BY <1>4, <1>6

\* An announcement takes the chance to be announced; a publisher that starts
\* again gives one only to what is in processed/, and so in again.
LEMMA OncePublisher ==
  ASSUME IInv, Once, Publisher \/ KillPublisher
  PROVE  Once'
<1>1. UNCHANGED <<is, sent, seen, mon, runs, processed>>
  BY DEF Publisher, Find, Skip, Announce, StartPublisher, KillPublisher, upVars, users, workVars
<1> SUFFICES ASSUME NEW u \in Uploads, ~Shared(u)' PROVE
               FiledOnce(u)' /\ (u \notin again' =>
                 ToldOnce(u)' /\ \A k \in Processors : RunOnce(k, u)')
  BY DEF Once
<1>2. ~Shared(u) /\ Target(u)' = Target(u)
  BY <1>1, SameUploads
<1>3. FiledOnce(u)' /\ ToFile(u)' = ToFile(u)
  BY <1>1, <1>2 DEF Once, FiledOnce, ToFile, Handled
<1>4. ASSUME u \notin again' PROVE ToldOnce(u)' /\ \A k \in Processors : RunOnce(k, u)'
  <2>1. again \subseteq again'
    BY DEF Publisher, Find, Skip, Announce, StartPublisher, KillPublisher
  <2>2. ToldOnce(u) /\ \A k \in Processors : RunOnce(k, u)
    BY <1>2, <1>4, <2>1 DEF Once
  <2>3. ASSUME NEW n \in Names, Find(n) PROVE ToldOnce(u)' /\ \A k \in Processors : RunOnce(k, u)'
    <3>1. /\ UNCHANGED queue /\ n \in found /\ found' = found \ {n} /\ pub = Idle
          /\ pub' = Idle \/ \E v : pub' = Doing("announce", n, v)
      BY <2>3 DEF Find, workVars
    <3>2. ~Announced(u) /\ (Announced(u)' => Target(u) = n)
      BY <1>2, <3>1 DEF Announced, Idle, Doing
    <3>3. ToTell(u)' => ToTell(u)
      BY <1>2, <3>1, <3>2 DEF ToTell
    <3> QED BY <1>1, <1>2, <1>3, <2>2, <3>1, <3>2, <3>3 DEF ToldOnce, RunOnce, Queued
  <2>4. CASE Skip \/ KillPublisher
    <3>1. /\ UNCHANGED queue /\ found' \subseteq found
          /\ pub' = Idle \/ pub' = Doing("down", None, None)
      BY <2>4 DEF Skip, KillPublisher, workVars
    <3>2. ~Announced(u)' /\ (ToTell(u)' => ToTell(u))
      BY <1>2, <3>1 DEF Announced, ToTell, Idle, Doing
    <3> QED BY <1>1, <1>2, <1>3, <2>2, <3>1, <3>2 DEF ToldOnce, RunOnce, Queued
  <2>5. ASSUME NEW answered \in BOOLEAN, Announce(answered)
        PROVE  ToldOnce(u)' /\ \A k \in Processors : RunOnce(k, u)'
    <3>1. /\ pub.at = "announce" /\ pub.name \in Names /\ pub' = Idle /\ UNCHANGED found
          /\ \A k \in Processors : queue[k] \in Seq(Names)
          /\ \A k \in Processors :
               queue'[k] = IF k \in up THEN Append(queue[k], pub.name) ELSE queue[k]
      BY <2>5 DEF Announce, IInv, TypeOK, Told
    <3>2. ~Announced(u)' /\ (ToTell(u)' => Target(u) \in found)
      BY <1>2, <3>1 DEF Announced, ToTell, Idle
    <3>3. ToldOnce(u)'
      BY <1>2, <1>3, <2>2, <3>1, <3>2 DEF ToldOnce, ToTell
    <3>4. ASSUME NEW k \in Processors PROVE RunOnce(k, u)'
      <4>1. CASE k \notin up
        BY <1>1, <1>2, <1>3, <2>2, <3>1, <3>2, <4>1 DEF RunOnce, Queued, ToTell
      <4>2. CASE k \in up
        <5>1. /\ queue'[k] = Append(queue[k], pub.name)
              /\ Len(queue'[k]) = Len(queue[k]) + 1 /\ Len(queue[k]) \in Nat
              /\ \A i \in 1..Len(queue[k]) : queue'[k][i] = queue[k][i]
              /\ queue'[k][Len(queue[k]) + 1] = pub.name
          <6>1. queue[k] \in Seq(Names) /\ pub.name \in Names
                /\ queue'[k] = Append(queue[k], pub.name)
            BY <3>1, <4>2
          <6> QED BY <6>1, AppendProperties, LenProperties
        <5>2. CASE pub.name = Target(u)
          <6>1. Announced(u) /\ ToTell(u)
            BY <3>1, <5>2 DEF Announced, ToTell
          <6>2. ~ToFile(u) /\ Target(u) \notin found /\ ~Queued(k, u) /\ runs[k][u] <= 1
                /\ ~(runs[k][u] > 0)
            BY <2>2, <6>1 DEF ToldOnce, RunOnce
          <6>3. \A i \in 1..Len(queue'[k]) :
                  queue'[k][i] = Target(u) => i = Len(queue[k]) + 1
            BY <5>1, <6>2 DEF Queued
          <6>4. runs[k][u] = 0
            <7>1. runs[k][u] \in Nat
              BY DEF IInv, TypeOK
            <7> QED BY <6>2, <7>1
          <6> QED BY <1>1, <1>2, <1>3, <3>2, <6>2, <6>3, <6>4 DEF RunOnce
        <5>3. CASE pub.name # Target(u)
          <6>1. \A i \in 1..Len(queue'[k]) : queue'[k][i] = Target(u) =>
                  i \in 1..Len(queue[k]) /\ queue[k][i] = Target(u)
            BY <5>1, <5>3
          <6>2. Queued(k, u)' => Queued(k, u)
            BY <1>2, <6>1 DEF Queued
          <6>3. ToTell(u)' => ToTell(u)
            BY <3>2 DEF ToTell
          <6> QED BY <1>1, <1>2, <1>3, <2>2, <6>1, <6>2, <6>3 DEF RunOnce
        <5> QED BY <5>2, <5>3
      <4> QED BY <4>1, <4>2
    <3> QED BY <3>3, <3>4
  <2>6. CASE StartPublisher
    <3>1. /\ pub' = Idle /\ found' = Existing /\ UNCHANGED queue
          /\ again' = again \cup {processed[n].of : n \in Existing}
      BY <2>6 DEF StartPublisher, workVars
    <3>2. Target(u) \notin found'
      <4>1. Target(u) \in Names
        BY OwnNames
      <4>2. processed[Target(u)] # None => processed[Target(u)].of = u
        BY <1>2, <4>1, Own
      <4> QED BY <1>4, <3>1, <4>1, <4>2 DEF Existing
    <3>3. ~ToTell(u)' /\ ~Announced(u)'
      BY <1>2, <3>1, <3>2 DEF ToTell, Announced, Idle
    <3> QED BY <1>1, <1>2, <1>3, <2>2, <3>1, <3>2, <3>3 DEF ToldOnce, RunOnce, Queued
  <2> QED BY <2>3, <2>4, <2>5, <2>6 DEF Publisher
<1> QED BY <1>3, <1>4

\* A run takes the one announcement there is.
LEMMA OnceRan ==
  ASSUME IInv, Once, NEW k \in Processors, queue[k] # <<>>, Ran(k),
         UNCHANGED <<is, sent, seen, mon, processed, found, pub, again>>
  PROVE  Once'
<1> SUFFICES ASSUME NEW u \in Uploads, ~Shared(u)' PROVE
               FiledOnce(u)' /\ (u \notin again' =>
                 ToldOnce(u)' /\ \A j \in Processors : RunOnce(j, u)')
  BY DEF Once
<1>1. ~Shared(u) /\ Target(u)' = Target(u)
  BY SameUploads
<1>2. /\ FiledOnce(u)' /\ ToFile(u)' = ToFile(u)
      /\ ToTell(u)' = ToTell(u) /\ Announced(u)' = Announced(u)
  BY <1>1 DEF Once, FiledOnce, ToFile, Handled, ToTell, Announced
<1>3. ASSUME u \notin again' PROVE ToldOnce(u)' /\ \A j \in Processors : RunOnce(j, u)'
  <2>1. ToldOnce(u) /\ \A j \in Processors : RunOnce(j, u)
    BY <1>1, <1>3 DEF Once
  <2>2. ToldOnce(u)'
    BY <1>1, <1>2, <2>1 DEF ToldOnce
  <2> DEFINE n == Head(queue[k])
  <2>3. /\ queue[k] \in Seq(Names) /\ n \in Names /\ n = queue[k][1]
        /\ Len(queue[k]) \in Nat /\ Len(queue[k]) >= 1
    <3>1. queue[k] \in Seq(Names)
      BY DEF IInv, TypeOK
    <3>2. Len(queue[k]) \in Nat /\ Len(queue[k]) # 0
      BY <3>1, LenProperties, EmptySeq
    <3> QED BY <3>1, <3>2, HeadTailProperties
  <2>4. /\ queue'[k] = Tail(queue[k])
        /\ \A j \in Processors \ {k} : queue'[j] = queue[j] /\ runs'[j] = runs[j]
    BY DEF Ran, IInv, TypeOK
  <2>5. /\ Len(queue'[k]) = Len(queue[k]) - 1
        /\ \A i \in 1..Len(queue'[k]) : queue'[k][i] = queue[k][i + 1]
    BY <2>3, <2>4, HeadTailProperties
  <2>6. runs[k][u] \in Nat /\ runs'[k][u] \in {runs[k][u], runs[k][u] + 1}
        /\ (processed[n] = None \/ processed[n].of # u => runs'[k][u] = runs[k][u])
    BY DEF Ran, IInv, TypeOK
  <2>7. ASSUME NEW j \in Processors, j # k PROVE RunOnce(j, u)'
    <3>1. queue'[j] = queue[j] /\ runs'[j] = runs[j]
      BY <2>4, <2>7
    <3> QED BY <1>1, <1>2, <2>1, <3>1 DEF RunOnce, Queued
  <2>8. RunOnce(k, u)'
    <3>1. RunOnce(k, u)
      BY <2>1
    <3>2. CASE n = Target(u)
      <4>1. Queued(k, u)
        BY <2>3, <3>2 DEF Queued
      <4>2. runs[k][u] = 0 /\ ~ToFile(u) /\ ~ToTell(u)
        BY <3>1, <4>1 DEF RunOnce
      <4>3. \A i \in 1..Len(queue'[k]) : queue'[k][i] # Target(u)
        <5> SUFFICES ASSUME NEW i \in 1..Len(queue'[k]), queue'[k][i] = Target(u) PROVE FALSE
          OBVIOUS
        <5>1. i + 1 \in 1..Len(queue[k]) /\ 1 \in 1..Len(queue[k]) /\ i + 1 # 1
              /\ queue[k][i + 1] = Target(u) /\ queue[k][1] = Target(u)
          BY <2>3, <2>5, <3>2
        <5> QED BY <3>1, <5>1 DEF RunOnce
      <4>4. runs'[k][u] <= 1
        BY <2>6, <4>2
      <4> QED BY <1>1, <1>2, <4>2, <4>3, <4>4 DEF RunOnce, Queued
    <3>3. CASE n # Target(u)
      <4>1. runs'[k][u] = runs[k][u]
        <5>1. processed[n] # None => processed[n].of # u
          BY <1>1, <2>3, <3>3, Own
        <5> QED BY <2>6, <5>1
      <4>2. \A i \in 1..Len(queue'[k]) : i + 1 \in 1..Len(queue[k])
        BY <2>3, <2>5
      <4>3. Queued(k, u)' => Queued(k, u)
        BY <1>1, <2>5, <4>2 DEF Queued
      <4>4. \A i, j \in 1..Len(queue'[k]) :
              queue'[k][i] = Target(u) /\ queue'[k][j] = Target(u) => i = j
        <5> SUFFICES ASSUME NEW i \in 1..Len(queue'[k]), NEW j \in 1..Len(queue'[k]),
                            queue'[k][i] = Target(u), queue'[k][j] = Target(u)
                     PROVE  i = j
          OBVIOUS
        <5>1. i + 1 = j + 1
          BY <2>5, <3>1, <4>2 DEF RunOnce
        <5> QED BY <5>1, <2>5, <2>3
      <4> QED BY <1>1, <1>2, <3>1, <4>1, <4>3, <4>4 DEF RunOnce
    <3> QED BY <3>2, <3>3
  <2> QED BY <2>2, <2>7, <2>8
<1> QED BY <1>2, <1>3

LEMMA OnceKept ==
  ASSUME IInv, Once, [Next]_vars PROVE Once'
<1>1. ASSUME NEW u \in Uploads, Put(u) PROVE Once'
  BY <1>1, OncePut
<1>2. CASE Monitor \/ WriteFails \/ CopyFails \/ KillMonitor
  BY <1>2, OnceMonitor, OnceFiled DEF Monitor
<1>3. CASE Publisher \/ KillPublisher
  BY <1>3, OncePublisher
<1>4. ASSUME NEW k \in Processors, Analyse(k) \/ (WorkerDies /\ k = Zeek) PROVE Once'
  <2>1. Ran(k) /\ queue[k] # <<>>
        /\ UNCHANGED <<is, sent, seen, mon, processed, found, pub, again>>
    BY <1>4 DEF Analyse, WorkerDies, upVars, users, pubVars
  <2> QED BY <2>1, OnceRan
<1>5. ASSUME NEW k \in Processors, RestartProcessor(k) PROVE Once'
  <2>1. /\ UNCHANGED <<is, sent, seen, mon, found, pub, again, runs>>
        /\ queue' = [queue EXCEPT ![k] = <<>>] /\ queue \in [Processors -> Seq(Names)]
    BY <1>5 DEF RestartProcessor, upVars, users, IInv, TypeOK
  <2>2. \A j \in Processors : queue'[j] = queue[j] \/ Len(queue'[j]) = 0
    BY <2>1
  <2>3. ASSUME NEW u \in Uploads
        PROVE  /\ Target(u)' = Target(u) /\ Shared(u)' = Shared(u)
               /\ FiledOnce(u)' = FiledOnce(u) /\ ToldOnce(u)' = ToldOnce(u)
               /\ ToFile(u)' = ToFile(u) /\ ToTell(u)' = ToTell(u)
    BY <2>1, SameUploads DEF FiledOnce, ToldOnce, ToFile, ToTell, Handled, Announced
  <2>4. ASSUME NEW u \in Uploads, NEW j \in Processors, RunOnce(j, u) PROVE RunOnce(j, u)'
    BY <2>1, <2>2, <2>3, <2>4 DEF RunOnce, Queued
  <2> QED BY <2>1, <2>3, <2>4 DEF Once
<1>6. CASE Refresh \/ (\E k \in Processors : Subscribe(k)) \/ UNCHANGED vars
  <2>1. UNCHANGED <<is, sent, seen, mon, found, pub, again, runs, queue>>
    BY <1>6 DEF Refresh, Subscribe, vars, upVars, users, behind, pubVars, workVars
  <2>2. ASSUME NEW u \in Uploads PROVE FiledOnce(u)' = FiledOnce(u) /\ ToFile(u)' = ToFile(u)
    BY <2>1 DEF FiledOnce, ToFile, Handled
  <2> QED BY <2>1, <2>2, NotFiledOK
<1> QED BY <1>1, <1>2, <1>3, <1>4, <1>5, <1>6 DEF Next, Faults, Processors

-----------------------------------------------------------------------------
(* No upload is forgotten.                                                 *)

\* What is analysed is a capture under the name that is announced.
Content ==
  \A n \in Names : processed[n] # None /\ processed[n].kind = "capture" =>
    LET u == processed[n].of IN u \in Uploads /\ n = Target(u) /\ is[u].kind \in {"capture", "packed"}

Announces ==
  pub.at = "announce" =>
    /\ pub.held \in Uploads /\ pub.name = Target(pub.held)
    /\ is[pub.held].kind \in {"capture", "packed"}

\* Arkime has run on what it has recorded, under one of its names.
RanAs(n, s, w) == n \in NamesOf(w) /\ is[w].size = s /\ runs[Arkime][w] > 0
Answers ==
  /\ index \subseteq recorded
  /\ \A r \in recorded : \E w \in Uploads : RanAs(r[1], r[2], w)

\* A file in upload/ is one the watch or the monitor has yet to act on.
Watched(u) ==
  InUpload(u) /\ u \notin torn \cup stranded =>
    is[u].name \in seen \/ (mon.at \in Working /\ mon.name = is[u].name)

\* It may still be filed, again even when the monitor was killed in the middle.
CanFile(u) ==
  \/ u \notin sent
  \/ InUpload(u) /\ ~(mon.at = "remove" /\ mon.held = u)
  \/ mon.at = "place" /\ mon.held = u

\* Announced, or a trace of it, with Arkime.
Noted(u) == Queued(Arkime, u) \/ <<Target(u), is[u].size>> \in recorded

FiledLast(u) ==
  ~Twins(Zeek, u) /\ u \notin stranded /\ (IsFiled(u) \/ Announced(u) \/ Noted(u)) => ~CanFile(u)

\* The publisher has yet to tell of it, or has told a processor.
Coming(u) == pub.at = "down" \/ Target(u) \in found \/ (Announced(u) /\ pub.held = u)
ToldTo(k, u) == Queued(k, u) \/ runs[k][u] > 0 \/ u \in missed[k]

TellsAll(u) ==
  IsFiled(u) /\ u \notin stranded =>
    \A k \in Processors : Coming(u) \/ ToldTo(k, u) \/ Twins(k, u)

\* What Arkime was told of Zeek was told of: the index may answer for both.
TellsBoth(u) ==
  IsFiled(u) /\ u \notin stranded /\ ~Twins(Zeek, u) /\ Noted(u) => ToldTo(Zeek, u)

Tells == \A u \in Uploads : Watched(u) /\ FiledLast(u) /\ TellsAll(u) /\ TellsBoth(u)

TellInv == Content /\ Announces /\ Answers /\ Tells

LEMMA TellInit == Init => TellInv
<1> SUFFICES ASSUME Init PROVE TellInv
  OBVIOUS
<1> USE PcapPipelineAssumption
<1>1. IInv
  BY InitOK
<1>2. Content /\ Announces /\ Answers
  BY DEF Init, Content, Announces, Answers, Idle
<1>3. ASSUME NEW u \in Uploads
      PROVE  Watched(u) /\ FiledLast(u) /\ TellsAll(u) /\ TellsBoth(u)
  <2>1. is[u].name \in Names /\ Target(u) \in Names
    BY <1>1, OwnNames
  <2>2. ~InUpload(u) /\ ~Announced(u)
    BY <2>1 DEF Init, InUpload, Announced, Idle
  <2>4. ~IsFiled(u)
    <3>1. [of |-> u, kind |-> "capture"] \in Files
      BY DEF Files, Kinds
    <3> QED BY <2>1, <3>1 DEF Init, IsFiled
  <2>3. ~Noted(u)
    BY DEF Init, Noted, Queued, Processors
  <2> QED BY <2>2, <2>3, <2>4 DEF Watched, FiledLast, TellsAll, TellsBoth
<1> QED BY <1>2, <1>3 DEF TellInv, Tells

LEMMA SameTwins ==
  ASSUME UNCHANGED is
  PROVE  \A k, u : Twins(k, u)' = Twins(k, u)
BY DEF Twins, Target, NamesOf

\* A file that is not the one under its name is not in upload/.
LEMMA GoneFromUpload ==
  ASSUME IInv, NEW u \in Uploads, UNCHANGED is,
         upload' = upload \/ (mon.name \in Names /\ upload' = Taken(mon.name))
  PROVE  /\ InUpload(u)' => InUpload(u)
         /\ mon.name = is[u].name /\ upload' = Taken(mon.name) => ~InUpload(u)'
<1>1. is[u].name \in Names /\ upload \in [Names -> Entries] /\ u # None
  BY OwnNames, PcapPipelineAssumption DEF IInv, TypeOK
<1> QED BY <1>1 DEF InUpload, Taken


Elsewhere == UNCHANGED <<is, sent, torn, stranded, pub, up, missed, again, queue, alive, runs, recorded, index>>

\* What a step of the monitor does to upload/ and to itself: it takes up a name,
\* is started, ends with the entry gone, goes on with it, or has unpacked it.
TakesUp ==
  /\ mon.at = "idle" /\ upload' = upload
  /\ \E n \in Names : /\ n \in seen /\ seen' = seen \ {n}
                      /\ (upload[n] = None /\ mon'.at = "idle") \/ (mon'.at = "open" /\ mon'.name = n)
Starts == mon.at = "down" /\ mon'.at = "idle" /\ UNCHANGED <<seen, upload>>
Ends ==
  /\ mon.at \in Working /\ seen' = seen /\ mon'.at = "idle"
  /\ (upload[mon.name] = None /\ upload' = upload) \/ upload' = Taken(mon.name)
GoesOn ==
  /\ mon.at \in Working \ {"remove"} /\ UNCHANGED <<seen, upload>>
  /\ mon'.at \in Working \ {"place"} /\ mon'.name = mon.name
  /\ mon'.at = "remove" => mon.at = "place" /\ mon'.held = mon.held
Unpacks ==
  /\ mon.at = "unpack" /\ upload[mon.name] # None /\ UNCHANGED <<seen, upload>>
  /\ mon'.at = "place" /\ mon'.name = mon.name /\ mon'.held = upload[mon.name]

LEMMA MonitorSteps ==
  ASSUME IInv, Monitor \/ WriteFails
  PROVE  Elsewhere /\ (TakesUp \/ Starts \/ Ends \/ GoesOn \/ Unpacks)
<1>1. ASSUME NEW n \in Names, HandOver(n) PROVE Elsewhere /\ TakesUp
  <2>1. Elsewhere /\ upload' = upload /\ mon.at = "idle" /\ n \in seen /\ seen' = seen \ {n}
    BY <1>1 DEF HandOver, Idle, Elsewhere, users, behind, pubVars, workVars
  <2>2. (upload[n] = None /\ mon' = Idle) \/ mon' = Doing("open", n, None)
    BY <1>1 DEF HandOver
  <2> QED BY <2>1, <2>2 DEF TakesUp, Doing, Idle
<1>2. CASE StartMonitor
  BY <1>2 DEF StartMonitor, Elsewhere, Starts, Idle, users, behind, pubVars, workVars
<1>3. CASE Inspect
  <2>1. mon.at = "open" /\ Elsewhere /\ UNCHANGED <<upload, seen>>
    BY <1>3 DEF Inspect, Elsewhere, users, behind, pubVars, workVars
  <2>2. CASE upload[mon.name] = None /\ mon' = Idle
    BY <2>1, <2>2 DEF Ends, Idle, Working
  <2>3. CASE mon' = Doing("check", mon.name, upload[mon.name])
    BY <2>1, <2>3 DEF GoesOn, Doing, Working
  <2> QED BY <1>3, <2>2, <2>3 DEF Inspect
<1>4. CASE Check
  <2>1. mon.at = "check" /\ Elsewhere /\ seen' = seen
    BY <1>4 DEF Check, Elsewhere, users, behind, pubVars, workVars
  <2>2. CASE mon' = Idle /\ upload' = Taken(mon.name)
    BY <2>1, <2>2 DEF Ends, Idle, Working
  <2>3. CASE mon' = Doing(Way(is[mon.held].kind), mon.name, mon.held) /\ upload' = upload
    <3>1. is[mon.held].kind \in Kinds
      BY <2>1 DEF IInv, Held, TypeOK, Upload, Inspected, Working
    <3>2. Way(is[mon.held].kind) \in {"delete", "move", "unpack", "hand on"}
      BY <3>1, WayIs
    <3>3. mon'.at = Way(is[mon.held].kind) /\ mon'.name = mon.name
      BY <2>3 DEF Doing
    <3> QED BY <2>1, <2>3, <3>2, <3>3 DEF GoesOn, Working
  <2> QED BY <1>4, <2>2, <2>3 DEF Check
<1>5. CASE Delete \/ Remove \/ Unlink \/ WriteFails
  <2>1. Elsewhere /\ seen' = seen /\ mon' = Idle /\ upload' = Taken(mon.name)
    BY <1>5 DEF Delete, Remove, Unlink, WriteFails, Elsewhere, users, behind, pubVars, workVars
  <2>2. mon.at \in Working
    BY <1>5 DEF Delete, Remove, Unlink, WriteFails, Working
  <2> QED BY <2>1, <2>2 DEF Ends, Idle
<1>6. CASE Unpack
  <2>1. mon.at = "unpack" /\ Elsewhere /\ seen' = seen
    BY <1>6 DEF Unpack, Elsewhere, users, behind, pubVars, workVars
  <2>2. CASE mon' = Idle /\ upload' = Taken(mon.name)
    BY <2>1, <2>2 DEF Ends, Idle, Working
  <2>3. CASE mon' = Doing("hand on", mon.name, mon.held) /\ upload' = upload
    BY <2>1, <2>3 DEF GoesOn, Doing, Working
  <2>4. CASE /\ upload[mon.name] # None /\ upload' = upload
             /\ mon' = Doing("place", mon.name, upload[mon.name])
    BY <2>1, <2>4 DEF Unpacks, Doing
  <2> QED BY <1>6, <2>2, <2>3, <2>4 DEF Unpack
<1>7. CASE Move
  <2>1. mon.at = "move" /\ mon' = Idle /\ Elsewhere /\ seen' = seen
    BY <1>7 DEF Move, Elsewhere, users, workVars
  <2>2. (upload[mon.name] = None /\ upload' = upload) \/ upload' = Taken(mon.name)
    BY <1>7 DEF Move
  <2> QED BY <2>1, <2>2 DEF Ends, Idle, Working
<1>8. CASE Place
  <2>1. /\ mon.at = "place" /\ mon' = Doing("remove", mon.name, mon.held)
        /\ Elsewhere /\ UNCHANGED <<upload, seen>>
    BY <1>8 DEF Place, Elsewhere, users, workVars
  <2> QED BY <2>1 DEF GoesOn, Doing, Working
<1>9. CASE HandOn
  <2>1. mon.at = "hand on" /\ Elsewhere /\ UNCHANGED <<upload, seen>>
    BY <1>9 DEF HandOn, Elsewhere, users, behind, pubVars, workVars
  <2>2. CASE upload[mon.name] = None /\ mon' = Idle
    BY <2>1, <2>2 DEF Ends, Idle, Working
  <2>3. CASE mon' = Doing("copy", mon.name, upload[mon.name])
    BY <2>1, <2>3 DEF GoesOn, Doing, Working
  <2> QED BY <1>9, <2>2, <2>3 DEF HandOn
<1>10. CASE Copied
  <2>1. /\ mon.at = "copy" /\ mon' = Doing("unlink", mon.name, mon.held)
        /\ Elsewhere /\ UNCHANGED <<upload, seen>>
    BY <1>10 DEF Copied, Elsewhere, users, behind, pubVars, workVars
  <2> QED BY <2>1 DEF GoesOn, Doing, Working
<1> QED BY <1>1, <1>2, <1>3, <1>4, <1>5, <1>6, <1>7, <1>8, <1>9, <1>10 DEF Monitor

\* What may be filed could be before, and what is in upload/ stays watched,
\* unless its copy is broken off or the monitor is killed.
LEMMA MonitorUpload ==
  ASSUME IInv, Monitor \/ WriteFails \/ CopyFails \/ KillMonitor, NEW u \in Uploads
  PROVE  /\ u \notin stranded' /\ CanFile(u)' => CanFile(u)
         /\ Watched(u) => Watched(u)'
<1>1. CASE KillMonitor
  <2>1. /\ UNCHANGED <<is, sent, upload>> /\ mon' = Doing("down", None, None)
        /\ stranded' = stranded \cup {v \in Uploads : \E n \in Names : upload[n] = v}
    BY <1>1 DEF KillMonitor, users
  <2>2. is[u].name \in Names
    BY OwnNames
  <2>3. InUpload(u)' => u \in stranded'
    BY <2>1, <2>2 DEF InUpload
  <2> QED BY <2>1, <2>3 DEF CanFile, Watched, Doing
<1>2. CASE CopyFails
  <2>1. /\ UNCHANGED <<is, sent, upload, seen, stranded>> /\ mon.at = "copy" /\ mon' = Idle
        /\ torn' = torn \cup {mon.held}
    BY <1>2 DEF CopyFails, users
  <2>2. InUpload(u)' = InUpload(u) /\ (CanFile(u)' => CanFile(u))
    BY <2>1 DEF InUpload, CanFile, Idle
  <2>3. InUpload(u) /\ u # mon.held /\ mon.name = is[u].name => is[u].name \in seen
    BY <2>1 DEF InUpload, IInv, Held
  <2> QED BY <2>1, <2>2, <2>3 DEF Watched
<1>3. CASE Monitor \/ WriteFails
  <2>1. UNCHANGED <<is, sent, torn, stranded>> /\ (TakesUp \/ Starts \/ Ends \/ GoesOn \/ Unpacks)
    BY <1>3, MonitorSteps DEF Elsewhere
  <2>2. /\ u # None
        /\ upload' = upload => InUpload(u)' = InUpload(u)
        /\ upload' = upload \/ (mon.name \in Names /\ upload' = Taken(mon.name)) =>
             (InUpload(u)' => InUpload(u))
    BY <2>1, GoneFromUpload, PcapPipelineAssumption DEF InUpload
  <2>3. /\ mon.at \in Inspected => mon.held \in sent /\ is[mon.held].name = mon.name
        /\ mon.at \in Working => mon.name \in Names
        /\ upload[mon.name] = u /\ mon.at \in Working => is[u].name = mon.name
    BY <2>2 DEF IInv, Held, Places
  <2>4. CASE TakesUp
    BY <2>1, <2>2, <2>4 DEF CanFile, Watched, InUpload, TakesUp, Working
  <2>5. CASE Starts
    BY <2>1, <2>2, <2>5 DEF CanFile, Watched, Starts, Working
  <2>6. CASE Ends
    <3>1. mon.name = is[u].name => ~InUpload(u)'
      BY <2>1, <2>2, <2>3, <2>6, GoneFromUpload DEF InUpload, Ends
    <3>2. mon.at = "remove" /\ mon.held = u => mon.name = is[u].name
      BY <2>3 DEF Inspected, Working
    <3> QED BY <2>1, <2>2, <2>3, <2>6, <3>1, <3>2 DEF CanFile, Watched, Ends, Working
  <2>7. CASE GoesOn
    BY <2>1, <2>2, <2>7 DEF CanFile, Watched, GoesOn
  <2>8. CASE Unpacks
    <3>1. mon'.held = u => InUpload(u)
      BY <2>3, <2>8 DEF InUpload, Unpacks, Working
    <3>2. mon'.at \in Working
      BY <2>8 DEF Unpacks, Working
    <3> QED BY <2>1, <2>2, <2>8, <3>1, <3>2 DEF CanFile, Watched, Unpacks
  <2> QED BY <2>1, <2>4, <2>5, <2>6, <2>7, <2>8
<1> QED BY <1>1, <1>2, <1>3

LEMMA PutUpload ==
  ASSUME IInv, NEW v \in Uploads, Put(v), NEW u \in Uploads
  PROVE  /\ CanFile(u)' => CanFile(u)
         /\ Watched(u) => Watched(u)'
<1>1. /\ UNCHANGED <<is, mon, torn>> /\ v \notin sent /\ sent' = sent \cup {v}
      /\ upload' = [upload EXCEPT ![is[v].name] = v]
      /\ stranded \subseteq stranded' /\ seen \subseteq seen'
      /\ v \in stranded' \/ is[v].name \in seen'
  BY DEF Put
<1>2. is[u].name \in Names /\ upload \in [Names -> Entries]
  BY OwnNames DEF IInv, TypeOK
<1>3. CASE u = v
  BY <1>1, <1>3 DEF CanFile, Watched
<1>4. CASE u # v
  <2>1. InUpload(u)' => InUpload(u)
    BY <1>1, <1>2, <1>4 DEF InUpload
  <2> QED BY <1>1, <1>4, <2>1 DEF CanFile, Watched
<1> QED BY <1>3, <1>4
\* What is said of an upload that was there before.
LEMMA SameFile ==
  ASSUME UNCHANGED <<is, processed>>
  PROVE  \A u : IsFiled(u)' = IsFiled(u)
BY DEF IsFiled, Target

LEMMA SameUpload ==
  ASSUME UNCHANGED upVars
  PROVE  \A u : CanFile(u)' = CanFile(u) /\ Watched(u)' = Watched(u)
BY DEF upVars, users, CanFile, Watched, InUpload

\* Steps that nothing is filed, announced or run in.
LEMMA TellAside ==
  ASSUME TellInv, UNCHANGED <<is, processed, found, pub, queue, runs, missed, recorded>>,
         index' \subseteq recorded, stranded \subseteq stranded',
         \A u \in Uploads : /\ u \notin stranded' /\ CanFile(u)' => CanFile(u)
                            /\ Watched(u) => Watched(u)'
  PROVE  TellInv'
<1>1. Content' /\ Announces'
  BY DEF TellInv, Content, Announces, Target
<1>2. Answers'
  BY DEF TellInv, Answers, RanAs, NamesOf
<1>3. ASSUME NEW u \in Uploads
      PROVE  Watched(u)' /\ FiledLast(u)' /\ TellsAll(u)' /\ TellsBoth(u)'
  <2>1. /\ Watched(u) /\ FiledLast(u) /\ TellsAll(u) /\ TellsBoth(u)
        /\ IsFiled(u)' = IsFiled(u) /\ \A k : Twins(k, u)' = Twins(k, u)
        /\ u \notin stranded' => u \notin stranded
    BY SameFile, SameTwins DEF TellInv, Tells
  <2>2. /\ Announced(u)' = Announced(u) /\ Noted(u)' = Noted(u) /\ Coming(u)' = Coming(u)
        /\ \A k \in Processors : ToldTo(k, u)' = ToldTo(k, u)
    BY DEF Announced, Noted, Queued, Coming, ToldTo, Target
  <2>3. Zeek \in Processors
    BY DEF Processors
  <2> QED BY <2>1, <2>2, <2>3 DEF FiledLast, TellsAll, TellsBoth
<1> QED BY <1>1, <1>2, <1>3 DEF TellInv, Tells

\* An upload is filed: the last chance there was to file it is taken.
LEMMA TellFiled ==
  ASSUME IInv, TellInv, NEW f \in Uploads, NEW n \in Names, NEW kind \in Kinds,
         Filed(n, [of |-> f, kind |-> kind]),
         kind = "capture" => n = Target(f) /\ is[f].kind \in {"capture", "packed"},
         UNCHANGED <<is, pub, queue, runs, missed, recorded, index, stranded>>,
         CanFile(f), ~CanFile(f)',
         \A u \in Uploads : (CanFile(u)' => CanFile(u)) /\ (Watched(u) => Watched(u)')
  PROVE  TellInv'
<1>1. /\ processed' = [processed EXCEPT ![n] = [of |-> f, kind |-> kind]]
      /\ processed \in [Names -> Files \cup {None}]
      /\ found \subseteq found' /\ (n \in found' \/ pub.at = "down")
  BY DEF Filed, IInv, TypeOK
<1>2. Content'
  BY <1>1 DEF TellInv, Content, Target
<1>3. Announces' /\ Answers'
  BY DEF TellInv, Announces, Answers, RanAs, NamesOf, Target
<1>4. ASSUME NEW u \in Uploads
      PROVE  Watched(u)' /\ FiledLast(u)' /\ TellsAll(u)' /\ TellsBoth(u)'
  <2>1. /\ Watched(u) /\ FiledLast(u) /\ TellsAll(u) /\ TellsBoth(u)
        /\ Target(u)' = Target(u) /\ Target(u) \in Names
        /\ \A k : Twins(k, u)' = Twins(k, u)
    BY OwnNames, SameTwins, SameUploads DEF TellInv, Tells
  <2>2. /\ Announced(u)' = Announced(u) /\ Noted(u)' = Noted(u) /\ (Coming(u) => Coming(u)')
        /\ \A k \in Processors : ToldTo(k, u)' = ToldTo(k, u)
    BY <1>1 DEF Announced, Noted, Queued, Coming, ToldTo, Target
  <2>3. Zeek \in Processors
    BY DEF Processors
  <2>4. CASE n # Target(u)
    <3>1. IsFiled(u)' = IsFiled(u)
      BY <1>1, <2>1, <2>4 DEF IsFiled
    <3> QED BY <2>1, <2>2, <2>3, <3>1 DEF FiledLast, TellsAll, TellsBoth
  <2>5. CASE n = Target(u) /\ f # u
    <3>1. ~IsFiled(u)'
      <4>1. processed'[Target(u)] = [of |-> f, kind |-> kind]
        BY <1>1, <2>5
      <4>2. [of |-> f, kind |-> kind] # [of |-> u, kind |-> "capture"]
        BY <2>5
      <4> QED BY <2>1, <4>1, <4>2 DEF IsFiled
    <3> QED BY <2>1, <2>2, <3>1 DEF FiledLast, TellsAll, TellsBoth
  <2>6. CASE n = Target(u) /\ f = u
    <3>1. ~CanFile(u)' /\ CanFile(u)
      BY <2>6
    <3>2. Coming(u)'
      BY <1>1, <2>1, <2>6 DEF Coming
    <3> QED BY <2>1, <2>2, <3>1, <3>2 DEF FiledLast, TellsAll, TellsBoth
  <2> QED BY <2>4, <2>5, <2>6
<1> QED BY <1>2, <1>3, <1>4 DEF TellInv, Tells

LEMMA TellFiling == ASSUME IInv, TellInv, Move \/ Place PROVE TellInv'
<1>1. /\ Elsewhere /\ (TakesUp \/ Starts \/ Ends \/ GoesOn \/ Unpacks)
      /\ Move \/ Place => Monitor
  BY MonitorSteps DEF Monitor
<1>2. \A u \in Uploads : (u \notin stranded' /\ CanFile(u)' => CanFile(u)) /\ (Watched(u) => Watched(u)')
  BY <1>1, MonitorUpload
<1>3. UNCHANGED <<is, sent, pub, queue, runs, missed, recorded, index, stranded>>
  BY <1>1 DEF Elsewhere
<1>4. \A u \in Uploads : (CanFile(u)' => CanFile(u)) /\ (Watched(u) => Watched(u)')
  <2> SUFFICES ASSUME NEW u \in Uploads, CanFile(u)', ~CanFile(u) PROVE FALSE
    BY <1>2
  <2>1. mon.at \in {"move", "place"} /\ mon'.at \in {"idle", "remove"}
    BY DEF Move, Place, Idle, Doing
  <2>2. InUpload(u)' => InUpload(u)
    <3>1. mon.name \in Names
      BY <2>1 DEF IInv, Held, Working
    <3>2. upload' = upload \/ upload' = Taken(mon.name)
      BY DEF Move, Place
    <3> QED BY <1>3, <3>1, <3>2, GoneFromUpload
  <2> QED BY <1>3, <2>1, <2>2 DEF CanFile
<1>5. CASE Move /\ upload[mon.name] = None
  BY <1>3, <1>4, <1>5, TellAside DEF Move, TellInv, Answers
<1>6. CASE Move /\ upload[mon.name] # None
  <2>1. mon.at = "move" /\ mon.name \in Names
    BY <1>6 DEF Move, IInv, Held, Working
  <2>2. PICK f \in Uploads : f = upload[mon.name]
    BY <1>6, <2>1 DEF IInv, TypeOK, Entries
  <2>3. f \in sent /\ is[f].name = mon.name /\ is[f].kind \in Kinds
    BY <1>6, <2>1, <2>2 DEF IInv, Places, TypeOK, Upload
  <2>4. Filed(mon.name, [of |-> f, kind |-> is[f].kind]) /\ upload' = Taken(mon.name) /\ mon' = Idle
    BY <1>6, <2>2 DEF Move
  <2>5. CanFile(f)
    BY <2>1, <2>2, <2>3 DEF CanFile, InUpload
  <2>6. ~CanFile(f)'
    <3>1. ~InUpload(f)'
      BY <1>3, <2>1, <2>3, <2>4, GoneFromUpload
    <3> QED BY <1>3, <2>3, <2>4, <3>1 DEF CanFile, Idle
  <2>7. is[f].kind = "capture" => mon.name = Target(f)
    BY <2>3 DEF Target
  <2> QED BY <1>3, <1>4, <2>1, <2>3, <2>4, <2>5, <2>6, <2>7, TellFiled
<1>7. CASE Place
  <2>1. /\ mon.at = "place" /\ mon.name \in Names /\ mon.held \in Uploads /\ mon.held \in sent
        /\ is[mon.held].name = mon.name /\ is[mon.held].kind = "packed"
    BY <1>7 DEF Place, IInv, Held, TypeOK, Inspected, Working
  <2>2. PICK f \in Uploads : f = mon.held
    BY <2>1
  <2>3. PICK n \in Names : n = Plain[mon.name]
    BY <2>1, PcapPipelineAssumption
  <2>4. n = Target(f) /\ is[f].kind = "packed"
    BY <2>1, <2>2, <2>3 DEF Target
  <2>5. Filed(n, [of |-> f, kind |-> "capture"]) /\ mon' = Doing("remove", mon.name, f)
    BY <1>7, <2>2, <2>3 DEF Place
  <2>6. CanFile(f)
    BY <2>1, <2>2 DEF CanFile
  <2>7. ~CanFile(f)'
    BY <1>3, <2>1, <2>2, <2>5 DEF CanFile, Doing
  <2>8. "capture" \in Kinds
    BY DEF Kinds
  <2> QED BY <1>3, <1>4, <2>4, <2>5, <2>6, <2>7, <2>8, TellFiled
<1> QED BY <1>5, <1>6, <1>7
\* The publisher takes a name that was found, announces it or passes it over.
LEMMA TellFind ==
  ASSUME IInv, TellInv, NEW n \in Names, Find(n)
  PROVE  TellInv'
<1>1. /\ UNCHANGED <<upVars, processed, queue, runs, missed, recorded, index>> /\ UNCHANGED is
      /\ pub.at = "idle" /\ found' = found \ {n}
  BY DEF Find, Idle, workVars, upVars, users
<1>2. \/ /\ processed[n] # None /\ processed[n].kind = "capture"
         /\ pub'.at = "announce" /\ pub'.name = n /\ pub'.held = processed[n].of
      \/ (processed[n] = None \/ processed[n].kind # "capture") /\ pub'.at = "idle"
  BY DEF Find, Idle, Doing
<1>3. Content' /\ Answers'
  BY <1>1 DEF TellInv, Content, Answers, RanAs, NamesOf, Target
<1>4. Announces'
  BY <1>1, <1>2 DEF TellInv, Content, Announces, Target
<1>5. ASSUME NEW u \in Uploads
      PROVE  Watched(u)' /\ FiledLast(u)' /\ TellsAll(u)' /\ TellsBoth(u)'
  <2>1. /\ Watched(u) /\ FiledLast(u) /\ TellsAll(u) /\ TellsBoth(u)
        /\ Target(u)' = Target(u)
        /\ \A k : Twins(k, u)' = Twins(k, u)
        /\ IsFiled(u)' = IsFiled(u) /\ CanFile(u)' = CanFile(u) /\ Watched(u)' = Watched(u)
        /\ stranded' = stranded
    BY <1>1, SameTwins, SameUploads, SameFile, SameUpload DEF TellInv, Tells, upVars
  <2>2. /\ Noted(u)' = Noted(u)
        /\ \A k \in Processors : ToldTo(k, u)' = ToldTo(k, u)
    BY <1>1 DEF Noted, Queued, ToldTo, Target
  <2>3. IsFiled(u) /\ n = Target(u) =>
          processed[n] # None /\ processed[n].kind = "capture" /\ processed[n].of = u
    <3>1. [of |-> u, kind |-> "capture"] \in Files
      BY DEF Files, Kinds
    <3> QED BY <3>1, PcapPipelineAssumption DEF IsFiled
  <2>4. IsFiled(u) /\ Coming(u) => Coming(u)'
    BY <1>1, <1>2, <2>1, <2>3 DEF Coming, Announced
  <2>5. Announced(u)' /\ ~Twins(Zeek, u) => IsFiled(u)
    <3> SUFFICES ASSUME Announced(u)', ~Twins(Zeek, u) PROVE IsFiled(u)
      OBVIOUS
    <3>1. n = Target(u) /\ processed[n] # None /\ processed[n].kind = "capture"
      BY <1>2, <2>1 DEF Announced
    <3>2. /\ processed[n] \in Files /\ processed[n].of \in Uploads /\ n = Target(processed[n].of)
          /\ is[processed[n].of].kind \in {"capture", "packed"}
      BY <3>1 DEF TellInv, Content, IInv, TypeOK
    <3>3. processed[n].of = u
      BY <3>1, <3>2 DEF Twins
    <3> QED BY <3>1, <3>2, <3>3 DEF IsFiled, Files
  <2>6. Zeek \in Processors
    BY DEF Processors
  <2> QED BY <2>1, <2>2, <2>4, <2>5, <2>6 DEF FiledLast, TellsAll, TellsBoth
<1> QED BY <1>3, <1>4, <1>5 DEF TellInv, Tells

\* A capture that is passed over was analysed, or one of its names and size was.
LEMMA TellSkip ==
  ASSUME IInv, TellInv, Skip
  PROVE  TellInv'
<1>1. /\ UNCHANGED <<upVars, processed, found, queue, runs, missed, recorded, index>> /\ UNCHANGED is
      /\ pub.at = "announce" /\ pub'.at = "idle" /\ <<pub.name, is[pub.held].size>> \in index
  BY DEF Skip, Idle, Key, workVars, upVars, users
<1>2. Content' /\ Answers' /\ Announces'
  BY <1>1 DEF TellInv, Content, Answers, Announces, RanAs, NamesOf, Target
<1>3. ASSUME NEW u \in Uploads
      PROVE  Watched(u)' /\ FiledLast(u)' /\ TellsAll(u)' /\ TellsBoth(u)'
  <2>1. /\ Watched(u) /\ FiledLast(u) /\ TellsAll(u) /\ TellsBoth(u)
        /\ Target(u)' = Target(u)
        /\ \A k : Twins(k, u)' = Twins(k, u)
        /\ IsFiled(u)' = IsFiled(u) /\ CanFile(u)' = CanFile(u) /\ Watched(u)' = Watched(u)
        /\ stranded' = stranded
    BY <1>1, SameTwins, SameUploads, SameFile, SameUpload DEF TellInv, Tells, upVars
  <2>2. /\ Noted(u)' = Noted(u) /\ ~Announced(u)'
        /\ \A k \in Processors : ToldTo(k, u)' = ToldTo(k, u)
    BY <1>1 DEF Announced, Noted, Queued, ToldTo, Target
  <2>3. ASSUME Announced(u), pub.held = u, IsFiled(u), u \notin stranded, NEW k \in Processors,
               ~Twins(k, u)
        PROVE  ToldTo(k, u)
    <3>1. <<Target(u), is[u].size>> \in recorded
      BY <1>1, <2>3 DEF Announced, TellInv, Answers
    <3>2. PICK w \in Uploads : RanAs(Target(u), is[u].size, w)
      BY <3>1 DEF TellInv, Answers
    <3>3. CASE k = Zeek
      BY <2>1, <2>3, <3>1, <3>3 DEF TellsBoth, Noted
    <3>4. CASE k = Arkime
      <4>1. w = u
        BY <2>3, <3>2 DEF RanAs, Twins
      <4> QED BY <3>2, <3>4, <4>1 DEF RanAs, ToldTo
    <3> QED BY <3>3, <3>4 DEF Processors
  <2>4. Coming(u) => Coming(u)' \/ (Announced(u) /\ pub.held = u)
    BY <1>1, <2>1 DEF Coming
  <2>5. Zeek \in Processors
    BY DEF Processors
  <2> QED BY <2>1, <2>2, <2>3, <2>4, <2>5 DEF FiledLast, TellsAll, TellsBoth
<1> QED BY <1>2, <1>3 DEF TellInv, Tells

\* Whoever is subscribed queues the name, the others miss the capture.
LEMMA TellAnnounce ==
  ASSUME IInv, TellInv, NEW answered \in BOOLEAN, Announce(answered)
  PROVE  TellInv'
<1>1. /\ UNCHANGED <<upVars, processed, found, runs, recorded, index>> /\ UNCHANGED is
      /\ pub.at = "announce" /\ pub'.at = "idle" /\ pub.name \in Names
  BY DEF Announce, Idle, workVars, upVars, users, IInv, Told
<1>2. /\ queue' = [k \in Processors |-> IF k \in up THEN Append(queue[k], pub.name) ELSE queue[k]]
      /\ missed' = [k \in Processors |-> IF k \in up THEN missed[k] ELSE missed[k] \cup {pub.held}]
      /\ \A k \in Processors : queue[k] \in Seq(Names)
  BY DEF Announce, IInv, TypeOK
<1>3. Content' /\ Answers' /\ Announces'
  BY <1>1 DEF TellInv, Content, Answers, Announces, RanAs, NamesOf, Target
<1>4. ASSUME NEW u \in Uploads
      PROVE  Watched(u)' /\ FiledLast(u)' /\ TellsAll(u)' /\ TellsBoth(u)'
  <2>1. /\ Watched(u) /\ FiledLast(u) /\ TellsAll(u) /\ TellsBoth(u)
        /\ Target(u)' = Target(u)
        /\ \A k : Twins(k, u)' = Twins(k, u)
        /\ IsFiled(u)' = IsFiled(u) /\ CanFile(u)' = CanFile(u) /\ Watched(u)' = Watched(u)
        /\ stranded' = stranded /\ ~Announced(u)'
    BY <1>1, SameTwins, SameUploads, SameFile, SameUpload DEF TellInv, Tells, upVars, Announced
  <2>2. ASSUME NEW k \in Processors
        PROVE  /\ Queued(k, u) => Queued(k, u)'
               /\ Queued(k, u)' => Queued(k, u) \/ Announced(u)
               /\ ToldTo(k, u) => ToldTo(k, u)'
               /\ Announced(u) /\ pub.held = u => ToldTo(k, u)'
    <3>1. CASE k \notin up
      <4>1. queue'[k] = queue[k] /\ missed'[k] = missed[k] \cup {pub.held}
        BY <1>2, <3>1
      <4> QED BY <1>1, <2>1, <4>1 DEF Queued, ToldTo
    <3>2. CASE k \in up
      <4>1. queue'[k] = Append(queue[k], pub.name) /\ missed'[k] = missed[k]
        BY <1>2, <3>2
      <4>2. /\ Len(queue[k]) \in Nat /\ Len(queue'[k]) = Len(queue[k]) + 1
            /\ \A i \in 1..Len(queue[k]) : queue'[k][i] = queue[k][i]
            /\ queue'[k][Len(queue[k]) + 1] = pub.name
        BY <1>1, <1>2, <4>1, AppendProperties, LenProperties
      <4>3. Queued(k, u) => Queued(k, u)'
        BY <2>1, <4>2 DEF Queued
      <4>4. Queued(k, u)' => Queued(k, u) \/ Announced(u)
        <5> SUFFICES ASSUME NEW i \in 1..Len(queue'[k]), queue'[k][i] = Target(u)
                     PROVE  Queued(k, u) \/ Announced(u)
          BY <2>1 DEF Queued
        <5>1. CASE i \in 1..Len(queue[k])
          BY <4>2, <5>1 DEF Queued
        <5>2. CASE i = Len(queue[k]) + 1
          BY <1>1, <4>2, <5>2 DEF Announced
        <5> QED BY <4>2, <5>1, <5>2
      <4>5. Announced(u) => Queued(k, u)'
        <5>1. Len(queue[k]) + 1 \in 1..Len(queue'[k])
          BY <4>2
        <5> QED BY <2>1, <4>2, <5>1 DEF Queued, Announced
      <4> QED BY <1>1, <4>1, <4>3, <4>4, <4>5 DEF ToldTo
    <3> QED BY <3>1, <3>2
  <2>3. Arkime \in Processors /\ Zeek \in Processors
    BY DEF Processors
  <2>4. Noted(u)' => Noted(u) \/ Announced(u)
    BY <1>1, <2>1, <2>2, <2>3 DEF Noted
  <2>5. Announced(u) /\ ~Twins(Zeek, u) => pub.held = u
    BY <1>1 DEF Announced, TellInv, Announces, Twins
  <2>6. Coming(u) => Coming(u)' \/ (Announced(u) /\ pub.held = u)
    BY <1>1, <2>1 DEF Coming
  <2>7. FiledLast(u)'
    BY <2>1, <2>4 DEF FiledLast
  <2>8. TellsAll(u)'
    BY <2>1, <2>2, <2>6 DEF TellsAll
  <2>9. TellsBoth(u)'
    BY <2>1, <2>2, <2>3, <2>4, <2>5 DEF TellsBoth
  <2> QED BY <2>1, <2>7, <2>8, <2>9
<1> QED BY <1>3, <1>4 DEF TellInv, Tells

\* A publisher that starts again finds all that is there.
LEMMA TellRestart ==
  ASSUME IInv, TellInv, KillPublisher \/ StartPublisher
  PROVE  TellInv'
<1>1. /\ UNCHANGED <<upVars, processed, queue, runs, missed, recorded, index>> /\ UNCHANGED is
      /\ pub'.at \in {"idle", "down"}
      /\ pub'.at = "down" \/ (pub'.at = "idle" /\ found' = Existing)
  BY DEF KillPublisher, StartPublisher, Idle, Doing, workVars, upVars, users
<1>2. Content' /\ Answers' /\ Announces'
  BY <1>1 DEF TellInv, Content, Answers, Announces, RanAs, NamesOf, Target
<1>3. ASSUME NEW u \in Uploads
      PROVE  Watched(u)' /\ FiledLast(u)' /\ TellsAll(u)' /\ TellsBoth(u)'
  <2>1. /\ Watched(u) /\ FiledLast(u) /\ TellsAll(u) /\ TellsBoth(u)
        /\ Target(u)' = Target(u) /\ Target(u) \in Names
        /\ \A k : Twins(k, u)' = Twins(k, u)
        /\ IsFiled(u)' = IsFiled(u) /\ CanFile(u)' = CanFile(u) /\ Watched(u)' = Watched(u)
        /\ stranded' = stranded
    BY <1>1, OwnNames, SameTwins, SameUploads, SameFile, SameUpload DEF TellInv, Tells, upVars
  <2>2. /\ Noted(u)' = Noted(u) /\ ~Announced(u)'
        /\ \A k \in Processors : ToldTo(k, u)' = ToldTo(k, u)
    BY <1>1 DEF Announced, Noted, Queued, ToldTo, Target
  <2>3. IsFiled(u) => Coming(u)'
    <3>1. [of |-> u, kind |-> "capture"] \in Files
      BY DEF Files, Kinds
    <3> QED BY <1>1, <2>1, <3>1, PcapPipelineAssumption DEF IsFiled, Coming, Existing
  <2>4. Zeek \in Processors
    BY DEF Processors
  <2> QED BY <2>1, <2>2, <2>3, <2>4 DEF FiledLast, TellsAll, TellsBoth
<1> QED BY <1>2, <1>3 DEF TellInv, Tells
\* Steps of the processors: who was told of what is still in processed/ stays told.
LEMMA TellProcessed ==
  ASSUME IInv, TellInv, UNCHANGED <<upVars, processed, found, pub, index>>, Answers',
         \A u \in Uploads :
           /\ Noted(u)' => Noted(u)
           /\ \A k \in Processors : IsFiled(u) /\ ToldTo(k, u) => ToldTo(k, u)'
  PROVE  TellInv'
<1>1. UNCHANGED is
  BY DEF upVars, users
<1>2. Content' /\ Announces'
  BY <1>1 DEF TellInv, Content, Announces, Target
<1>3. ASSUME NEW u \in Uploads
      PROVE  Watched(u)' /\ FiledLast(u)' /\ TellsAll(u)' /\ TellsBoth(u)'
  <2>1. /\ Watched(u) /\ FiledLast(u) /\ TellsAll(u) /\ TellsBoth(u)
        /\ Target(u)' = Target(u)
        /\ \A k : Twins(k, u)' = Twins(k, u)
        /\ IsFiled(u)' = IsFiled(u) /\ CanFile(u)' = CanFile(u) /\ Watched(u)' = Watched(u)
        /\ stranded' = stranded
    BY <1>1, SameTwins, SameUploads, SameFile, SameUpload DEF TellInv, Tells, upVars
  <2>2. Announced(u)' = Announced(u) /\ Coming(u)' = Coming(u)
    BY <2>1 DEF Announced, Coming
  <2>3. Zeek \in Processors
    BY DEF Processors
  <2> QED BY <2>1, <2>2, <2>3 DEF FiledLast, TellsAll, TellsBoth
<1> QED BY <1>2, <1>3 DEF TellInv, Tells

LEMMA TellRan ==
  ASSUME IInv, TellInv, NEW k \in Processors, queue[k] # <<>>, Ran(k),
         UNCHANGED <<upVars, processed, pubVars, index>>
  PROVE  TellInv'
<1>1. UNCHANGED <<is, processed, found, pub, missed, index, upVars>>
  BY DEF upVars, users, pubVars
<1> DEFINE n == Head(queue[k])
<1>2. /\ queue[k] \in Seq(Names) /\ n \in Names /\ n = queue[k][1]
      /\ Len(queue[k]) \in Nat /\ Len(queue[k]) >= 1
  <2>1. queue[k] \in Seq(Names)
    BY DEF IInv, TypeOK
  <2>2. Len(queue[k]) \in Nat /\ Len(queue[k]) # 0
    BY <2>1, LenProperties, EmptySeq
  <2> QED BY <2>1, <2>2, HeadTailProperties
<1>3. /\ queue'[k] = Tail(queue[k])
      /\ \A j \in Processors \ {k} : queue'[j] = queue[j] /\ runs'[j] = runs[j]
  BY DEF Ran, IInv, TypeOK
<1>4. /\ Len(queue'[k]) = Len(queue[k]) - 1
      /\ \A i \in 1..Len(queue'[k]) : queue'[k][i] = queue[k][i + 1]
  BY <1>2, <1>3, HeadTailProperties
<1>5. \A u \in Uploads :
        /\ runs[k][u] \in Nat /\ runs'[k][u] \in {runs[k][u], runs[k][u] + 1}
        /\ processed[n] # None /\ processed[n].of = u => runs'[k][u] = runs[k][u] + 1
  BY DEF Ran, IInv, TypeOK
<1>6. \A j \in Processors, u \in Uploads : runs[j][u] > 0 => runs'[j][u] > 0
  BY <1>3, <1>5
<1>7. \A r \in recorded' : \/ r \in recorded
                           \/ /\ k = Arkime /\ processed[n] # None
                              /\ r = <<n, is[processed[n].of].size>>
  BY DEF Ran, Key
<1>8. processed[n] # None => processed[n].of \in Uploads /\ n \in NamesOf(processed[n].of)
  BY <1>2 DEF IInv, Places, TypeOK, Files
<1> HIDE DEF n
<1>9. Answers'
  <2>1. index' \subseteq recorded'
    BY <1>1 DEF Ran, TellInv, Answers
  <2>2. ASSUME NEW r \in recorded' PROVE \E w \in Uploads : RanAs(r[1], r[2], w)'
    <3>1. CASE r \in recorded
      <4>1. PICK w \in Uploads : RanAs(r[1], r[2], w)
        BY <3>1 DEF TellInv, Answers
      <4>2. RanAs(r[1], r[2], w)'
        BY <1>1, <1>6, <4>1 DEF RanAs, NamesOf, Processors
      <4> QED BY <4>2
    <3>2. CASE k = Arkime /\ processed[n] # None /\ r = <<n, is[processed[n].of].size>>
      <4>1. PICK w \in Uploads : w = processed[n].of
        BY <1>8, <3>2
      <4>2. runs'[Arkime][w] > 0
        BY <1>5, <3>2, <4>1
      <4>3. r[1] = n /\ r[2] = is[w].size /\ n \in NamesOf(w)'
        BY <1>1, <1>8, <3>2, <4>1 DEF NamesOf
      <4>4. RanAs(r[1], r[2], w)'
        BY <1>1, <4>2, <4>3 DEF RanAs
      <4> QED BY <4>4
    <3> QED BY <1>7, <3>1, <3>2
  <2> QED BY <2>1, <2>2 DEF Answers
<1>10. ASSUME NEW u \in Uploads, NEW j \in Processors
       PROVE  /\ Queued(j, u)' => Queued(j, u)
              /\ IsFiled(u) /\ ToldTo(j, u) => ToldTo(j, u)'
  <2>1. Target(u)' = Target(u)
    BY <1>1, SameUploads
  <2>2. CASE j # k
    BY <1>1, <1>3, <2>1, <2>2 DEF Queued, ToldTo
  <2>3. CASE j = k
    <3>1. Queued(k, u)' => Queued(k, u)
      <4> SUFFICES ASSUME NEW i \in 1..Len(queue'[k]), queue'[k][i] = Target(u) PROVE Queued(k, u)
        BY <2>1 DEF Queued
      <4>1. i + 1 \in 1..Len(queue[k]) /\ queue[k][i + 1] = Target(u)
        BY <1>2, <1>4
      <4> QED BY <4>1 DEF Queued
    <3>2. ASSUME IsFiled(u), Queued(k, u) PROVE ToldTo(k, u)'
      <4>1. PICK i \in 1..Len(queue[k]) : queue[k][i] = Target(u)
        BY <3>2 DEF Queued
      <4>2. CASE i = 1
        <5>1. processed[n] # None /\ processed[n].of = u
          <6>1. [of |-> u, kind |-> "capture"] \in Files
            BY DEF Files, Kinds
          <6> QED BY <1>2, <3>2, <4>1, <4>2, <6>1, PcapPipelineAssumption DEF IsFiled
        <5> QED BY <1>5, <5>1 DEF ToldTo
      <4>3. CASE i # 1
        <5>1. i - 1 \in 1..Len(queue'[k]) /\ queue'[k][i - 1] = Target(u)
          BY <1>2, <1>4, <4>1, <4>3
        <5> QED BY <2>1, <5>1 DEF ToldTo, Queued
      <4> QED BY <4>2, <4>3
    <3>3. runs[k][u] > 0 \/ u \in missed[k] => ToldTo(k, u)'
      BY <1>1, <1>6 DEF ToldTo
    <3> QED BY <2>3, <3>1, <3>2, <3>3 DEF ToldTo
  <2> QED BY <2>2, <2>3
<1>11. ASSUME NEW u \in Uploads, <<Target(u), is[u].size>>' \in recorded' PROVE Noted(u)
  <2>1. Target(u)' = Target(u) /\ is'[u] = is[u]
    BY <1>1, SameUploads
  <2>2. CASE <<Target(u), is[u].size>> \in recorded
    BY <2>2 DEF Noted
  <2>3. CASE k = Arkime /\ Target(u) = n
    <3>1. 1 \in 1..Len(queue[k])
      BY <1>2
    <3> QED BY <1>2, <2>3, <3>1 DEF Noted, Queued
  <2> QED BY <1>7, <1>11, <2>1, <2>2, <2>3
<1>12. \A u \in Uploads : Noted(u)' => Noted(u)
  BY <1>10, <1>11 DEF Noted, Processors
<1> QED BY <1>1, <1>9, <1>10, <1>12, TellProcessed

\* A processor that is started again misses what it had queued.
LEMMA TellRestartProcessor ==
  ASSUME IInv, TellInv, NEW k \in Processors, RestartProcessor(k)
  PROVE  TellInv'
<1>1. UNCHANGED <<upVars, processed, found, pub, index, runs, recorded>> /\ UNCHANGED is
  BY DEF RestartProcessor, upVars, users
<1>2. /\ queue'[k] = <<>>
      /\ missed'[k] = missed[k] \cup
           {u \in Uploads : \E i \in 1..Len(queue[k]) :
              processed[queue[k][i]] # None /\ processed[queue[k][i]].of = u}
      /\ \A j \in Processors \ {k} : queue'[j] = queue[j] /\ missed'[j] = missed[j]
  BY DEF RestartProcessor, IInv, TypeOK
<1>3. Answers'
  BY <1>1 DEF TellInv, Answers, RanAs, NamesOf
<1>4. ASSUME NEW u \in Uploads, NEW j \in Processors
      PROVE  /\ Queued(j, u)' => Queued(j, u)
             /\ IsFiled(u) /\ ToldTo(j, u) => ToldTo(j, u)'
  <2>1. Target(u)' = Target(u)
    BY <1>1, SameUploads
  <2>2. CASE j # k
    BY <1>1, <1>2, <2>1, <2>2 DEF Queued, ToldTo
  <2>3. CASE j = k
    <3>1. ~Queued(k, u)'
      BY <1>2 DEF Queued
    <3>2. IsFiled(u) /\ Queued(k, u) => u \in missed'[k]
      <4>1. [of |-> u, kind |-> "capture"] \in Files
        BY DEF Files, Kinds
      <4> QED BY <1>2, <4>1, PcapPipelineAssumption DEF IsFiled, Queued
    <3> QED BY <1>1, <1>2, <2>3, <3>1, <3>2 DEF ToldTo
  <2> QED BY <2>2, <2>3
<1>5. \A u \in Uploads : Noted(u)' => Noted(u)
  BY <1>1, <1>4, SameUploads DEF Noted, Processors
<1> QED BY <1>1, <1>3, <1>4, <1>5, TellProcessed

LEMMA TellKept == ASSUME IInv, TellInv, [Next]_vars PROVE TellInv'
<1>1. ASSUME NEW u \in Uploads, Put(u) PROVE TellInv'
  <2>1. /\ UNCHANGED <<is, processed, found, pub, queue, runs, missed, recorded, index>>
        /\ stranded \subseteq stranded'
    BY <1>1 DEF Put, behind, pubVars, workVars
  <2> QED BY <1>1, <2>1, PutUpload, TellAside DEF TellInv, Answers
<1>2. CASE /\ Monitor \/ WriteFails \/ CopyFails \/ KillMonitor
           /\ ~(Move \/ Place)
  <2>1. /\ UNCHANGED <<is, processed, found, pub, queue, runs, missed, recorded, index>>
        /\ stranded \subseteq stranded'
    BY <1>2 DEF Monitor, HandOver, StartMonitor, Inspect, Check, Delete, Unpack, Remove, HandOn,
                Copied, Unlink, WriteFails, CopyFails, KillMonitor, users, behind, pubVars, workVars
  <2> QED BY <1>2, <2>1, MonitorUpload, TellAside DEF TellInv, Answers
<1>3. CASE Publisher \/ KillPublisher
  BY <1>3, TellFind, TellSkip, TellAnnounce, TellRestart DEF Publisher
<1>4. ASSUME NEW k \in Processors, Analyse(k) PROVE TellInv'
  BY <1>4, TellRan DEF Analyse
<1>5. CASE WorkerDies
  BY <1>5, TellRan DEF WorkerDies, Processors
<1>6. CASE Refresh \/ (\E k \in Processors : Subscribe(k)) \/ UNCHANGED vars
  <2>1. UNCHANGED <<is, processed, found, pub, queue, runs, missed, recorded, stranded, upVars>>
    BY <1>6 DEF Refresh, Subscribe, vars, upVars, users, behind, pubVars, workVars
  <2>2. index' \subseteq recorded
    BY <1>6 DEF Refresh, Subscribe, vars, behind, TellInv, Answers
  <2> QED BY <2>1, <2>2, SameUpload, TellAside
<1> QED BY <1>1, <1>2, <1>3, <1>4, <1>5, <1>6, TellFiling, TellRestartProcessor DEF Next, Faults

LEMMA KeptFromInv == IInv /\ TellInv => UploadsAreKept
<1> SUFFICES ASSUME IInv, TellInv, NEW u \in sent, ~UnderWay(u), u \notin torn \cup lost \cup stranded
             PROVE  Settled(u)
  BY DEF UploadsAreKept, Settled, IInv, OnItsWay
<1>1. /\ u \in Uploads /\ Watched(u) /\ TellsAll(u) /\ is[u].kind \in Kinds
      /\ mon.at \in Working => mon.at \notin {"idle", "down"}
  BY DEF IInv, TypeOK, TellInv, Tells, Upload, Working
<1>2. ~InUpload(u)
  BY <1>1 DEF Watched, UnderWay
<1>3. Shared(u) \/ is[u].kind \in {"broken", "other"} \/ Arrived(u)
  BY <1>1, <1>2 DEF IInv, OnItsWay, Kinds
<1>4. ASSUME IsFiled(u), NEW k \in Processors
      PROVE  runs[k][u] > 0 \/ u \in missed[k] \/ k \notin alive \/ Twins(k, u)
  <2>1. ~Coming(u)
    BY DEF UnderWay, Coming, Announced
  <2>2. ToldTo(k, u) \/ Twins(k, u)
    BY <1>1, <1>4, <2>1 DEF TellsAll
  <2>3. Queued(k, u) => k \notin alive
    BY DEF UnderWay, Queued
  <2> QED BY <2>2, <2>3 DEF ToldTo
<1> QED BY <1>2, <1>3, <1>4 DEF Settled, Analysed

-----------------------------------------------------------------------------
(* The variables keep their types. *)
THEOREM Types == Spec => []TypeOK
<1>1. Spec => []IInv
  BY InitOK, NextOK, PTL DEF Spec
<1>2. IInv => TypeOK
  BY DEF IInv
<1> QED BY <1>1, <1>2, PTL

(* Whatever fails and whenever a process is killed, no upload is           *)
(* forgotten: a capture or archive whose names no other upload has is in   *)
(* upload/ until it is where it belongs, unless its unpacked copy could    *)
(* not be written, and as long as any upload is not settled (analysed by   *)
(* every processor that did not miss it, left in upload/ by a copy broken  *)
(* off, a kill or an upload while the monitor was down), somebody has yet  *)
(* to act on its name.                                                     *)
THEOREM Kept == Spec => []UploadsAreKept
<1>1. Spec => [](IInv /\ TellInv)
  <2>1. Init => IInv /\ TellInv
    BY InitOK, TellInit
  <2>2. IInv /\ TellInv /\ [Next]_vars => IInv' /\ TellInv'
    BY NextOK, TellKept
  <2> QED BY <2>1, <2>2, PTL DEF Spec
<1> QED BY <1>1, KeptFromInv, PTL

(* No processor runs twice on a capture whose names no other upload has,   *)
(* unless the publisher was started again after it was filed: not when the *)
(* monitor is killed and started, a query fails, or a processor restarts.  *)
THEOREM RunAtMostOnce == Spec => []AnalysedOnce
<1>1. Spec => [](IInv /\ Once)
  <2>1. Init => IInv /\ Once
    BY InitOK, OnceInit
  <2>2. IInv /\ Once /\ [Next]_vars => IInv' /\ Once'
    BY NextOK, OnceKept
  <2> QED BY <2>1, <2>2, PTL DEF Spec
<1>2. Once => AnalysedOnce
  BY DEF Once, RunOnce, AnalysedOnce
<1> QED BY <1>1, <1>2, PTL
=============================================================================
