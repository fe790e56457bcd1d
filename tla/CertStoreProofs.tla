-------------------------- MODULE CertStoreProofs --------------------------
(***************************************************************************)
(* Proofs about CertStore for any number of SNI entries, versions and      *)
(* signals: what is offered to a client, and that the watcher loses no     *)
(* change.                                                                 *)
(***************************************************************************)
EXTENDS CertStore, TLAPS

\* Version v of e has been written.
Written(v, e) == v # 0 /\ v <= version[e]

Good(c, e) == c.cert = c.key /\ Written(c.cert, e)

\* What is on disk, what has been read and what is installed was written.
PairInv ==
    /\ \A e \in Entry : Written(disk[e].cert, e) /\ Written(disk[e].key, e)
    /\ \A e \in Entry : certs[e] = NoCert \/ Good(certs[e], e)
    /\ \A l \in Loader : pc[l] \in {"key", "parse"} => Written(read[l].cert, at[l])

\* main loads the entries in order, and only then goes on.
StartInv ==
    /\ pc["main"] \in {"off", "cert", "key", "parse"}
    /\ main = "load" => pc["main"] # "off" /\ \A e \in Entry : e < at["main"] => certs[e] # NoCert
    /\ main \notin {"load", "exit"} => pc["main"] = "off" /\ \A e \in Entry : certs[e] # NoCert

Inv == TypeOK /\ PairInv /\ StartInv

\* Loader l will still install what is on disk for e, if it is whole.
Fresh(l, e) ==
    \/ pc[l] = "cert"
    \/ pc[l] = "key" /\ read[l].cert = disk[e].cert
    \/ pc[l] = "parse" /\ read[l] = disk[e]

\* The watcher is in ReloadAll.
Busy == pc["watch"] \in {"cert", "key", "parse"}

\* As long as no SIGHUP is sent and startup was calm, every difference between the
\* store and the disk is announced by an event, by the timer, or by a reload
\* that has not come to the entry yet; and what that reload has read is on
\* disk still unless a later change is announced.
QuietInv ==
    /\ ~signals /\ pc["hup"] = "idle"
    /\ main \notin {"serve", "exit"} => pc["watch"] = "off"
    /\ pc["watch"] \in {"off", "idle"} => at["watch"] = 0

LoadInv ==
    /\ main = "load" => /\ \A e \in Entry : e < at["main"] => certs[e] = disk[e]
                        /\ Fresh("main", at["main"])
    /\ main \in {"register", "startwatch"} => \A e \in Entry : certs[e] = disk[e]

AnnouncedInv ==
    main = "serve" /\ Watching =>
       /\ \A e \in Entry : Whole(e) => certs[e] = disk[e] \/ Pending \/ (Busy /\ at["watch"] <= e)
       /\ Busy => Pending \/ Fresh("watch", at["watch"])

WatchInv == QuietInv /\ LoadInv /\ AnnouncedInv

----------------------------------------------------------------------------
\* Nothing is loaded at the start.
LEMMA InitInv == Init => Inv
<1> SUFFICES ASSUME Init PROVE Inv
    OBVIOUS
<1>1. TypeOK
    <2>1. 0 \in Version /\ 1 \in Version /\ 0 \in Entry
        BY CertStoreAssumption DEF Version, Entry
    <2>2. NoCert \in Pair /\ [cert |-> 1, key |-> 1] \in Pair
        BY <2>1 DEF NoCert, Pair
    <2>3. pc \in [Loader -> {"off", "idle", "cert", "key", "parse"}]
        BY DEF Init, Loader
    <2>4. events \in Seq(Event) /\ hups \in 0..MaxHups
        BY CertStoreAssumption DEF Init
    <2> QED
        BY <2>1, <2>2, <2>3, <2>4 DEF Init, TypeOK
<1>2. PairInv
    BY CertStoreAssumption DEF Init, PairInv, Loader, NoCert, Good, Written
<1>3. StartInv
    BY CertStoreAssumption DEF Init, StartInv, Loader, Entry
<1> QED
    BY <1>1, <1>2, <1>3 DEF Inv

\* The fields of a pair have versions, and versions are numbers.
LEMMA Numbers ==
    ASSUME TypeOK
    PROVE  /\ Version \subseteq Nat /\ Entry \subseteq Nat
           /\ \A e \in Entry : /\ version[e] \in Nat
                               /\ disk[e].cert \in Nat /\ disk[e].key \in Nat
                               /\ certs[e].cert \in Nat /\ certs[e].key \in Nat
           /\ \A l \in Loader : /\ at[l] \in Entry /\ at[l] \in Nat
                                /\ read[l].cert \in Nat /\ read[l].key \in Nat
<1>1. Version \subseteq Nat /\ Entry \subseteq Nat
    BY CertStoreAssumption DEF Version, Entry
<1>2. \A p \in Pair : p.cert \in Nat /\ p.key \in Nat
    BY <1>1 DEF Pair
<1> QED
    BY <1>1, <1>2 DEF TypeOK

\* Each action keeps the types.
LEMMA TypeStep == TypeOK /\ [Next]_vars => TypeOK'
<1> SUFFICES ASSUME TypeOK, [Next]_vars PROVE TypeOK'
    OBVIOUS
<1> USE CertStoreAssumption
<1>1. ASSUME NEW ev \in Event, Notify(ev) PROVE events' \in Seq(Event) /\ calm' \in BOOLEAN
    <2>1. events' \in Seq(Event)
        BY <1>1 DEF Notify, TypeOK
    <2>2. calm' \in BOOLEAN
        BY <1>1, Zenon DEF Notify
    <2> QED
        BY <2>1, <2>2
<1>2. ASSUME NEW e \in Entry, NEW f \in {"cert", "key"}, Write(e, f) PROVE TypeOK'
    <2>1. version[e] \in Version /\ (Whole(e) => version[e] + 1 \in Version)
        BY <1>2 DEF Write, TypeOK, Version
    <2>2. version' \in [Entry -> Version] /\ version'[e] \in Version
        BY <1>2, <2>1 DEF Write, TypeOK
    <2>3. disk' \in [Entry -> Pair]
        BY <1>2, <2>2 DEF Write, TypeOK, Pair
    <2>4. events' \in Seq(Event) /\ calm' \in BOOLEAN
        BY <1>1, <1>2 DEF Write, Event
    <2> QED
        BY <1>2, <2>2, <2>3, <2>4 DEF Write, TypeOK
<1>3. ASSUME NEW e \in Entry, Swap(e) PROVE TypeOK'
    <2>1. version[e] \in Version /\ version[e] + 1 \in Version
        BY <1>3 DEF Swap, TypeOK, Version
    <2>2. disk' \in [Entry -> Pair] /\ version' \in [Entry -> Version]
        BY <1>3, <2>1 DEF Swap, TypeOK, Pair
    <2>3. events' \in Seq(Event) /\ calm' \in BOOLEAN
        BY <1>1, <1>3 DEF Swap, Event
    <2> QED
        BY <1>3, <2>2, <2>3 DEF Swap, TypeOK
<1>4. ASSUME Noise PROVE TypeOK'
    <2>1. events' \in Seq(Event)
        BY <1>4 DEF Noise, TypeOK, Event
    <2> QED
        BY <1>4, <2>1 DEF Noise, TypeOK, files
<1>5. ASSUME NEW l \in Loader, ReadCert(l) PROVE TypeOK'
    <2>1. read' \in [Loader -> Pair]
        BY <1>5 DEF ReadCert, TypeOK, Pair
    <2> QED
        BY <1>5, <2>1 DEF ReadCert, TypeOK, files
<1>6. ASSUME NEW l \in Loader, ReadKey(l) PROVE TypeOK'
    <2>1. read' \in [Loader -> Pair]
        BY <1>6 DEF ReadKey, TypeOK, Pair
    <2> QED
        BY <1>6, <2>1 DEF ReadKey, TypeOK, files
<1>7. ASSUME NEW l \in Loader, Advance(l) PROVE at' \in [Loader -> Entry] /\ pc' \in [Loader -> {"off", "idle", "cert", "key", "parse"}]
    <2>1. at[l] \in 0..NumSNI
        BY DEF TypeOK, Entry
    <2>2. at' \in [Loader -> Entry]
        BY <1>7, <2>1 DEF Advance, TypeOK, Entry
    <2> QED
        BY <1>7, <2>2 DEF Advance, TypeOK
<1>8. ASSUME NEW l \in Loader, Install(l) PROVE TypeOK'
    <2>1. Advance(l)
        BY <1>8 DEF Install
    <2>2. certs' \in [Entry -> Pair]
        BY <1>8 DEF Install, TypeOK
    <2> QED
        BY <1>8, <1>7, <2>1, <2>2 DEF Install, TypeOK, files
<1>9. ASSUME NEW l \in Loader, LoadFails(l) PROVE TypeOK'
    <2>1. Advance(l)
        BY <1>9 DEF LoadFails
    <2> QED
        BY <1>9, <1>7, <2>1 DEF LoadFails, TypeOK, files
<1>10. CASE StartupFails \/ Register \/ StartWatchFails \/ Exit
    BY <1>10 DEF StartupFails, Register, StartWatchFails, Exit, TypeOK, files
<1>11. CASE StartWatch
    BY <1>11 DEF StartWatch, TypeOK, files, Loader
<1>12. CASE Cancel
    BY <1>12 DEF Cancel, TypeOK, files
<1>13. CASE SendHup
    BY <1>13 DEF SendHup, TypeOK, files
<1>14. CASE HandleHup
    BY <1>14 DEF HandleHup, TypeOK, files, Loader
<1>15. CASE WatchEvent
    <2>1. events' \in Seq(Event)
        BY <1>15 DEF WatchEvent, TypeOK
    <2>2. timer' \in BOOLEAN
        BY <1>15 DEF WatchEvent, TypeOK, RelevantEvent
    <2> QED
        BY <1>15, <2>1, <2>2 DEF WatchEvent, TypeOK, files
<1>16. CASE WatchFire
    BY <1>16 DEF WatchFire, TypeOK, files, Loader
<1>17. CASE WatchStop
    <2>1. events' = <<>> /\ timer' = FALSE
        BY <1>17 DEF WatchStop
    <2>2. <<>> \in Seq(Event)
        OBVIOUS
    <2> QED
        BY <1>17, <2>1, <2>2 DEF WatchStop, TypeOK, files
<1>18. CASE UNCHANGED vars
    BY <1>18 DEF vars, TypeOK
<1> QED
    BY <1>2, <1>3, <1>4, <1>5, <1>6, <1>8, <1>9, <1>10, <1>11, <1>12, <1>13,
       <1>14, <1>15, <1>16, <1>17, <1>18 DEF Next, Exited

----------------------------------------------------------------------------
\* A loader only ever installs a whole pair, and renewals only go forward.
LEMMA PairStep == TypeOK /\ PairInv /\ [Next]_vars => PairInv'
<1> SUFFICES ASSUME TypeOK, PairInv, [Next]_vars PROVE PairInv'
    OBVIOUS
<1> USE Numbers
<1>1. ASSUME \A x \in Entry : version'[x] \in Nat /\ version[x] <= version'[x],
             \A x \in Entry : (Written(disk[x].cert, x) /\ Written(disk[x].key, x))',
             UNCHANGED <<certs, pc, at, read>>
      PROVE  PairInv'
    <2>1. \A x \in Entry : \A v \in Nat : Written(v, x) => Written(v, x)'
        BY <1>1 DEF Written
    <2>2. \A x \in Entry : (certs[x] = NoCert \/ Good(certs[x], x))'
        BY <1>1, <2>1 DEF PairInv, Good
    <2>3. \A l \in Loader : (pc[l] \in {"key", "parse"} => Written(read[l].cert, at[l]))'
        BY <1>1, <2>1 DEF PairInv
    <2> QED
        BY <1>1, <2>2, <2>3 DEF PairInv
<1>2. ASSUME NEW e \in Entry, NEW f \in {"cert", "key"}, Write(e, f) PROVE PairInv'
    <2>1. /\ \A x \in Entry : version'[x] \in Nat /\ version[x] <= version'[x]
          /\ version'[e] # 0
        BY <1>2 DEF Write, TypeOK, PairInv, Written
    <2>2. ASSUME NEW x \in Entry, NEW g \in {"cert", "key"}
          PROVE  disk'[x][g] = disk[x][g] \/ (x = e /\ disk'[x][g] = version'[e])
        BY <1>2 DEF Write, TypeOK, Pair
    <2>3. ASSUME NEW x \in Entry, NEW g \in {"cert", "key"} PROVE Written(disk[x][g], x)'
        <3>1. Written(disk[x][g], x) /\ disk[x][g] \in Nat
            BY DEF PairInv
        <3> QED
            BY <2>1, <2>2, <3>1 DEF Written
    <2>4. \A x \in Entry : (Written(disk[x].cert, x) /\ Written(disk[x].key, x))'
        BY <2>3
    <2> QED
        BY <1>1, <1>2, <2>1, <2>4 DEF Write
<1>3. ASSUME NEW e \in Entry, Swap(e) PROVE PairInv'
    <2>1. \A x \in Entry : version[x] <= version'[x] /\ version'[x] \in Nat
        BY <1>3 DEF Swap, TypeOK
    <2>2. \A x \in Entry : (Written(disk[x].cert, x) /\ Written(disk[x].key, x))'
        BY <1>3 DEF Swap, TypeOK, PairInv, Written
    <2> QED
        BY <1>1, <1>3, <2>1, <2>2 DEF Swap
<1>4. ASSUME NEW l \in Loader, ReadCert(l) PROVE PairInv'
    <2>1. read'[l].cert = disk[at[l]].cert
        BY <1>4 DEF ReadCert, TypeOK, Pair
    <2>2. \A k \in Loader \ {l} : read'[k] = read[k] /\ pc'[k] = pc[k]
        BY <1>4 DEF ReadCert, TypeOK
    <2>3. UNCHANGED <<disk, version, certs, at>>
        BY <1>4 DEF ReadCert, files
    <2> QED
        BY <2>1, <2>2, <2>3 DEF PairInv, Good, Written
<1>5. ASSUME NEW l \in Loader, ReadKey(l) PROVE PairInv'
    <2>1. read'[l].cert = read[l].cert /\ pc[l] = "key"
        BY <1>5 DEF ReadKey, TypeOK, Pair
    <2>2. \A k \in Loader \ {l} : read'[k] = read[k] /\ pc'[k] = pc[k]
        BY <1>5 DEF ReadKey, TypeOK
    <2>3. UNCHANGED <<disk, version, certs, at>>
        BY <1>5 DEF ReadKey, files
    <2> QED
        BY <2>1, <2>2, <2>3 DEF PairInv, Good, Written
<1>6. ASSUME NEW l \in Loader, Advance(l)
      PROVE  /\ pc'[l] \notin {"key", "parse"}
             /\ \A k \in Loader \ {l} : pc'[k] = pc[k] /\ at'[k] = at[k]
    BY <1>6 DEF Advance, TypeOK
<1>7. ASSUME NEW l \in Loader, Install(l) PROVE PairInv'
    <2>1. Good(read[l], at[l])
        BY <1>7 DEF Install, Loads, Good, PairInv, Written
    <2>2. \A x \in Entry : certs'[x] = certs[x] \/ (x = at[l] /\ certs'[x] = read[l])
        BY <1>7 DEF Install, TypeOK
    <2>3. UNCHANGED <<disk, version, read>> /\ Advance(l)
        BY <1>7 DEF Install, files
    <2>4. \A x \in Entry : (certs[x] = NoCert \/ Good(certs[x], x))'
        BY <2>1, <2>2, <2>3 DEF PairInv, Good, Written
    <2> QED
        BY <1>6, <2>3, <2>4 DEF PairInv, Written
<1>8. ASSUME NEW l \in Loader, LoadFails(l) PROVE PairInv'
    <2>1. UNCHANGED <<disk, version, read, certs>> /\ Advance(l)
        BY <1>8 DEF LoadFails, files
    <2> QED
        BY <1>6, <2>1 DEF PairInv, Good, Written
<1>9. CASE \/ Noise \/ StartupFails \/ Register \/ StartWatchFails \/ Exit \/ Cancel
           \/ SendHup \/ WatchEvent
    <2>1. UNCHANGED <<disk, version, read, certs, pc, at>>
        BY <1>9 DEF Noise, StartupFails, Register, StartWatchFails, Exit, Cancel,
                    SendHup, WatchEvent, files
    <2> QED
        BY <2>1 DEF PairInv, Good, Written
<1>10. CASE StartWatch \/ HandleHup \/ WatchFire \/ WatchStop
    <2>1. UNCHANGED <<disk, version, read, certs, at>>
        BY <1>10 DEF StartWatch, HandleHup, WatchFire, WatchStop, files
    <2>2. \A k \in Loader : pc'[k] \in {"key", "parse"} => pc[k] = pc'[k]
        BY <1>10 DEF StartWatch, HandleHup, WatchFire, WatchStop, TypeOK
    <2> QED
        BY <2>1, <2>2 DEF PairInv, Good, Written
<1>11. CASE UNCHANGED vars
    BY <1>11 DEF vars, PairInv, Good, Written
<1> QED
    BY <1>2, <1>3, <1>4, <1>5, <1>7, <1>8, <1>9, <1>10, <1>11 DEF Next, Exited

\* Nobody removes what main has loaded.
LEMMA StartStep == TypeOK /\ PairInv /\ StartInv /\ [Next]_vars => StartInv'
<1> SUFFICES ASSUME TypeOK, PairInv, StartInv, [Next]_vars PROVE StartInv'
    OBVIOUS
<1> USE DEF Loader
<1>1. ASSUME NEW e \in Entry, NEW f \in {"cert", "key"}, Write(e, f) PROVE StartInv'
    BY <1>1 DEF Write, StartInv
<1>2. ASSUME NEW e \in Entry, Swap(e) PROVE StartInv'
    BY <1>2 DEF Swap, StartInv
<1>3. ASSUME NEW l \in Loader, ReadCert(l) \/ ReadKey(l) PROVE StartInv'
    BY <1>3 DEF ReadCert, ReadKey, StartInv, TypeOK
<1>4. ASSUME NEW l \in Loader, Install(l) PROVE StartInv'
    <2>1. read[l] # NoCert /\ certs'[at[l]] = read[l]
        BY <1>4 DEF Install, NoCert, TypeOK, PairInv, Written
    <2>2. \A e \in Entry : certs[e] # NoCert \/ e = at[l] => certs'[e] # NoCert
        BY <1>4, <2>1 DEF Install, TypeOK
    <2>3. CASE l # "main"
        BY <1>4, <2>2, <2>3 DEF Install, Advance, StartInv, TypeOK
    <2>4. CASE l = "main"
        <3>1. main = "load" /\ at["main"] \in Entry
            BY <1>4, <2>4 DEF Install, StartInv, TypeOK
        <3>2. CASE at["main"] = NumSNI
            <4>1. \A e \in Entry : e < at["main"] \/ e = at["main"]
                BY <3>2, CertStoreAssumption DEF Entry
            <4>2. main' = "register" /\ pc'["main"] = "off"
                BY <1>4, <2>4, <3>2, CertStoreAssumption DEF Install, Advance, TypeOK
            <4> QED
                BY <2>2, <2>4, <3>1, <4>1, <4>2 DEF StartInv
        <3>3. CASE at["main"] # NumSNI
            <4>1. at["main"] < NumSNI /\ at["main"] \in Nat
                BY <3>1, <3>3, CertStoreAssumption DEF Entry
            <4>2. main' = "load" /\ pc'["main"] = "cert" /\ at'["main"] = at["main"] + 1
                BY <1>4, <2>4, <3>1, <3>3, <4>1 DEF Install, Advance, TypeOK
            <4>3. \A e \in Entry : e < at["main"] + 1 => e < at["main"] \/ e = at["main"]
                BY <4>1, CertStoreAssumption DEF Entry
            <4> QED
                BY <2>2, <2>4, <3>1, <4>2, <4>3 DEF StartInv
        <3> QED
            BY <3>2, <3>3
    <2> QED
        BY <2>3, <2>4
<1>5. ASSUME NEW l \in Loader, LoadFails(l) PROVE StartInv'
    BY <1>5 DEF LoadFails, Advance, StartInv, TypeOK
<1>6. CASE \/ Noise \/ StartupFails \/ Register \/ StartWatchFails \/ Exit \/ Cancel
           \/ SendHup \/ WatchEvent
    BY <1>6 DEF Noise, StartupFails, Register, StartWatchFails, Exit, Cancel,
                SendHup, WatchEvent, StartInv
<1>7. CASE StartWatch \/ HandleHup \/ WatchFire \/ WatchStop
    BY <1>7 DEF StartWatch, HandleHup, WatchFire, WatchStop, StartInv, TypeOK
<1>8. CASE UNCHANGED vars
    BY <1>8 DEF vars, StartInv
<1> QED
    BY <1>1, <1>2, <1>3, <1>4, <1>5, <1>6, <1>7, <1>8 DEF Next, Exited

----------------------------------------------------------------------------
\* The types and the two invariants hold in every reachable state.
THEOREM Invariance == Spec => []Inv
<1>1. Inv /\ [Next]_vars => Inv'
    BY TypeStep, PairStep, StartStep DEF Inv
<1> QED
    BY <1>1, InitInv, PTL DEF Spec

\* Type correctness.
THEOREM TypeCorrect == Spec => []TypeOK
<1>1. Inv => TypeOK
    BY DEF Inv
<1> QED
    BY <1>1, Invariance, PTL

\* Whatever is renewed while it is read, and however the loads of main, SIGHUP
\* and the watcher overlap, a client is offered a certificate with its key.
THEOREM OffersCorrect == Spec => []OffersMatchingPair
<1>1. Inv => OffersMatchingPair
    BY DEF Inv, PairInv, StartInv, OffersMatchingPair, GetCertificate, Good, Written
<1> QED
    BY <1>1, Invariance, PTL

----------------------------------------------------------------------------
\* Pairs with the same halves are the same.
LEMMA PairEqual ==
    ASSUME NEW p \in Pair, NEW q \in Pair, p.cert = q.cert, p.key = q.key
    PROVE  p = q
BY DEF Pair

\* A relevant event that is added to the queue is pending, and no other is lost.
LEMMA EventAdded ==
    ASSUME TypeOK, NEW ev \in Event, events' = Append(events, ev), timer' = timer
    PROVE  RelevantEvent(ev) \/ Pending => Pending'
<1>1. Len(events) \in Nat /\ Len(events') = Len(events) + 1
    BY DEF TypeOK
<1>2. events'[Len(events) + 1] = ev
    BY DEF TypeOK
<1>3. \A i \in 1..Len(events) : events'[i] = events[i]
    BY DEF TypeOK
<1>4. 1..Len(events) \subseteq 1..Len(events') /\ Len(events) + 1 \in 1..Len(events')
    BY <1>1
<1> QED
    BY <1>2, <1>3, <1>4 DEF Pending

\* Taking an event from the queue arms the timer if the event is relevant.
LEMMA EventTaken == ASSUME TypeOK, WatchEvent, Pending PROVE Pending'
<1>1. events \in Seq(Event) /\ events # <<>> /\ events' = Tail(events)
    BY DEF TypeOK, WatchEvent
<1>2. timer' = (timer \/ RelevantEvent(Head(events)))
    BY DEF WatchEvent
<1>3. CASE timer \/ RelevantEvent(Head(events))
    BY <1>2, <1>3 DEF Pending
<1>4. CASE ~timer /\ ~RelevantEvent(Head(events))
    <2>1. PICK i \in 1..Len(events) : RelevantEvent(events[i])
        BY <1>4 DEF Pending
    <2>2. Head(events) = events[1] /\ Len(events) \in Nat
        BY <1>1
    <2>3. i # 1
        BY <1>4, <2>1, <2>2
    <2>4. i - 1 \in 1..Len(events') /\ events'[i - 1] = events[i]
        BY <1>1, <2>2, <2>3
    <2> QED
        BY <2>1, <2>4 DEF Pending
<1> QED
    BY <1>3, <1>4

\* A renewal is announced to a watcher that runs.
LEMMA RenewalAnnounced ==
    ASSUME TypeOK, WatchInv, NEW ev \in {"watched", "create"}, Notify(ev), calm',
           UNCHANGED <<certs, main, pc, at, read, timer, signals, hups, ctxDone>>
    PROVE  WatchInv'
<1>1. main = "serve"
    BY DEF Notify
<1>2. Watching => Pending'
    <2> SUFFICES ASSUME Watching PROVE Pending'
        OBVIOUS
    <2>1. CASE Len(events) < MaxEvents
        <3>1. events' = Append(events, ev)
            BY <2>1 DEF Notify
        <3>2. ev \in Event /\ RelevantEvent(ev)
            BY DEF Event, RelevantEvent
        <3> QED
            BY <3>1, <3>2, EventAdded
    <2>2. CASE ~(Len(events) < MaxEvents)
        <3>1. Pending /\ events' = events
            BY <2>2 DEF Notify
        <3> QED
            BY <3>1 DEF Pending
    <2> QED
        BY <2>1, <2>2
<1>3. Watching' <=> Watching
    BY DEF Watching
<1> QED
    BY <1>1, <1>2, <1>3 DEF WatchInv, QuietInv, LoadInv, AnnouncedInv

\* The watcher goes to the next entry with the current one in order.
LEMMA WatcherAdvances ==
    ASSUME TypeOK, WatchInv, Advance("watch"), pc["watch"] = "parse",
           UNCHANGED <<disk, main, events, timer, signals>>,
           \A e \in Entry : e # at["watch"] => certs'[e] = certs[e],
           Fresh("watch", at["watch"]) /\ Whole(at["watch"])
              => certs'[at["watch"]] = disk[at["watch"]]
    PROVE  WatchInv'
<1> DEFINE w == at["watch"]
<1>1. w \in Entry /\ w \in 0..NumSNI /\ Entry = 0..NumSNI /\ NumSNI \in Nat
    BY CertStoreAssumption DEF TypeOK, Loader, Entry
<1>2. /\ pc'["watch"] = IF w < NumSNI THEN "cert" ELSE "idle"
      /\ at'["watch"] = IF w < NumSNI THEN w + 1 ELSE 0
      /\ pc'["hup"] = pc["hup"] /\ pc'["main"] = pc["main"] /\ at'["main"] = at["main"]
    BY DEF Advance, TypeOK, Loader
<1>3. main \in {"serve", "exit"}
    BY DEF WatchInv, QuietInv
<1>4. QuietInv' /\ LoadInv'
    BY <1>2, <1>3 DEF WatchInv, QuietInv, LoadInv
<1>5. Pending' <=> Pending
    BY DEF Pending
<1>6. AnnouncedInv'
    <2> SUFFICES ASSUME main = "serve", ~Pending
                 PROVE  /\ \A e \in Entry : Whole(e) => certs'[e] = disk[e] \/ (Busy' /\ at'["watch"] <= e)
                        /\ Busy' => pc'["watch"] = "cert"
        BY <1>5 DEF AnnouncedInv, Fresh, Whole
    <2>1. Fresh("watch", w) /\ \A e \in Entry : Whole(e) => certs[e] = disk[e] \/ w <= e
        BY DEF WatchInv, AnnouncedInv, Watching, Busy
    <2>2. ASSUME NEW e \in Entry, Whole(e) PROVE certs'[e] = disk[e] \/ (Busy' /\ at'["watch"] <= e)
        <3>1. CASE e = w
            BY <2>1, <2>2, <3>1
        <3>2. CASE e < w
            BY <1>1, <2>1, <2>2, <3>2
        <3>3. CASE e > w
            <4>1. w < NumSNI /\ w + 1 <= e
                BY <1>1, <3>3
            <4> QED
                BY <1>2, <4>1 DEF Busy
        <3> QED
            BY <1>1, <3>1, <3>2, <3>3
    <2>3. Busy' => pc'["watch"] = "cert"
        BY <1>2 DEF Busy
    <2> QED
        BY <2>2, <2>3
<1> QED
    BY <1>4, <1>6 DEF WatchInv

\* main loads the next entry with the current one in order.
LEMMA MainInstalls ==
    ASSUME TypeOK, StartInv, WatchInv, Install("main")
    PROVE  WatchInv'
<1> DEFINE m == at["main"]
<1>1. m \in Entry /\ m \in 0..NumSNI /\ Entry = 0..NumSNI /\ NumSNI \in Nat
    BY CertStoreAssumption DEF TypeOK, Loader, Entry
<1>2. main = "load"
    BY DEF Install, StartInv
<1>3. /\ at'["main"] = IF m < NumSNI THEN m + 1 ELSE 0
      /\ pc'["main"] = IF m < NumSNI THEN "cert" ELSE "off"
      /\ main' = IF m = NumSNI THEN "register" ELSE "load"
      /\ pc'["hup"] = pc["hup"] /\ pc'["watch"] = pc["watch"] /\ at'["watch"] = at["watch"]
      /\ UNCHANGED <<disk, signals>>
    BY <1>2 DEF Install, Advance, TypeOK, Loader, files
<1>4. \A e \in Entry : e <= m => certs'[e] = disk[e]
    <2>1. read["main"] = disk[m] /\ \A e \in Entry : e < m => certs[e] = disk[e]
        BY <1>2 DEF WatchInv, LoadInv, Fresh, Install
    <2>2. certs' = [certs EXCEPT ![m] = read["main"]]
        BY DEF Install
    <2> QED
        BY <1>1, <2>1, <2>2 DEF TypeOK
<1>5. QuietInv'
    BY <1>2, <1>3 DEF WatchInv, QuietInv
<1>6. LoadInv'
    <2>1. CASE m = NumSNI
        BY <1>1, <1>3, <1>4, <2>1 DEF LoadInv
    <2>2. CASE m < NumSNI
        <3>1. \A e \in Entry : e < m + 1 => e <= m
            BY <1>1
        <3>2. main' = "load" /\ at'["main"] = m + 1 /\ pc'["main"] = "cert"
            BY <1>1, <1>3, <2>2
        <3> QED
            BY <1>3, <1>4, <3>1, <3>2 DEF LoadInv, Fresh
    <2> QED
        BY <1>1, <2>1, <2>2
<1>7. AnnouncedInv'
    BY <1>2, <1>3 DEF AnnouncedInv
<1> QED
    BY <1>5, <1>6, <1>7 DEF WatchInv

\* The steps of a load, by main or the watcher.
LEMMA LoaderStep ==
    ASSUME TypeOK, StartInv, WatchInv, NEW l \in Loader,
           ReadCert(l) \/ ReadKey(l) \/ Install(l) \/ LoadFails(l)
    PROVE  WatchInv'
<1>1. pc[l] \in {"cert", "key", "parse"} /\ l \in {"main", "watch"}
    BY DEF ReadCert, ReadKey, Install, LoadFails, WatchInv, QuietInv, Loader
<1>2. /\ l = "main" => main = "load" /\ pc["watch"] = "off"
      /\ l = "watch" => main = "serve" /\ Watching
    BY <1>1 DEF ReadCert, ReadKey, Install, LoadFails, WatchInv, QuietInv, StartInv, Watching
<1>3. \A e \in Entry : disk[e] \in Pair
    BY DEF TypeOK
<1>4. read[l] \in Pair /\ at[l] \in Entry
    BY DEF TypeOK
<1>5. CASE ReadCert(l) \/ ReadKey(l)
    <2>1. /\ UNCHANGED <<disk, certs, main, at, events, timer, signals>>
          /\ \A k \in Loader \ {l} : pc'[k] = pc[k] /\ read'[k] = read[k]
          /\ pc'[l] \in {"key", "parse"}
        BY <1>5 DEF ReadCert, ReadKey, files, TypeOK
    <2>2. Fresh(l, at[l]) => Fresh(l, at[l])'
        <3>1. CASE ReadCert(l)
            <4>1. /\ read'[l].cert = disk[at[l]].cert /\ pc'[l] = "key"
                  /\ disk' = disk /\ at' = at
                BY <1>4, <3>1 DEF ReadCert, TypeOK, Pair, files
            <4> QED
                BY <4>1 DEF Fresh
        <3>2. CASE ReadKey(l)
            <4>1. read'[l] \in Pair /\ read'[l].cert = read[l].cert
                  /\ read'[l].key = disk[at[l]].key /\ pc[l] = "key" /\ disk' = disk /\ at' = at
                BY <1>3, <1>4, <3>2 DEF ReadKey, TypeOK, Pair, files
            <4>2. Fresh(l, at[l]) => read'[l] = disk[at[l]]
                BY <1>3, <1>4, <4>1, PairEqual DEF Fresh
            <4>3. pc'[l] = "parse"
                BY <3>2 DEF ReadKey, TypeOK
            <4> QED
                BY <4>1, <4>2, <4>3 DEF Fresh
        <3> QED
            BY <1>5, <3>1, <3>2
    <2>3. QuietInv'
        BY <1>1, <1>2, <2>1 DEF WatchInv, QuietInv, Loader
    <2>4. CASE l = "main"
        BY <1>2, <2>1, <2>2, <2>3, <2>4 DEF WatchInv, LoadInv, AnnouncedInv
    <2>5. CASE l = "watch"
        <3>1. Busy /\ (Pending' <=> Pending)
            BY <1>1, <2>1, <2>5 DEF Busy, Pending
        <3>2. Busy'
            BY <2>1, <2>5 DEF Busy
        <3>3. AnnouncedInv'
            BY <1>2, <2>1, <2>2, <2>5, <3>1, <3>2 DEF WatchInv, AnnouncedInv, Whole
        <3>4. LoadInv'
            BY <1>2, <2>1, <2>5 DEF LoadInv
        <3> QED
            BY <2>3, <3>3, <3>4 DEF WatchInv
    <2> QED
        BY <1>1, <2>4, <2>5
<1>6. CASE Install(l) /\ l = "main"
    BY <1>6, MainInstalls
<1>7. CASE Install(l) /\ l = "watch"
    <2>1. /\ Advance("watch") /\ pc["watch"] = "parse"
          /\ UNCHANGED <<disk, main, events, timer, signals>>
          /\ certs' = [certs EXCEPT ![at["watch"]] = read["watch"]]
        BY <1>7 DEF Install, files
    <2>2. \A e \in Entry : e # at["watch"] => certs'[e] = certs[e]
        BY <2>1 DEF TypeOK
    <2>3. Fresh("watch", at["watch"]) => certs'[at["watch"]] = disk[at["watch"]]
        BY <1>4, <1>7, <2>1 DEF Fresh, TypeOK
    <2> QED
        BY <2>1, <2>2, <2>3, WatcherAdvances
<1>8. CASE LoadFails(l)
    <2>1. l = "watch"
        BY <1>1, <1>8 DEF LoadFails
    <2>2. /\ Advance("watch") /\ pc["watch"] = "parse" /\ ~Loads("watch")
          /\ UNCHANGED <<disk, main, events, timer, signals, certs>>
        BY <1>8, <2>1 DEF LoadFails, files
    <2>3. ~(Fresh("watch", at["watch"]) /\ Whole(at["watch"]))
        BY <2>2 DEF Fresh, Whole, Loads
    <2> QED
        BY <2>2, <2>3, WatcherAdvances
<1> QED
    BY <1>1, <1>5, <1>6, <1>7, <1>8

\* Every step keeps differences announced.
LEMMA WatchInvStep ==
    ASSUME TypeOK, StartInv, WatchInv, [Next]_vars, calm', hups' = 0
    PROVE  WatchInv'
<1>2. ASSUME NEW e \in Entry, NEW f \in {"cert", "key"}, Write(e, f) PROVE WatchInv'
    BY <1>2, RenewalAnnounced DEF Write
<1>3. ASSUME NEW e \in Entry, Swap(e) PROVE WatchInv'
    BY <1>3, RenewalAnnounced DEF Swap
<1>4. CASE Noise
    <2>1. /\ events' = Append(events, "other")
          /\ UNCHANGED <<disk, certs, main, pc, at, read, timer, signals>>
        BY <1>4 DEF Noise, files
    <2>2. Pending => Pending'
        BY <2>1, EventAdded DEF Event
    <2> QED
        BY <2>1, <2>2 DEF WatchInv, QuietInv, LoadInv, AnnouncedInv, Fresh, Busy, Watching, Whole
<1>5. ASSUME NEW l \in Loader, ReadCert(l) \/ ReadKey(l) \/ Install(l) \/ LoadFails(l) PROVE WatchInv'
    BY <1>5, LoaderStep
<1>6. CASE StartupFails \/ StartWatchFails \/ Exit
    <2>1. main' = "exit" /\ UNCHANGED <<pc, at, signals>>
        BY <1>6 DEF StartupFails, StartWatchFails, Exit
    <2> QED
        BY <2>1 DEF WatchInv, QuietInv, LoadInv, AnnouncedInv
<1>7. CASE Register
    BY <1>7 DEF Register, files, WatchInv, QuietInv, LoadInv, AnnouncedInv
<1>8. CASE StartWatch
    <2>1. /\ main = "startwatch" /\ main' = "serve" /\ pc'["hup"] = pc["hup"]
          /\ pc'["watch"] \in {"idle", "off"} /\ UNCHANGED <<disk, certs, at, signals>>
        BY <1>8 DEF StartWatch, files, TypeOK, Loader
    <2> QED
        BY <2>1 DEF WatchInv, QuietInv, LoadInv, AnnouncedInv, Busy
<1>9. CASE Cancel \/ UNCHANGED vars
    <2>1. UNCHANGED <<disk, certs, main, pc, at, read, timer, events, signals>>
        BY <1>9 DEF Cancel, files, vars
    <2> QED
        BY <2>1 DEF WatchInv, QuietInv, LoadInv, AnnouncedInv, Fresh, Busy, Watching, Whole, Pending
<1>10. CASE SendHup
    BY <1>10 DEF SendHup, TypeOK
<1>11. CASE HandleHup
    BY <1>11 DEF HandleHup, WatchInv, QuietInv
<1>12. CASE WatchEvent
    <2>1. /\ pc["watch"] = "idle"
          /\ UNCHANGED <<disk, certs, main, pc, at, read, signals>>
        BY <1>12 DEF WatchEvent, files
    <2>2. Pending => Pending'
        BY <1>12, EventTaken
    <2> QED
        BY <2>1, <2>2 DEF WatchInv, QuietInv, LoadInv, AnnouncedInv, Fresh, Busy, Watching, Whole
<1>13. CASE WatchFire
    <2>1. /\ pc["watch"] = "idle" /\ pc'["watch"] = "cert" /\ pc'["hup"] = pc["hup"]
          /\ UNCHANGED <<disk, certs, main, at, signals>>
        BY <1>13 DEF WatchFire, files, TypeOK, Loader
    <2>2. at["watch"] = 0 /\ main \in {"serve", "exit"}
        BY <2>1 DEF WatchInv, QuietInv
    <2>3. \A e \in Entry : 0 <= e
        BY Numbers
    <2> QED
        BY <2>1, <2>2, <2>3 DEF WatchInv, QuietInv, LoadInv, AnnouncedInv, Fresh, Busy
<1>14. CASE WatchStop
    <2>1. /\ pc["watch"] = "idle" /\ pc'["watch"] = "off" /\ pc'["hup"] = pc["hup"]
          /\ UNCHANGED <<disk, certs, main, at, signals>>
        BY <1>14 DEF WatchStop, files, TypeOK, Loader
    <2> QED
        BY <2>1 DEF WatchInv, QuietInv, LoadInv, AnnouncedInv, Watching
<1> QED
    BY <1>2, <1>3, <1>4, <1>5, <1>6, <1>7, <1>8, <1>9, <1>10, <1>11, <1>12,
       <1>13, <1>14 DEF Next, Exited

\* Startup cannot become calm again, and signals are not taken back.
LEMMA CalmStep == TypeOK /\ [Next]_vars => (calm' => calm) /\ (hups' = 0 => hups = 0)
<1> SUFFICES ASSUME TypeOK, [Next]_vars PROVE (calm' => calm) /\ (hups' = 0 => hups = 0)
    OBVIOUS
<1>1. ASSUME NEW e \in Entry, NEW f \in {"cert", "key"}, Write(e, f) \/ Swap(e)
      PROVE  (calm' => calm) /\ hups' = hups
    BY <1>1 DEF Write, Swap, Notify
<1>2. ASSUME NEW l \in Loader, ReadCert(l) \/ ReadKey(l) \/ Install(l) \/ LoadFails(l)
      PROVE  UNCHANGED <<calm, hups>>
    BY <1>2 DEF ReadCert, ReadKey, Install, LoadFails, files
<1>3. CASE SendHup
    BY <1>3 DEF SendHup, files, TypeOK
<1>4. CASE \/ Noise \/ StartupFails \/ Register \/ StartWatch \/ StartWatchFails \/ Cancel
           \/ Exit \/ HandleHup \/ WatchEvent \/ WatchFire \/ WatchStop \/ UNCHANGED vars
    BY <1>4 DEF Noise, StartupFails, Register, StartWatch, StartWatchFails, Cancel, Exit,
                HandleHup, WatchEvent, WatchFire, WatchStop, vars, files
<1> QED
    BY <1>1, <1>2, <1>3, <1>4 DEF Next, Exited

\* The watcher loses no change: when it has come to rest, every entry whose
\* files are whole is the one on disk, for any number of entries and renewals,
\* files that never become whole included, and any length of the event queue
\* (watchLoop, as long as no SIGHUP is sent, and no file changed before it ran or
\* while the queue was full of irrelevant events).
THEOREM WatcherLosesNothing == Spec => []WatchCurrent
<1> DEFINE CalmInv == calm /\ hups = 0 => WatchInv
<1>1. Init => CalmInv
    BY CertStoreAssumption DEF Init, WatchInv, QuietInv, LoadInv, AnnouncedInv, Fresh, Loader, Entry
<1>2. Inv /\ CalmInv /\ [Next]_vars => CalmInv'
    BY WatchInvStep, CalmStep DEF Inv
<1>3. CalmInv => WatchCurrent
    BY DEF WatchInv, AnnouncedInv, WatchCurrent, WatchQuiet, Watching, Busy
<1> QED
    BY <1>1, <1>2, <1>3, Invariance, PTL DEF Spec
=============================================================================
