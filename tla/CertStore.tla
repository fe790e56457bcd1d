----------------------------- MODULE CertStore -----------------------------
(***************************************************************************)
(* The certificate store of the TLS listener (internal/tls/certstore.go)   *)
(* with the three goroutines that load into it - main at startup, the      *)
(* SIGHUP handler and the file watcher (internal/tls/watcher.go) - and the *)
(* renewals that replace the files under them.                             *)
(*                                                                         *)
(* A certificate or key is its version: a pair loads when its halves have  *)
(* the same version, as LoadX509KeyPair accepts only a key that belongs to *)
(* the certificate (a file that is torn or garbage is one more version     *)
(* that fits nothing). LoadX509KeyPair reads the two files one after the   *)
(* other and outside the store's lock.                                     *)
(***************************************************************************)
EXTENDS Naturals, Sequences

CONSTANTS
    NumSNI,          \* server.tls.sni entries, with distinct host names
    AutoReload,      \* server.tls.autoreload
    MaxVersion,      \* bound: versions of each pair
    MaxHups,         \* bound: SIGHUPs sent
    MaxEvents        \* the length of the kernel's event queue

ASSUME CertStoreAssumption ==
    /\ NumSNI \in Nat /\ MaxVersion \in Nat \ {0} /\ MaxHups \in Nat
    /\ MaxEvents \in Nat \ {0}
    /\ AutoReload \in BOOLEAN

Entry == 0..NumSNI            \* 0 is the default certificate
Loader == {"main", "hup", "watch"}
Version == 0..MaxVersion      \* 0: not loaded
NoCert == [cert |-> 0, key |-> 0]
Pair == [cert : Version, key : Version]

\* What relevantEvent can tell apart: an event on a watched file, the creation
\* of another name in a watched directory, anything else in it.
Event == {"watched", "create", "other"}

VARIABLES
    disk,      \* disk[e]: what the certificate and the key file hold now
    version,   \* version[e]: the version the files have or are getting
    calm,      \* history: no file changed without a watcher to be told, see Notify
    certs,     \* certs[e]: the loaded pair (defaultCert and the certs map)
    main,      \* where main is: loading, registering, starting the watcher ...
    pc,        \* pc[l]: where loader l is in a load
    at,        \* at[l]: the entry l loads
    read,      \* read[l]: what l has read of that entry so far
    events,    \* watcher.Events
    timer,     \* the debounce timer is running
    signals,   \* a SIGHUP waits in the mux's channel of capacity 1
    hups,      \* SIGHUPs sent so far
    ctxDone    \* rootCtx is cancelled

files == <<disk, version, calm>>
vars == <<disk, version, calm, certs, main, pc, at, read, events, timer, signals,
          hups, ctxDone>>

TypeOK ==
    /\ disk \in [Entry -> Pair] /\ version \in [Entry -> Version]
    /\ calm \in BOOLEAN
    /\ certs \in [Entry -> Pair]
    /\ main \in {"load", "register", "startwatch", "serve", "exit"}
    /\ pc \in [Loader -> {"off", "idle", "cert", "key", "parse"}]
    /\ at \in [Loader -> Entry]
    /\ read \in [Loader -> Pair]
    /\ events \in Seq(Event)
    /\ timer \in BOOLEAN /\ signals \in BOOLEAN /\ ctxDone \in BOOLEAN
    /\ hups \in 0..MaxHups

Init ==
    /\ disk = [e \in Entry |-> [cert |-> 1, key |-> 1]]
    /\ version = [e \in Entry |-> 1] /\ calm = TRUE
    /\ certs = [e \in Entry |-> NoCert]
    /\ main = "load"
    /\ pc = [main |-> "cert", hup |-> "idle", watch |-> "off"]
    /\ at = [l \in Loader |-> 0]
    /\ read = [l \in Loader |-> NoCert]
    /\ events = <<>> /\ timer = FALSE
    /\ signals = FALSE /\ hups = 0 /\ ctxDone = FALSE

Watching == pc["watch"] # "off"

\* The files of e belong together.
Whole(e) == disk[e].cert = disk[e].key

----------------------------------------------------------------------------
(* The file system *)

\* relevantEvent: the file itself, or any creation in its directory.
RelevantEvent(ev) == ev \in {"watched", "create"}

\* The watcher still has a reload before it.
Pending == timer \/ \E i \in 1..Len(events) : RelevantEvent(events[i])

\* The kernel drops an event that finds its queue full, and watchLoop only logs
\* the error it gets instead: that change is announced only if an earlier one is.
Notify(ev) ==
    /\ events' = IF Watching /\ Len(events) < MaxEvents THEN Append(events, ev) ELSE events
    /\ calm' = (calm /\ main = "serve" /\ (Len(events) < MaxEvents \/ Pending))

\* A renewal in place writes one file of the pair and then the other, in either
\* order. It may also stop half way for good.
Write(e, f) ==
    /\ main # "exit"
    /\ IF Whole(e) THEN version[e] < MaxVersion ELSE disk[e][f] # version[e]
    /\ version' = [version EXCEPT ![e] = IF Whole(e) THEN @ + 1 ELSE @]
    /\ disk' = [disk EXCEPT ![e][f] = version'[e]]
    /\ Notify("watched")
    /\ UNCHANGED <<certs, main, pc, at, read, timer, signals, hups, ctxDone>>

\* A renewal by swapping a symbolic link, which shows only as the creation of
\* another name in the directory.
Swap(e) ==
    /\ main # "exit"
    /\ Whole(e) /\ version[e] < MaxVersion
    /\ version' = [version EXCEPT ![e] = @ + 1]
    /\ disk' = [disk EXCEPT ![e] = [cert |-> version[e] + 1, key |-> version[e] + 1]]
    /\ Notify("create")
    /\ UNCHANGED <<certs, main, pc, at, read, timer, signals, hups, ctxDone>>

\* Another file of a watched directory changes.
Noise ==
    /\ main # "exit" /\ Watching /\ Len(events) < MaxEvents
    /\ events' = Append(events, "other")
    /\ UNCHANGED <<files, certs, main, pc, at, read, timer, signals, hups, ctxDone>>

----------------------------------------------------------------------------
(* Loading: LoadX509KeyPair, and what is done with its result *)

ReadCert(l) ==
    /\ main # "exit" /\ pc[l] = "cert"
    /\ read' = [read EXCEPT ![l].cert = disk[at[l]].cert]
    /\ pc' = [pc EXCEPT ![l] = "key"]
    /\ UNCHANGED <<files, certs, main, at, events, timer, signals, hups, ctxDone>>

ReadKey(l) ==
    /\ main # "exit" /\ pc[l] = "key"
    /\ read' = [read EXCEPT ![l].key = disk[at[l]].key]
    /\ pc' = [pc EXCEPT ![l] = "parse"]
    /\ UNCHANGED <<files, certs, main, at, events, timer, signals, hups, ctxDone>>

\* Mutant: the key is not compared with the certificate.
Loads_Unmatched(l) == TRUE

Loads(l) == read[l].cert = read[l].key

\* The next entry, or the end of the load.
Advance(l) ==
    /\ at' = [at EXCEPT ![l] = IF @ < NumSNI THEN @ + 1 ELSE 0]
    /\ pc' = [pc EXCEPT ![l] = IF at[l] < NumSNI THEN "cert"
                               ELSE IF l = "main" THEN "off" ELSE "idle"]

\* The pair loads: it is installed under the lock.
Install(l) ==
    /\ main # "exit" /\ pc[l] = "parse" /\ Loads(l)
    /\ certs' = [certs EXCEPT ![at[l]] = read[l]]
    /\ Advance(l)
    /\ main' = (IF l = "main" /\ at[l] = NumSNI THEN "register" ELSE main)
    /\ UNCHANGED <<files, read, events, timer, signals, hups, ctxDone>>

\* Mutant: a failure ends the reload.
LoadFails_Stops(l) ==
    /\ main # "exit" /\ l # "main" /\ pc[l] = "parse" /\ ~Loads(l)
    /\ at' = [at EXCEPT ![l] = 0] /\ pc' = [pc EXCEPT ![l] = "idle"]
    /\ UNCHANGED <<files, certs, main, read, events, timer, signals, hups, ctxDone>>

\* Mutant: a failure ends the goroutine.
LoadFails_Returns(l) ==
    /\ main # "exit" /\ l # "main" /\ pc[l] = "parse" /\ ~Loads(l)
    /\ at' = [at EXCEPT ![l] = 0] /\ pc' = [pc EXCEPT ![l] = "off"]
    /\ UNCHANGED <<files, certs, main, read, events, timer, signals, hups, ctxDone>>

\* ReloadAll keeps the old pair and goes on with the next entry; its error is
\* only logged.
LoadFails(l) ==
    /\ main # "exit" /\ l # "main" /\ pc[l] = "parse" /\ ~Loads(l)
    /\ Advance(l)
    /\ UNCHANGED <<files, certs, main, read, events, timer, signals, hups, ctxDone>>

\* NewCertStore or AddSNICert fails: startup fails.
StartupFails ==
    /\ main = "load" /\ pc["main"] = "parse" /\ ~Loads("main")
    /\ main' = "exit"
    /\ UNCHANGED <<files, certs, pc, at, read, events, timer, signals, hups, ctxDone>>

----------------------------------------------------------------------------
(* main after the first load *)

\* shm.AddHandler(ReloadAll, SIGHUP)
Register ==
    /\ main = "register"
    /\ main' = "startwatch"
    /\ UNCHANGED <<files, certs, pc, at, read, events, timer, signals, hups, ctxDone>>

\* Watch adds the directories and starts watchLoop.
StartWatch ==
    /\ main = "startwatch"
    /\ main' = "serve"
    /\ pc' = [pc EXCEPT !["watch"] = IF AutoReload THEN "idle" ELSE "off"]
    /\ UNCHANGED <<files, certs, at, read, events, timer, signals, hups, ctxDone>>

\* No watcher, or a directory that cannot be watched: startup fails.
StartWatchFails ==
    /\ main = "startwatch" /\ AutoReload
    /\ main' = "exit"
    /\ UNCHANGED <<files, certs, pc, at, read, events, timer, signals, hups, ctxDone>>

\* SIGINT or SIGTERM
Cancel ==
    /\ main \in {"startwatch", "serve"} /\ ~ctxDone
    /\ ctxDone' = TRUE
    /\ UNCHANGED <<files, certs, main, pc, at, read, events, timer, signals, hups>>

\* main returns, and every goroutine is gone.
Exit ==
    /\ main = "serve" /\ ctxDone
    /\ main' = "exit"
    /\ UNCHANGED <<files, certs, pc, at, read, events, timer, signals, hups, ctxDone>>

----------------------------------------------------------------------------
(* SIGHUP *)

\* Notify drops a signal that finds the channel full.
SendHup ==
    /\ main # "exit" /\ hups < MaxHups
    /\ signals' = TRUE
    /\ hups' = hups + 1
    /\ UNCHANGED <<files, certs, main, pc, at, read, events, timer, ctxDone>>

\* Mutant: the handler is registered after the watcher has started.
HandleHup_Late ==
    /\ main # "exit" /\ signals /\ pc["hup"] = "idle"
    /\ signals' = FALSE
    /\ pc' = [pc EXCEPT !["hup"] = IF main = "serve" THEN "cert" ELSE "idle"]
    /\ UNCHANGED <<files, certs, main, at, read, events, timer, hups, ctxDone>>

\* The mux takes the signal and runs the handler, if there is one by now. It
\* takes no other signal until the handler has returned.
HandleHup ==
    /\ main # "exit" /\ signals /\ pc["hup"] = "idle"
    /\ signals' = FALSE
    /\ pc' = [pc EXCEPT !["hup"] =
                IF main \in {"startwatch", "serve"} THEN "cert" ELSE "idle"]
    /\ UNCHANGED <<files, certs, main, at, read, events, timer, hups, ctxDone>>

----------------------------------------------------------------------------
(* watchLoop *)

WatchEvent ==
    /\ main # "exit" /\ pc["watch"] = "idle"
    /\ events # <<>>
    /\ events' = Tail(events)
    /\ timer' = (timer \/ RelevantEvent(Head(events)))
    /\ UNCHANGED <<files, certs, main, pc, at, read, signals, hups, ctxDone>>

\* The debounce window is over: ReloadAll, in the loop's goroutine.
WatchFire ==
    /\ main # "exit" /\ pc["watch"] = "idle"
    /\ timer
    /\ timer' = FALSE
    /\ pc' = [pc EXCEPT !["watch"] = "cert"]
    /\ UNCHANGED <<files, certs, main, at, read, events, signals, hups, ctxDone>>

\* watcher.Close()
WatchStop ==
    /\ main # "exit" /\ pc["watch"] = "idle"
    /\ ctxDone
    /\ pc' = [pc EXCEPT !["watch"] = "off"]
    /\ events' = <<>> /\ timer' = FALSE
    /\ UNCHANGED <<files, certs, main, at, read, signals, hups, ctxDone>>

----------------------------------------------------------------------------
LoadStep(l) == ReadCert(l) \/ ReadKey(l) \/ Install(l) \/ LoadFails(l)
MainStep == LoadStep("main") \/ StartupFails \/ Register \/ StartWatch

Exited == main = "exit" /\ UNCHANGED vars

Next ==
    \/ \E e \in Entry :
          \/ \E f \in {"cert", "key"} : Write(e, f)
          \/ Swap(e)
    \/ Noise
    \/ \E l \in Loader : ReadCert(l) \/ ReadKey(l) \/ Install(l) \/ LoadFails(l)
    \/ StartupFails \/ Register \/ StartWatch \/ StartWatchFails
    \/ Cancel \/ Exit
    \/ SendHup \/ HandleHup
    \/ WatchEvent \/ WatchFire \/ WatchStop
    \/ Exited

(***************************************************************************)
(* Goroutines that can run do run and the debounce timer fires; nothing is *)
(* assumed of renewals and signals.                                        *)
(***************************************************************************)
Fairness ==
    /\ WF_vars(MainStep)
    /\ WF_vars(LoadStep("hup") \/ HandleHup)
    /\ WF_vars(LoadStep("watch")) /\ WF_vars(WatchEvent) /\ WF_vars(WatchFire)

Spec == Init /\ [][Next]_vars /\ Fairness

----------------------------------------------------------------------------
(* Properties *)

\* GetCertificate: the entry of the host name, the default for any other name.
GetCertificate(name) ==
    IF name \in Entry /\ certs[name] # NoCert THEN certs[name] ELSE certs[0]

\* Whatever is renewed while it is read, and by however many loaders, a client
\* is offered a certificate with its own key, and never one newer than the disk.
OffersMatchingPair ==
    main = "serve" =>
       \A name \in Entry :
          LET c == GetCertificate(name)
          IN c.cert = c.key /\ c # NoCert /\ c.cert <= version[name]

\* Everything that makes the watcher load again is done.
WatchQuiet == pc["watch"] = "idle" /\ ~Pending

\* When the watcher has come to rest, every entry whose files are whole is the
\* one on disk: no change is lost between the event, the debounce window, the
\* two reads and another entry's failure, nor with an event that is dropped while
\* another one waits. (As long as no SIGHUP was sent, and if no file changed
\* before the watcher ran or while the queue was full of irrelevant events.)
WatchCurrent ==
    (main = "serve" /\ calm /\ hups = 0 /\ WatchQuiet) =>
       \A e \in Entry : Whole(e) => certs[e] = disk[e]

\* A SIGHUP that main can handle loads what is on disk when it is sent, unless
\* the files change (SigHandlerMux, ReloadAll).
HupApplies ==
    \A e \in Entry : \A v \in 1..MaxVersion :
       (signals /\ main \in {"startwatch", "serve"} /\ Whole(e) /\ version[e] = v)
          ~> (certs[e].cert = v \/ version[e] # v \/ main = "exit")

\* Version v of e is offered, unless the files change again, a SIGHUP is sent
\* or the process shuts down.
Applies(e, v) == certs[e].cert = v \/ version[e] # v \/ hups > 0 \/ ctxDone

\* A change of the files that a running watcher can see is loaded without a
\* SIGHUP, whatever fails to load and whatever is dropped on the way (watchLoop).
WatchApplies ==
    \A e \in Entry : \A v \in 1..MaxVersion :
       (main = "serve" /\ calm /\ Whole(e) /\ version[e] = v) ~> Applies(e, v)

\* Once the last renewal is complete, new connections eventually get it for good.
NewestStays ==
    \A e \in Entry :
       (main = "serve" /\ calm /\ Whole(e) /\ version[e] = MaxVersion)
          ~> (ctxDone \/ [](certs[e].cert = MaxVersion \/ ctxDone))
=============================================================================
