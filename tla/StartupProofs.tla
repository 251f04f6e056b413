--------------------------- MODULE StartupProofs ---------------------------
(* The promises of the files under ~/.meetrs, for every number of processes,  *)
(* started, killed and started again in any order.  Each of the four parts of *)
(* the invariant concerns one file; the model's rests on the lock's.          *)
EXTENDS Startup, TLAPS

AfterModel == {"index", "capture", "preflight", "recording"}

(* A process is in a guarded state exactly while it holds the lock.           *)
LockInv == \A p \in Procs : pc[p] \in Guarded <=> lock = p

(* What is about to be installed was verified, and so was what is in use.     *)
ModelInv ==
    \A p \in Procs : ~over[p] =>
        /\ pc[p] = "install" => part = "whole"
        /\ pc[p] \in AfterModel => dest = "whole"

(* A connection inside its migration is the only one that writes, and what it *)
(* read is still true.                                                        *)
DbInv ==
    /\ SchemaIsWhole
    /\ \A c \in Conns : /\ conn[c] \in {"read", "ddl"} => dbWriter = c
                        /\ conn[c] = "ddl" => seen[c] = version

(* A process that still has the template to write made the file itself.       *)
ConfigInv ==
    /\ UserTextKept
    /\ \A p \in Procs : /\ pc[p] = "template" => saved = NoFile /\ config # NoFile
                        /\ pc[p] = "append" => config # NoFile

IInv == TypeOK /\ LockInv /\ ModelInv /\ DbInv /\ ConfigInv

(* The texts that config.yaml may hold are closed under what is done to them. *)
LEMMA TextFacts ==
    /\ <<>> \in Text /\ Template \in Text
    /\ \A k \in DOMAIN FirstText : FirstText[k] \in Text \cup {NoFile}
    /\ \A t \in UserTexts : <<t>> \in Text
    /\ \A s, t \in Text : Missing(t) \in Text /\ s \o Missing(t) \in Text
  <1> USE DEF Text, Keys, UserTexts
  <1>1. <<>> \in Text /\ Template \in Text
    BY DEF Template
  <1>2. \A k \in DOMAIN FirstText : FirstText[k] \in Text \cup {NoFile}
    <2>1. /\ FirstText["none"] = NoFile /\ FirstText["empty"] = <<>>
          /\ FirstText["user"] = <<"user">> /\ FirstText["flow"] = <<"flow">>
          /\ FirstText["partial"] = <<"user", "secs">>
      BY DEF FirstText
    <2>2. /\ <<>> \in Text /\ <<"user">> \in Text /\ <<"flow">> \in Text
          /\ <<"user", "secs">> \in Text
      OBVIOUS
    <2>3. DOMAIN FirstText = {"none", "empty", "user", "flow", "partial"}
      BY DEF FirstText
    <2> HIDE DEF Text
    <2> QED
      BY <2>1, <2>2, <2>3
  <1>3. \A t \in UserTexts : <<t>> \in Text
    OBVIOUS
  <1>4. ASSUME NEW s \in Text, NEW t \in Text
        PROVE  Missing(t) \in Text /\ s \o Missing(t) \in Text
    <2> DEFINE a == IF Holds(t, "secs") THEN <<>> ELSE <<"secs">>
               b == IF Holds(t, "bytes") THEN <<>> ELSE <<"bytes">>
    <2>1. <<"secs">> \in Text /\ <<"bytes">> \in Text /\ <<>> \in Text
      OBVIOUS
    <2>2. a \in Text /\ b \in Text
      BY <2>1
    <2>3. Missing(t) = a \o b
      BY DEF Missing
    <2> HIDE DEF a, b
    <2> QED
      BY <2>2, <2>3
  <1> QED
    BY <1>1, <1>2, <1>3, <1>4

(* What is added to a text leaves its beginning alone.                        *)
LEMMA HeadStays ==
    /\ \A t \in UserTexts : <<t>> # <<>> /\ Head(<<t>>) \in UserTexts
    /\ \A s, t \in Text : s # <<>> => s \o t # <<>> /\ Head(s \o t) = Head(s)
  BY DEF Text, UserTexts

(* The first state: nobody runs yet.                                          *)
LEMMA InitIInv == Init => IInv
  <1> SUFFICES ASSUME Init PROVE IInv
    OBVIOUS
  <1> USE StartupAssumption, ConnAssumption DEF Init
  <1>1. TypeOK
    BY TextFacts DEF TypeOK, PC, Guarded, AllModes, ModelFile
  <1>2. LockInv /\ ModelInv
    BY DEF LockInv, ModelInv, Guarded, AfterModel
  <1>3. DbInv
    BY DEF DbInv, SchemaIsWhole
  <1>4. ConfigInv
    BY DEF ConfigInv, UserTextKept
  <1> QED
    BY <1>1, <1>2, <1>3, <1>4 DEF IInv

(* The places a process may be in, as facts about an opaque set.              *)
LEMMA Places ==
    \A s \in {"off", "refused", "config", "create", "template", "append", "dispatch",
               "identity", "lock", "query", "uploading", "pid", "dir", "model", "download",
               "receive", "verify", "install", "index", "capture", "preflight",
               "recording", "checking", "compressing"} : s \in PC
  BY DEF PC, Guarded

(* A process that ends leaves the variables it resets in their domains.       *)
LEMMA EndsTypes ==
    ASSUME TypeOK, NEW p \in Procs, NEW how \in PC, Ends(p, how)
    PROVE  /\ pc' \in [Procs -> PC] /\ mode' \in [Procs -> AllModes]
           /\ over' \in [Procs -> BOOLEAN] /\ own' \in [Procs -> BOOLEAN]
           /\ read' \in [Procs -> Text]
           /\ lock' \in Procs \cup {NoOne}
           /\ conn' \in [Conns -> {"closed", "begin", "read", "ddl", "open", "busy", "failed"}]
           /\ seen' \in [Conns -> 0..2] /\ version' \in 0..2 /\ turnColumn' \in BOOLEAN
           /\ dbWriter' \in Conns \cup {NoOne} /\ launches' \in Nat
  <1> USE DEF TypeOK, Ends
  <1>1. pc' \in [Procs -> PC]
    OBVIOUS
  <1>2. mode' \in [Procs -> AllModes]
    BY DEF AllModes
  <1>3. over' \in [Procs -> BOOLEAN] /\ own' \in [Procs -> BOOLEAN]
    OBVIOUS
  <1>4. read' \in [Procs -> Text]
    BY TextFacts
  <1>5. conn' \in [Conns -> {"closed", "begin", "read", "ddl", "open", "busy", "failed"}]
    OBVIOUS
  <1>6. seen' \in [Conns -> 0..2]
    OBVIOUS
  <1>7. /\ version' \in 0..2 /\ turnColumn' \in BOOLEAN /\ launches' \in Nat
        /\ lock' \in Procs \cup {NoOne} /\ dbWriter' \in Conns \cup {NoOne}
    OBVIOUS
  <1> QED
    BY <1>1, <1>2, <1>3, <1>4, <1>5, <1>6, <1>7

(* Every step keeps every variable in its domain.                             *)
LEMMA NextTypeOK ==
    ASSUME TypeOK, ConfigInv, [Next]_vars
    PROVE  TypeOK'
  <1> USE StartupAssumption, ConnAssumption, TextFacts, Places, EndsTypes DEF TypeOK, Refused, Goes, Fails, procVars, configVars, modelVars, dbVars
  <1>1. ASSUME NEW p \in Procs, NEW m \in Modes, Launch(p, m) PROVE TypeOK'
    BY <1>1 DEF Launch
  <1>2. ASSUME NEW p \in Procs, ReadConfig(p) PROVE TypeOK'
    BY <1>2 DEF ReadConfig
  <1>3. ASSUME NEW p \in Procs, Create(p) PROVE TypeOK'
    BY <1>3 DEF Create, CreateConfig
  <1>4. ASSUME NEW p \in Procs, WriteTemplate(p) PROVE TypeOK'
    BY <1>4 DEF WriteTemplate
  <1>5. ASSUME NEW p \in Procs, AppendKeys(p) PROVE TypeOK'
    <2>1. config' \in Text \cup {NoFile}
      <3>1. config \in Text
        BY <1>5 DEF AppendKeys, ConfigInv
      <3>2. config' = config \o Missing(read[p]) \/ config' = config
        BY <1>5 DEF AppendKeys, AppendConfig
      <3>3. read[p] \in Text
        OBVIOUS
      <3>4. config \o Missing(read[p]) \in Text
        BY <3>1, <3>3, TextFacts, Zenon
      <3> QED
        BY <3>1, <3>2, <3>4
    <2>2. read' \in [Procs -> Text] /\ pc' \in [Procs -> PC]
      BY <1>5 DEF AppendKeys
    <2> QED
      BY <1>5, <2>1, <2>2 DEF AppendKeys
  <1>6. ASSUME NEW p \in Procs, Dispatch(p) PROVE TypeOK'
    BY <1>6 DEF AllModes, Dispatch
  <1>7. ASSUME NEW p \in Procs, AdoptIdentity(p) PROVE TypeOK'
    <2>1. own' \in [Procs -> BOOLEAN]
      BY <1>7 DEF AdoptIdentity
    <2>2. pc' \in [Procs -> PC]
      BY <1>7 DEF AdoptIdentity
    <2> QED
      BY <1>7, <2>1, <2>2 DEF AdoptIdentity
  <1>8. ASSUME NEW p \in Procs, Acquire(p) PROVE TypeOK'
    BY <1>8 DEF Acquire, Flock
  <1>9. ASSUME NEW p \in Procs, WritePid(p) PROVE TypeOK'
    BY <1>9 DEF WritePid
  <1>10. ASSUME NEW p \in Procs, MakeDir(p) PROVE TypeOK'
    BY <1>10 DEF MakeDir
  <1>11. ASSUME NEW p \in Procs, EnsureModel(p) PROVE TypeOK'
    BY <1>11 DEF ModelFile, EnsureModel, CheckCached
  <1>12. ASSUME NEW p \in Procs, StartDownload(p) PROVE TypeOK'
    BY <1>12 DEF ModelFile, StartDownload
  <1>13. ASSUME NEW p \in Procs, Receive(p) PROVE TypeOK'
    BY <1>13 DEF ModelFile, Receive
  <1>14. ASSUME NEW p \in Procs, Verify(p) PROVE TypeOK'
    BY <1>14 DEF ModelFile, Verify
  <1>15. ASSUME NEW p \in Procs, Install(p) PROVE TypeOK'
    <2>1. CASE UNCHANGED modelVars /\ Refused(p)
      BY <1>15, <2>1 DEF Install
    <2>2. CASE dest' = part /\ part' = "none" /\ Goes(p, "index")
      BY <1>15, <2>2 DEF ModelFile, Install
    <2> QED
      BY <1>15, <2>1, <2>2 DEF Install
  <1>16. ASSUME NEW p \in Procs, IndexReady(p) PROVE TypeOK'
    BY <1>16 DEF IndexReady, Connects
  <1>17. ASSUME NEW p \in Procs, Query(p) PROVE TypeOK'
    BY <1>17 DEF Query
  <1>18. ASSUME NEW p \in Procs, StartCapture(p) PROVE TypeOK'
    BY <1>18 DEF StartCapture
  <1>19. ASSUME NEW p \in Procs, Preflight(p) PROVE TypeOK'
    BY <1>19 DEF Preflight
  <1>20. ASSUME NEW p \in Procs, WorkDone(p) PROVE TypeOK'
    BY <1>20 DEF WorkDone
  <1>21. ASSUME NEW p \in Procs, Kill(p) PROVE TypeOK'
    BY <1>21 DEF Kill
  <1>22. ASSUME NEW c \in Conns, OpenIndex(c) PROVE TypeOK'
    BY <1>22 DEF OpenIndex, Connects, Unchanged4db, MayOpen
  <1>23. ASSUME NEW c \in Conns, Begin(c) PROVE TypeOK'
    BY <1>23 DEF Begin, Connects, Unchanged4db, BeginImmediate
  <1>24. ASSUME NEW c \in Conns, BusyTimeout(c) PROVE TypeOK'
    BY <1>24 DEF BusyTimeout, GivesUp, Connects, Unchanged4db
  <1>25. ASSUME NEW c \in Conns, ReadVersion(c) PROVE TypeOK'
    BY <1>25 DEF ReadVersion, Connects, Unchanged4db
  <1>26. ASSUME NEW c \in Conns, Migrate(c) PROVE TypeOK'
    <2>1. turnColumn' \in BOOLEAN
      BY <1>26 DEF Migrate
    <2>2. version' \in 0..2 /\ seen' \in [Conns -> 0..2] /\ dbWriter' \in Conns \cup {NoOne}
      BY <1>26 DEF Migrate
    <2>3. conn' \in [Conns -> {"closed", "begin", "read", "ddl", "open", "busy", "failed"}]
      BY <1>26 DEF Migrate, Connects
    <2> QED
      BY <1>26, <2>1, <2>2, <2>3 DEF Migrate, Unchanged4db
  <1>27. ASSUME NEW t \in UserTexts, UserSaves(t) PROVE TypeOK'
    BY <1>27 DEF UserSaves, WritesTemplate
  <1>29. ASSUME NEW t \in UserTexts, UserIsOverwritten(t) PROVE TypeOK'
    BY <1>29 DEF UserIsOverwritten, WritesTemplate
  <1>30. ASSUME NEW c \in Conns, BeginWrite(c) PROVE TypeOK'
    BY <1>30 DEF BeginWrite, MayWrite, Unchanged4db
  <1>31. ASSUME NEW c \in Conns, CommitWrite(c) PROVE TypeOK'
    BY <1>31 DEF CommitWrite, Unchanged4db
  <1>28. CASE UNCHANGED vars
    BY <1>28 DEF vars
  <1> QED
    BY <1>1, <1>2, <1>3, <1>4, <1>5, <1>6, <1>7, <1>8, <1>9, <1>10, <1>11, <1>12, <1>13, <1>14, <1>15, <1>16, <1>17, <1>18, <1>19, <1>20, <1>21, <1>22, <1>23, <1>24, <1>25, <1>26, <1>27, <1>28, <1>29, <1>30, <1>31 DEF Next, Local, Fetch, Opening, Resting

(* Whoever holds the lock is in a state that needs it, and nobody else is.    *)
LEMMA NextLockInv ==
    ASSUME TypeOK, LockInv, [Next]_vars
    PROVE  LockInv'
  <1> USE StartupAssumption, ConnAssumption DEF TypeOK, LockInv, Guarded, Working, PC, Ends, Refused, Goes, Fails, procVars, configVars, modelVars, dbVars
  <1>1. ASSUME NEW p \in Procs, NEW m \in Modes, Launch(p, m) PROVE LockInv'
    BY <1>1 DEF Launch
  <1>2. ASSUME NEW p \in Procs, ReadConfig(p) PROVE LockInv'
    BY <1>2 DEF ReadConfig
  <1>3. ASSUME NEW p \in Procs, Create(p) PROVE LockInv'
    BY <1>3 DEF Create, CreateConfig
  <1>4. ASSUME NEW p \in Procs, WriteTemplate(p) PROVE LockInv'
    BY <1>4 DEF WriteTemplate, Template
  <1>5. ASSUME NEW p \in Procs, AppendKeys(p) PROVE LockInv'
    BY <1>5 DEF AppendKeys, AppendConfig
  <1>6. ASSUME NEW p \in Procs, Dispatch(p) PROVE LockInv'
    BY <1>6 DEF Dispatch
  <1>7. ASSUME NEW p \in Procs, AdoptIdentity(p) PROVE LockInv'
    BY <1>7 DEF AdoptIdentity
  <1>8. ASSUME NEW p \in Procs, Acquire(p) PROVE LockInv'
    BY <1>8 DEF Acquire, Flock
  <1>9. ASSUME NEW p \in Procs, WritePid(p) PROVE LockInv'
    BY <1>9 DEF WritePid
  <1>10. ASSUME NEW p \in Procs, MakeDir(p) PROVE LockInv'
    BY <1>10 DEF MakeDir
  <1>11. ASSUME NEW p \in Procs, EnsureModel(p) PROVE LockInv'
    BY <1>11 DEF EnsureModel, CheckCached
  <1>12. ASSUME NEW p \in Procs, StartDownload(p) PROVE LockInv'
    BY <1>12 DEF StartDownload
  <1>13. ASSUME NEW p \in Procs, Receive(p) PROVE LockInv'
    BY <1>13 DEF Receive
  <1>14. ASSUME NEW p \in Procs, Verify(p) PROVE LockInv'
    BY <1>14 DEF Verify
  <1>15. ASSUME NEW p \in Procs, Install(p) PROVE LockInv'
    BY <1>15 DEF Install
  <1>16. ASSUME NEW p \in Procs, IndexReady(p) PROVE LockInv'
    BY <1>16 DEF IndexReady
  <1>17. ASSUME NEW p \in Procs, Query(p) PROVE LockInv'
    BY <1>17 DEF Query
  <1>18. ASSUME NEW p \in Procs, StartCapture(p) PROVE LockInv'
    BY <1>18 DEF StartCapture
  <1>19. ASSUME NEW p \in Procs, Preflight(p) PROVE LockInv'
    BY <1>19 DEF Preflight
  <1>20. ASSUME NEW p \in Procs, WorkDone(p) PROVE LockInv'
    BY <1>20 DEF WorkDone
  <1>21. ASSUME NEW p \in Procs, Kill(p) PROVE LockInv'
    BY <1>21 DEF Kill
  <1>22. ASSUME NEW c \in Conns, OpenIndex(c) PROVE LockInv'
    BY <1>22 DEF OpenIndex, Connects, Unchanged4db, MayOpen
  <1>23. ASSUME NEW c \in Conns, Begin(c) PROVE LockInv'
    BY <1>23 DEF Begin, Connects, Unchanged4db, BeginImmediate
  <1>24. ASSUME NEW c \in Conns, BusyTimeout(c) PROVE LockInv'
    BY <1>24 DEF BusyTimeout, GivesUp, Connects, Unchanged4db
  <1>25. ASSUME NEW c \in Conns, ReadVersion(c) PROVE LockInv'
    BY <1>25 DEF ReadVersion, Connects, Unchanged4db
  <1>26. ASSUME NEW c \in Conns, Migrate(c) PROVE LockInv'
    BY <1>26 DEF Migrate, Connects, Unchanged4db, StepsMissing
  <1>27. ASSUME NEW t \in UserTexts, UserSaves(t) PROVE LockInv'
    BY <1>27 DEF UserSaves, WritesTemplate
  <1>29. ASSUME NEW t \in UserTexts, UserIsOverwritten(t) PROVE LockInv'
    BY <1>29 DEF UserIsOverwritten, WritesTemplate
  <1>30. ASSUME NEW c \in Conns, BeginWrite(c) PROVE LockInv'
    BY <1>30 DEF BeginWrite, MayWrite, Unchanged4db
  <1>31. ASSUME NEW c \in Conns, CommitWrite(c) PROVE LockInv'
    BY <1>31 DEF CommitWrite, Unchanged4db
  <1>28. CASE UNCHANGED vars
    BY <1>28 DEF vars
  <1> QED
    BY <1>1, <1>2, <1>3, <1>4, <1>5, <1>6, <1>7, <1>8, <1>9, <1>10, <1>11, <1>12, <1>13, <1>14, <1>15, <1>16, <1>17, <1>18, <1>19, <1>20, <1>21, <1>22, <1>23, <1>24, <1>25, <1>26, <1>27, <1>28, <1>29, <1>30, <1>31 DEF Next, Local, Fetch, Opening, Resting

(* Only the holder of the lock touches the model, and not once it is in use.   *)
LEMMA NextModelInv ==
    ASSUME TypeOK, LockInv, ModelInv, [Next]_vars
    PROVE  ModelInv'
  <1> USE StartupAssumption, ConnAssumption DEF TypeOK, LockInv, ModelInv, Guarded, Working, AfterModel, Ends, Refused, Goes, Fails, procVars, configVars, modelVars, dbVars
  <1>1. ASSUME NEW p \in Procs, NEW m \in Modes, Launch(p, m) PROVE ModelInv'
    BY <1>1 DEF Launch
  <1>2. ASSUME NEW p \in Procs, ReadConfig(p) PROVE ModelInv'
    BY <1>2 DEF ReadConfig
  <1>3. ASSUME NEW p \in Procs, Create(p) PROVE ModelInv'
    BY <1>3 DEF Create, CreateConfig
  <1>4. ASSUME NEW p \in Procs, WriteTemplate(p) PROVE ModelInv'
    BY <1>4 DEF WriteTemplate, Template
  <1>5. ASSUME NEW p \in Procs, AppendKeys(p) PROVE ModelInv'
    BY <1>5 DEF AppendKeys, AppendConfig
  <1>6. ASSUME NEW p \in Procs, Dispatch(p) PROVE ModelInv'
    BY <1>6 DEF Dispatch
  <1>7. ASSUME NEW p \in Procs, AdoptIdentity(p) PROVE ModelInv'
    BY <1>7 DEF AdoptIdentity
  <1>8. ASSUME NEW p \in Procs, Acquire(p) PROVE ModelInv'
    BY <1>8 DEF Acquire, Flock
  <1>9. ASSUME NEW p \in Procs, WritePid(p) PROVE ModelInv'
    BY <1>9 DEF WritePid
  <1>10. ASSUME NEW p \in Procs, MakeDir(p) PROVE ModelInv'
    BY <1>10 DEF MakeDir
  <1>11. ASSUME NEW p \in Procs, EnsureModel(p) PROVE ModelInv'
    BY <1>11 DEF EnsureModel, CheckCached
  <1>12. ASSUME NEW p \in Procs, StartDownload(p) PROVE ModelInv'
    BY <1>12 DEF StartDownload
  <1>13. ASSUME NEW p \in Procs, Receive(p) PROVE ModelInv'
    BY <1>13 DEF Receive
  <1>14. ASSUME NEW p \in Procs, Verify(p) PROVE ModelInv'
    BY <1>14 DEF Verify
  <1>15. ASSUME NEW p \in Procs, Install(p) PROVE ModelInv'
    BY <1>15 DEF Install
  <1>16. ASSUME NEW p \in Procs, IndexReady(p) PROVE ModelInv'
    BY <1>16 DEF IndexReady
  <1>17. ASSUME NEW p \in Procs, Query(p) PROVE ModelInv'
    BY <1>17 DEF Query
  <1>18. ASSUME NEW p \in Procs, StartCapture(p) PROVE ModelInv'
    BY <1>18 DEF StartCapture
  <1>19. ASSUME NEW p \in Procs, Preflight(p) PROVE ModelInv'
    BY <1>19 DEF Preflight
  <1>20. ASSUME NEW p \in Procs, WorkDone(p) PROVE ModelInv'
    BY <1>20 DEF WorkDone
  <1>21. ASSUME NEW p \in Procs, Kill(p) PROVE ModelInv'
    BY <1>21 DEF Kill
  <1>22. ASSUME NEW c \in Conns, OpenIndex(c) PROVE ModelInv'
    BY <1>22 DEF OpenIndex, Connects, Unchanged4db, MayOpen
  <1>23. ASSUME NEW c \in Conns, Begin(c) PROVE ModelInv'
    BY <1>23 DEF Begin, Connects, Unchanged4db, BeginImmediate
  <1>24. ASSUME NEW c \in Conns, BusyTimeout(c) PROVE ModelInv'
    BY <1>24 DEF BusyTimeout, GivesUp, Connects, Unchanged4db
  <1>25. ASSUME NEW c \in Conns, ReadVersion(c) PROVE ModelInv'
    BY <1>25 DEF ReadVersion, Connects, Unchanged4db
  <1>26. ASSUME NEW c \in Conns, Migrate(c) PROVE ModelInv'
    BY <1>26 DEF Migrate, Connects, Unchanged4db, StepsMissing
  <1>27. ASSUME NEW t \in UserTexts, UserSaves(t) PROVE ModelInv'
    BY <1>27 DEF UserSaves, WritesTemplate
  <1>29. ASSUME NEW t \in UserTexts, UserIsOverwritten(t) PROVE ModelInv'
    BY <1>29 DEF UserIsOverwritten, WritesTemplate
  <1>30. ASSUME NEW c \in Conns, BeginWrite(c) PROVE ModelInv'
    BY <1>30 DEF BeginWrite, MayWrite, Unchanged4db
  <1>31. ASSUME NEW c \in Conns, CommitWrite(c) PROVE ModelInv'
    BY <1>31 DEF CommitWrite, Unchanged4db
  <1>28. CASE UNCHANGED vars
    BY <1>28 DEF vars
  <1> QED
    BY <1>1, <1>2, <1>3, <1>4, <1>5, <1>6, <1>7, <1>8, <1>9, <1>10, <1>11, <1>12, <1>13, <1>14, <1>15, <1>16, <1>17, <1>18, <1>19, <1>20, <1>21, <1>22, <1>23, <1>24, <1>25, <1>26, <1>27, <1>28, <1>29, <1>30, <1>31 DEF Next, Local, Fetch, Opening, Resting

(* The version that is migrated from is the one committed last.                *)
LEMMA NextDbInv ==
    ASSUME TypeOK, DbInv, [Next]_vars
    PROVE  DbInv'
  <1> USE StartupAssumption, ConnAssumption DEF TypeOK, DbInv, SchemaIsWhole, Ends, Refused, Goes, Fails, procVars, configVars, modelVars, dbVars
  <1>1. ASSUME NEW p \in Procs, NEW m \in Modes, Launch(p, m) PROVE DbInv'
    BY <1>1 DEF Launch
  <1>2. ASSUME NEW p \in Procs, ReadConfig(p) PROVE DbInv'
    BY <1>2 DEF ReadConfig
  <1>3. ASSUME NEW p \in Procs, Create(p) PROVE DbInv'
    BY <1>3 DEF Create, CreateConfig
  <1>4. ASSUME NEW p \in Procs, WriteTemplate(p) PROVE DbInv'
    BY <1>4 DEF WriteTemplate, Template
  <1>5. ASSUME NEW p \in Procs, AppendKeys(p) PROVE DbInv'
    BY <1>5 DEF AppendKeys, AppendConfig
  <1>6. ASSUME NEW p \in Procs, Dispatch(p) PROVE DbInv'
    BY <1>6 DEF Dispatch
  <1>7. ASSUME NEW p \in Procs, AdoptIdentity(p) PROVE DbInv'
    BY <1>7 DEF AdoptIdentity
  <1>8. ASSUME NEW p \in Procs, Acquire(p) PROVE DbInv'
    BY <1>8 DEF Acquire, Flock
  <1>9. ASSUME NEW p \in Procs, WritePid(p) PROVE DbInv'
    BY <1>9 DEF WritePid
  <1>10. ASSUME NEW p \in Procs, MakeDir(p) PROVE DbInv'
    BY <1>10 DEF MakeDir
  <1>11. ASSUME NEW p \in Procs, EnsureModel(p) PROVE DbInv'
    BY <1>11 DEF EnsureModel, CheckCached
  <1>12. ASSUME NEW p \in Procs, StartDownload(p) PROVE DbInv'
    BY <1>12 DEF StartDownload
  <1>13. ASSUME NEW p \in Procs, Receive(p) PROVE DbInv'
    BY <1>13 DEF Receive
  <1>14. ASSUME NEW p \in Procs, Verify(p) PROVE DbInv'
    BY <1>14 DEF Verify
  <1>15. ASSUME NEW p \in Procs, Install(p) PROVE DbInv'
    BY <1>15 DEF Install
  <1>16. ASSUME NEW p \in Procs, IndexReady(p) PROVE DbInv'
    BY <1>16 DEF IndexReady, Connects, Answered
  <1>17. ASSUME NEW p \in Procs, Query(p) PROVE DbInv'
    BY <1>17 DEF Query
  <1>18. ASSUME NEW p \in Procs, StartCapture(p) PROVE DbInv'
    BY <1>18 DEF StartCapture
  <1>19. ASSUME NEW p \in Procs, Preflight(p) PROVE DbInv'
    BY <1>19 DEF Preflight
  <1>20. ASSUME NEW p \in Procs, WorkDone(p) PROVE DbInv'
    BY <1>20 DEF WorkDone
  <1>21. ASSUME NEW p \in Procs, Kill(p) PROVE DbInv'
    BY <1>21 DEF Kill
  <1>22. ASSUME NEW c \in Conns, OpenIndex(c) PROVE DbInv'
    BY <1>22 DEF OpenIndex, Connects, Unchanged4db, MayOpen
  <1>23. ASSUME NEW c \in Conns, Begin(c) PROVE DbInv'
    BY <1>23 DEF Begin, Connects, Unchanged4db, BeginImmediate
  <1>24. ASSUME NEW c \in Conns, BusyTimeout(c) PROVE DbInv'
    BY <1>24 DEF BusyTimeout, GivesUp, Connects, Unchanged4db
  <1>25. ASSUME NEW c \in Conns, ReadVersion(c) PROVE DbInv'
    BY <1>25 DEF ReadVersion, Connects, Unchanged4db
  <1>26. ASSUME NEW c \in Conns, Migrate(c) PROVE DbInv'
    <2>1. dbWriter = c /\ seen[c] = version
      BY <1>26 DEF Migrate
    <2>2. ~(StepsMissing(c) /\ turnColumn)
      <3>1. turnColumn => version = 2
        OBVIOUS
      <3> QED
        BY <2>1, <3>1 DEF StepsMissing
    <2>3. conn' = [conn EXCEPT ![c] = "open"] /\ dbWriter' = NoOne
      BY <1>26, <2>2 DEF Migrate, Connects
    <2>4. version' = 2 /\ turnColumn' = TRUE
      <3>1. /\ version' = IF StepsMissing(c) THEN 2 ELSE version
            /\ turnColumn' = (turnColumn \/ StepsMissing(c))
        BY <1>26, <2>2 DEF Migrate
      <3>2. CASE StepsMissing(c)
        BY <3>1, <3>2
      <3>3. CASE ~StepsMissing(c)
        <4>1. version = 2
          BY <2>1, <3>3 DEF StepsMissing
        <4>2. turnColumn = TRUE
          BY <4>1
        <4> QED
          BY <3>1, <3>3, <4>1, <4>2
      <3> QED
        BY <3>2, <3>3
    <2>5. SchemaIsWhole'
      BY <2>3, <2>4
    <2>6. \A d \in Conns : conn'[d] \notin {"read", "ddl"}
      BY <2>1, <2>3
    <2> QED
      BY <2>5, <2>6
  <1>27. ASSUME NEW t \in UserTexts, UserSaves(t) PROVE DbInv'
    BY <1>27 DEF UserSaves, WritesTemplate
  <1>29. ASSUME NEW t \in UserTexts, UserIsOverwritten(t) PROVE DbInv'
    BY <1>29 DEF UserIsOverwritten, WritesTemplate
  <1>30. ASSUME NEW c \in Conns, BeginWrite(c) PROVE DbInv'
    BY <1>30 DEF BeginWrite, MayWrite, Unchanged4db
  <1>31. ASSUME NEW c \in Conns, CommitWrite(c) PROVE DbInv'
    BY <1>31 DEF CommitWrite, Unchanged4db
  <1>28. CASE UNCHANGED vars
    BY <1>28 DEF vars
  <1> QED
    BY <1>1, <1>2, <1>3, <1>4, <1>5, <1>6, <1>7, <1>8, <1>9, <1>10, <1>11, <1>12, <1>13, <1>14, <1>15, <1>16, <1>17, <1>18, <1>19, <1>20, <1>21, <1>22, <1>23, <1>24, <1>25, <1>26, <1>27, <1>28, <1>29, <1>30, <1>31 DEF Next, Local, Fetch, Opening, Resting

(* Beside the user, the file is made at most once and then only grows.         *)
LEMMA NextConfigInv ==
    ASSUME TypeOK, ConfigInv, [Next]_vars
    PROVE  ConfigInv'
  <1> USE StartupAssumption, ConnAssumption, TextFacts, HeadStays DEF TypeOK, ConfigInv, UserTextKept, Ends, Refused, Goes, Fails, procVars, configVars, modelVars, dbVars
  <1>1. ASSUME NEW p \in Procs, NEW m \in Modes, Launch(p, m) PROVE ConfigInv'
    BY <1>1 DEF Launch
  <1>2. ASSUME NEW p \in Procs, ReadConfig(p) PROVE ConfigInv'
    BY <1>2 DEF ReadConfig
  <1>3. ASSUME NEW p \in Procs, Create(p) PROVE ConfigInv'
    BY <1>3 DEF Create, CreateConfig
  <1>4. ASSUME NEW p \in Procs, WriteTemplate(p) PROVE ConfigInv'
    BY <1>4 DEF WriteTemplate
  <1>5. ASSUME NEW p \in Procs, AppendKeys(p) PROVE ConfigInv'
    <2>1. config \in Text /\ config' \in Text
      <3>1. config \in Text /\ Missing(read[p]) \in Text
        BY <1>5 DEF AppendKeys
      <3>2. config' = config \o Missing(read[p]) \/ config' = config
        BY <1>5 DEF AppendKeys, AppendConfig
      <3>3. read[p] \in Text
        OBVIOUS
      <3>4. config \o Missing(read[p]) \in Text
        BY <3>1, <3>3, TextFacts, Zenon
      <3> QED
        BY <3>1, <3>2, <3>4
    <2>2. saved # NoFile => config' # <<>> /\ Head(config') = Head(config)
      <3>1. config' = config \o Missing(read[p]) \/ config' = config
        BY <1>5 DEF AppendKeys, AppendConfig
      <3>2. Missing(read[p]) \in Text
        OBVIOUS
      <3> QED
        BY <2>1, <3>1, <3>2
    <2> QED
      BY <1>5, <2>1, <2>2 DEF AppendKeys
  <1>6. ASSUME NEW p \in Procs, Dispatch(p) PROVE ConfigInv'
    BY <1>6 DEF Dispatch
  <1>7. ASSUME NEW p \in Procs, AdoptIdentity(p) PROVE ConfigInv'
    BY <1>7 DEF AdoptIdentity
  <1>8. ASSUME NEW p \in Procs, Acquire(p) PROVE ConfigInv'
    BY <1>8 DEF Acquire, Flock
  <1>9. ASSUME NEW p \in Procs, WritePid(p) PROVE ConfigInv'
    BY <1>9 DEF WritePid
  <1>10. ASSUME NEW p \in Procs, MakeDir(p) PROVE ConfigInv'
    BY <1>10 DEF MakeDir
  <1>11. ASSUME NEW p \in Procs, EnsureModel(p) PROVE ConfigInv'
    BY <1>11 DEF EnsureModel, CheckCached
  <1>12. ASSUME NEW p \in Procs, StartDownload(p) PROVE ConfigInv'
    BY <1>12 DEF StartDownload
  <1>13. ASSUME NEW p \in Procs, Receive(p) PROVE ConfigInv'
    BY <1>13 DEF Receive
  <1>14. ASSUME NEW p \in Procs, Verify(p) PROVE ConfigInv'
    BY <1>14 DEF Verify
  <1>15. ASSUME NEW p \in Procs, Install(p) PROVE ConfigInv'
    BY <1>15 DEF Install
  <1>16. ASSUME NEW p \in Procs, IndexReady(p) PROVE ConfigInv'
    BY <1>16 DEF IndexReady
  <1>17. ASSUME NEW p \in Procs, Query(p) PROVE ConfigInv'
    BY <1>17 DEF Query
  <1>18. ASSUME NEW p \in Procs, StartCapture(p) PROVE ConfigInv'
    BY <1>18 DEF StartCapture
  <1>19. ASSUME NEW p \in Procs, Preflight(p) PROVE ConfigInv'
    BY <1>19 DEF Preflight
  <1>20. ASSUME NEW p \in Procs, WorkDone(p) PROVE ConfigInv'
    BY <1>20 DEF WorkDone
  <1>21. ASSUME NEW p \in Procs, Kill(p) PROVE ConfigInv'
    BY <1>21 DEF Kill
  <1>22. ASSUME NEW c \in Conns, OpenIndex(c) PROVE ConfigInv'
    BY <1>22 DEF OpenIndex, Connects, Unchanged4db, MayOpen
  <1>23. ASSUME NEW c \in Conns, Begin(c) PROVE ConfigInv'
    BY <1>23 DEF Begin, Connects, Unchanged4db, BeginImmediate
  <1>24. ASSUME NEW c \in Conns, BusyTimeout(c) PROVE ConfigInv'
    BY <1>24 DEF BusyTimeout, GivesUp, Connects, Unchanged4db
  <1>25. ASSUME NEW c \in Conns, ReadVersion(c) PROVE ConfigInv'
    BY <1>25 DEF ReadVersion, Connects, Unchanged4db
  <1>26. ASSUME NEW c \in Conns, Migrate(c) PROVE ConfigInv'
    BY <1>26 DEF Migrate, Connects, Unchanged4db, StepsMissing
  <1>27. ASSUME NEW t \in UserTexts, UserSaves(t) PROVE ConfigInv'
    BY <1>27 DEF UserSaves, WritesTemplate
  <1>29. ASSUME NEW t \in UserTexts, UserIsOverwritten(t) PROVE ConfigInv'
    BY <1>29 DEF UserIsOverwritten, WritesTemplate
  <1>30. ASSUME NEW c \in Conns, BeginWrite(c) PROVE ConfigInv'
    BY <1>30 DEF BeginWrite, MayWrite, Unchanged4db
  <1>31. ASSUME NEW c \in Conns, CommitWrite(c) PROVE ConfigInv'
    BY <1>31 DEF CommitWrite, Unchanged4db
  <1>28. CASE UNCHANGED vars
    BY <1>28 DEF vars
  <1> QED
    BY <1>1, <1>2, <1>3, <1>4, <1>5, <1>6, <1>7, <1>8, <1>9, <1>10, <1>11, <1>12, <1>13, <1>14, <1>15, <1>16, <1>17, <1>18, <1>19, <1>20, <1>21, <1>22, <1>23, <1>24, <1>25, <1>26, <1>27, <1>28, <1>29, <1>30, <1>31 DEF Next, Local, Fetch, Opening, Resting

(* Each part of the invariant is kept with the help of the others.            *)
LEMMA NextIInv == IInv /\ [Next]_vars => IInv'
  BY NextTypeOK, NextLockInv, NextModelInv, NextDbInv, NextConfigInv DEF IInv

(* The invariant holds in every reachable state.                              *)
LEMMA Inductive == Spec => []IInv
  BY InitIInv, NextIInv, PTL DEF Spec

(* Every variable of the processes and their files stays in its domain.       *)
THEOREM StartupTypes == Spec => []TypeOK
  <1>1. IInv => TypeOK
    BY DEF IInv
  <1> QED
    BY <1>1, Inductive, PTL

(* No two processes record, check or compress at a time (lock::acquire).      *)
THEOREM LockExcludes == Spec => []OneAtTheAudio
  <1>1. IInv => OneAtTheAudio
    BY DEF IInv, LockInv, OneAtTheAudio, Guarded, Working
  <1> QED
    BY <1>1, Inductive, PTL

(* A recorder transcribes with a verified model (model::ensure).              *)
THEOREM ModelIsWhole == Spec => []ModelIsVerified
  <1>1. IInv => ModelIsVerified
    BY DEF IInv, ModelInv, ModelIsVerified, AfterModel
  <1> QED
    BY <1>1, Inductive, PTL

(* However many connections open the index at once, and write to it, each     *)
(* migration runs once and none of them fails (migrate).                      *)
THEOREM MigratedOnce == Spec => []SchemaIsWhole
  <1>1. IInv => SchemaIsWhole
    BY DEF IInv, DbInv
  <1> QED
    BY <1>1, Inductive, PTL

(* What the user saved last is never overwritten (create_template,            *)
(* add_missing_keys).                                                         *)
THEOREM UserTextStays == Spec => []UserTextKept
  <1>1. IInv => UserTextKept
    BY DEF IInv, ConfigInv
  <1> QED
    BY <1>1, Inductive, PTL
=============================================================================
