---------------------------- MODULE HubConfigProofs ----------------------------
(* Proofs about HubConfig: the dirty flag never hides an unsaved setting,  *)
(* no text or file outgrows its type, files in flash are whole, a save     *)
(* that ends has saved every field, and the page shows what is in use.     *)
EXTENDS HubConfig, TLAPS

\* A callback that stores and marks keeps the flag honest.
LEMMA StoreKeeps ==
  ASSUME NEW new, CleanMeansSaved, Store(new),
         UNCHANGED <<flash, consoleSet>>
  PROVE  CleanMeansSaved'
BY DEF CleanMeansSaved, Store, InUse

\* So does one that marks in any case.
LEMMA MarkKeeps ==
  ASSUME dirty' = TRUE
  PROVE  CleanMeansSaved'
BY DEF CleanMeansSaved

\* A start reads flash.
LEMMA StartKeeps ==
  ASSUME NEW inBle, Start(inBle)
  PROVE  CleanMeansSaved'
BY DEF CleanMeansSaved, Start, InUse

\* Steps that leave settings, flag and flash alone.
LEMMA IdleKeeps ==
  ASSUME CleanMeansSaved, UNCHANGED <<config, dirty, flash, consoleSet>>
  PROVE  CleanMeansSaved'
BY DEF CleanMeansSaved, InUse

LEMMA CleanMeansSavedStep ==
  ASSUME CleanMeansSaved, [Next]_vars
  PROVE  CleanMeansSaved'
<1>1. CASE SaveText
  <2>1. /\ UNCHANGED <<flash, consoleSet>>
        /\ Store([config EXCEPT !.text[Step] = obj.text[Step]])
    BY <1>1 DEF SaveText, OnText, unwritten
  <2> QED BY <2>1, StoreKeeps
<1>2. CASE SaveConsoleEnabled
  <2>1. /\ UNCHANGED <<flash, consoleSet>>
        /\ Store([config EXCEPT !.console = IF obj.console # 0 THEN 1 ELSE 0])
    BY <1>2 DEF SaveConsoleEnabled, OnConsoleEnabled, unwritten
  <2> QED BY <2>1, StoreKeeps
<1>3. CASE SavePort
  <2>1. /\ UNCHANGED <<flash, consoleSet>>
        /\ Store([config EXCEPT !.port = obj.port])
    BY <1>3 DEF SavePort, OnPort, unwritten
  <2> QED BY <2>1, StoreKeeps
<1>4. CASE SkipFile
  <2>1. UNCHANGED <<config, dirty, flash, consoleSet>>  BY <1>4 DEF SkipFile, unwritten
  <2> QED BY <2>1, IdleKeeps
<1>5. CASE ClearFile
  <2>1. dirty' = TRUE  BY <1>5 DEF ClearFile, OnFileClear
  <2> QED BY <2>1, MarkKeeps
<1>6. CASE SaveChunk
  <2>1. dirty' = TRUE  BY <1>6 DEF SaveChunk, OnFileChunk
  <2> QED BY <2>1, MarkKeeps
<1>7. CASE SaveDone
  <2>1. /\ UNCHANGED <<config, dirty, consoleSet>>
        /\ flash' = IF dirty THEN [valid |-> TRUE, settings |-> config] ELSE flash
    BY <1>7 DEF SaveDone, OnExit
  <2>2. CASE dirty
    BY <2>1, <2>2 DEF CleanMeansSaved
  <2>3. CASE ~dirty
    BY <2>1, <2>3, IdleKeeps
  <2> QED BY <2>2, <2>3
<1>8. CASE ReadField \/ Connect \/ PressSave \/ Edit \/ Disconnect \/ Refused \/ Reload
  <2>1. UNCHANGED <<config, dirty, flash, consoleSet>>
    BY <1>8 DEF ReadField, Connect, PressSave, Edit, Disconnect, Refused, Reload, hub
  <2> QED BY <2>1, IdleKeeps
<1>9. CASE Restart
  BY <1>9, StartKeeps DEF Restart
<1>10. CASE Reset
  BY <1>10, StartKeeps DEF Reset
<1>11. CASE Command
  <2>1. \/ UNCHANGED <<config, dirty, flash, consoleSet>>
        \/ UNCHANGED config /\ flash' = [valid |-> TRUE, settings |-> config]
        \/ consoleSet' = TRUE
    BY <1>11 DEF Command
  <2> QED BY <2>1, IdleKeeps DEF CleanMeansSaved, InUse
<1>12. CASE UNCHANGED vars
  <2>1. UNCHANGED <<config, dirty, flash, consoleSet>>  BY <1>12 DEF vars, hub
  <2> QED BY <2>1, IdleKeeps
<1> QED
  BY <1>1, <1>2, <1>3, <1>4, <1>5, <1>6, <1>7, <1>8, <1>9, <1>10, <1>11, <1>12
  DEF Next, Save

(* Whatever is written, broken off, restarted and commanded, settings that *)
(* are not marked dirty are those that the next start will use.            *)
THEOREM CleanMeansSavedHolds == Spec => []CleanMeansSaved
<1>1. Init => CleanMeansSaved  BY DEF Init, CleanMeansSaved
<1>2. CleanMeansSaved /\ [Next]_vars => CleanMeansSaved'  BY CleanMeansSavedStep
<1> QED BY <1>1, <1>2, PTL DEF Spec

-----------------------------------------------------------------------------
(* Types, and files that fit.                                              *)

LEMMA MaxPortTyped == MaxPort \in Nat
BY DEF MaxPort

\* The defaults are settings, with empty files.
LEMMA DefaultsTyped == Defaults \in Settings /\ FilesFit(Defaults)
<1>1. << >> \in Seq(Files \X Nat)
  OBVIOUS
<1>2. NoText \in [chunks : Seq(Files \X Nat), size : Int]
  BY <1>1 DEF NoText
<1>3. [f \in TextFields |-> DefaultText] \in [TextFields -> Words]
  <2>1. DefaultText \in Words  BY ConfigAssumption DEF Words
  <2> QED BY <2>1
<1>4. DefaultPort \in PortNumbers
  BY ConfigAssumption DEF PortNumbers
<1>5. Defaults \in Settings
  BY <1>2, <1>3, <1>4 DEF Defaults, Settings
<1>6. FilesFit(Defaults)
  BY DEF FilesFit, Defaults, NoText
<1> QED BY <1>5, <1>6

\* So is what a start makes of the flash.
LEMMA InUseTyped ==
  ASSUME NEW stored \in [valid : BOOLEAN, settings : Settings], FilesFit(stored.settings)
  PROVE  InUse(stored) \in Settings /\ FilesFit(InUse(stored))
BY DefaultsTyped DEF InUse

\* What startBLE() shows of settings.
LEMMA ServedTyped ==
  ASSUME NEW settings \in Settings
  PROVE  Served(settings) \in Shown
BY DEF Served, Settings, Shown

\* A 16-bit number with its bytes swapped is one; so is a flag, in its way.
LEMMA SwapTyped ==
  /\ \A n \in PortNumbers : SwapBytes(n) \in PortNumbers
  /\ \A n \in {0, 1, 256} : SwapBytes(n) \in {0, 1, 256}
<1>1. ASSUME NEW n \in Nat, n < 65536
      PROVE  SwapBytes(n) \in Nat /\ SwapBytes(n) < 65536
  <2>1. n \div 256 \in Nat /\ n \div 256 < 256
    BY <1>1
  <2>2. n % 256 \in Nat /\ n % 256 < 256
    OBVIOUS
  <2>3. ASSUME NEW high \in Nat, NEW low \in Nat, high < 256, low < 256
        PROVE  low * 256 + high \in Nat /\ low * 256 + high < 65536
    BY <2>3
  <2> QED BY <2>1, <2>2, <2>3 DEF SwapBytes
<1>2. SwapBytes(0) = 0 /\ SwapBytes(1) = 256 /\ SwapBytes(256) = 1
  BY DEF SwapBytes
<1>3. ASSUME NEW n \in PortNumbers
      PROVE  SwapBytes(n) \in PortNumbers
  <2>1. n \in Nat /\ n <= MaxPort
    BY <1>3, MaxPortTyped DEF PortNumbers
  <2>2. n < 65536
    BY <2>1 DEF MaxPort
  <2>3. SwapBytes(n) \in Nat /\ SwapBytes(n) <= MaxPort
    BY <1>1, <2>1, <2>2 DEF MaxPort
  <2> QED BY <2>3, MaxPortTyped DEF PortNumbers
<1> QED BY <1>2, <1>3

\* A new text.
LEMMA TextTyped ==
  ASSUME NEW f \in TextFields, NEW t \in Words
  PROVE  /\ config \in Settings /\ FilesFit(config) =>
              /\ [config EXCEPT !.text[f] = t] \in Settings
              /\ FilesFit([config EXCEPT !.text[f] = t])
         /\ chars \in Shown => [chars EXCEPT !.text[f] = t] \in Shown
BY DEF Settings, Shown, FilesFit

\* A new number.
LEMMA NumberTyped ==
  ASSUME config \in Settings, FilesFit(config), chars \in Shown
  PROVE  /\ \A n \in {0, 1} : /\ [config EXCEPT !.console = n] \in Settings
                              /\ FilesFit([config EXCEPT !.console = n])
         /\ \A n \in PortNumbers : /\ [config EXCEPT !.port = n] \in Settings
                                   /\ FilesFit([config EXCEPT !.port = n])
         /\ \A n \in {0, 1, 256} : [chars EXCEPT !.console = n] \in Shown
         /\ \A n \in PortNumbers : [chars EXCEPT !.port = n] \in Shown
BY DEF Settings, Shown, FilesFit

\* A file that is cleared, or grows by a chunk that fits.
LEMMA FileTyped ==
  ASSUME NEW f \in FileNames, config \in Settings, FilesFit(config)
  PROVE  /\ /\ [config EXCEPT !.file[f] = NoText] \in Settings
            /\ FilesFit([config EXCEPT !.file[f] = NoText])
         /\ \A chunk \in Files \X Nat, length \in Int :
              Fits(f, length) =>
                LET new == [config EXCEPT !.file[f].chunks = Append(@, chunk),
                                          !.file[f].size = @ + length]
                IN new \in Settings /\ FilesFit(new)
<1> DEFINE Stored == [chunks : Seq(Files \X Nat), size : Int]
<1>1. NoText \in Stored /\ NoText.size = 0
  <2>1. << >> \in Seq(Files \X Nat)
    OBVIOUS
  <2> QED BY <2>1 DEF NoText
<1>2. config.file \in [FileNames -> Stored]
  BY DEF Settings
<1>3. ASSUME NEW new \in Stored, new.size = 0 \/ new.size < Capacity,
             NEW c, c = [config EXCEPT !.file = [@ EXCEPT ![f] = new]]
      PROVE  c \in Settings /\ FilesFit(c)
  <2>1. c.file = [config.file EXCEPT ![f] = new] /\ c.file \in [FileNames -> Stored]
    BY <1>2, <1>3 DEF Settings
  <2>2. c \in Settings
    BY <1>3, <2>1 DEF Settings
  <2>3. ASSUME NEW g \in FileNames
        PROVE  c.file[g].size = 0 \/ c.file[g].size < Capacity
    BY <1>2, <1>3, <2>1 DEF FilesFit
  <2> QED BY <2>2, <2>3 DEF FilesFit
<1>4. /\ [config EXCEPT !.file[f] = NoText] \in Settings
      /\ FilesFit([config EXCEPT !.file[f] = NoText])
  <2>1. [config EXCEPT !.file[f] = NoText]
          = [config EXCEPT !.file = [@ EXCEPT ![f] = NoText]]
    BY <1>2 DEF Settings
  <2> QED BY <1>1, <1>3, <2>1
<1>5. ASSUME NEW chunk \in Files \X Nat, NEW length \in Int, Fits(f, length),
             NEW c, c = [config EXCEPT !.file[f].chunks = Append(@, chunk),
                                       !.file[f].size = @ + length]
      PROVE  c \in Settings /\ FilesFit(c)
  <2> DEFINE old == config.file[f]
             new == [old EXCEPT !.chunks = Append(@, chunk), !.size = @ + length]
  <2>1. old \in Stored
    BY <1>2
  <2>2. Append(old.chunks, chunk) \in Seq(Files \X Nat) /\ old.size + length \in Int
    BY <2>1
  <2>3. new \in Stored /\ new.size = old.size + length
    BY <2>1, <2>2
  <2>4. new.size < Capacity
    BY <1>5, <2>3 DEF Fits
  <2>5. c = [config EXCEPT !.file = [@ EXCEPT ![f] = new]]
    BY <1>2, <1>5 DEF Settings
  <2> HIDE DEF new
  <2> QED BY <1>3, <2>3, <2>4, <2>5
<1> QED BY <1>4, <1>5

\* Lengths are numbers, and so is what is left of a chain after a step.
LEMMA LengthTyped ==
  ASSUME NEW file \in Files, NEW k \in Nat
  PROVE  ChunkLength(file, k) \in Int
<1>1. FileSize[file] \in Nat /\ ChunkSize \in Nat
  BY ConfigAssumption
<1>2. (k - 1) * ChunkSize \in Int
  BY <1>1
<1> QED BY <1>1, <1>2 DEF ChunkLength

\* What a broken link leaves.
LEMMA BreakTyped ==
  ASSUME TypeOK, Break
  PROVE  /\ connected' = FALSE /\ job' = "idle" /\ at' = 0 /\ part' = 0
         /\ breaks' \in 0 .. MaxBreaks
BY ConfigAssumption DEF TypeOK, Break

\* What a refused operation leaves.
LEMMA RefuseTyped ==
  ASSUME TypeOK, Refuse
  PROVE  /\ connected' = connected /\ job' = "idle" /\ at' = 0 /\ part' = 0
         /\ breaks' \in 0 .. MaxBreaks
BY ConfigAssumption DEF TypeOK, Refuse

\* The history of refusals, apart from the numbers.
LEMMA RefusedTyped ==
  ASSUME refused \in BOOLEAN, UNCHANGED refused \/ Refuse
  PROVE  refused' \in BOOLEAN
BY Zenon DEF Refuse

\* The chain's part of TypeOK.
ChainOK ==
  /\ connected \in BOOLEAN /\ (connected => ble) /\ (job # "idle" => connected)
  /\ job \in {"idle", "reading", "saving"}
  /\ at \in Nat /\ part \in Nat /\ (part > 0 => sending \in Files)
  /\ breaks \in 0 .. MaxBreaks

\* A refused operation keeps it.
LEMMA RefuseKeeps ==
  ASSUME TypeOK, UNCHANGED ble, Refuse
  PROVE  ChainOK'
<1>1. connected' => ble'  BY RefuseTyped DEF TypeOK
<1>2. connected' \in BOOLEAN  BY RefuseTyped DEF TypeOK
<1> QED BY <1>1, <1>2, RefuseTyped DEF ChainOK

\* So does a write, however it is answered.
LEMMA AnsweredTyped ==
  ASSUME TypeOK, UNCHANGED ble,
         NEW a \in Nat, NEW p \in Nat, p > 0 => sending' \in Files,
         Answered(a, p)
  PROVE  ChainOK' /\ refused' \in BOOLEAN
<1>1. ChainOK'
  <2>1. CASE at' = a /\ part' = p /\ UNCHANGED <<connected, job, breaks>>
    BY <2>1 DEF TypeOK, ChainOK
  <2>2. CASE Break
    BY <2>2, BreakTyped DEF ChainOK
  <2>3. CASE Refuse
    BY <2>3, RefuseKeeps
  <2> QED BY <2>1, <2>2, <2>3 DEF Answered
<1>2. refused' \in BOOLEAN
  <2>1. refused \in BOOLEAN  BY DEF TypeOK
  <2>2. UNCHANGED refused \/ Refuse  BY DEF Answered
  <2> QED BY <2>1, <2>2, RefusedTyped
<1> QED BY <1>1, <1>2

\* What the callbacks and the chain leave alone.
LEMMA WriteTyped ==
  ASSUME TypeOK, UNCHANGED unwritten, ChainOK',
         config' \in Settings, FilesFit(config'), chars' \in Shown, dirty' \in BOOLEAN,
         portWritten' \in BOOLEAN, refused' \in BOOLEAN, cut' \in BOOLEAN, sending' \in Files \union {NoFile}
  PROVE  TypeOK'
BY DEF TypeOK, unwritten, ChainOK

\* A start.
LEMMA StartTyped ==
  ASSUME TypeOK, NEW inBle \in BOOLEAN, Start(inBle),
         breaks' \in 0 .. MaxBreaks, UNCHANGED commands
  PROVE  TypeOK'
<1>1. /\ config' = InUse(flash) /\ dirty' = FALSE /\ ble' = inBle
      /\ chars' = Served(config') /\ restart' = "none" /\ consoleSet' = FALSE
      /\ portWritten' = FALSE
      /\ connected' = FALSE /\ job' = "idle" /\ at' = 0 /\ part' = 0
      /\ UNCHANGED <<flash, sending, page, obj, loaded, again, refused, cut, edits>>
  BY DEF Start
<1>2. config' \in Settings /\ FilesFit(config')
  BY <1>1, InUseTyped DEF TypeOK
<1>3. chars' \in Shown
  BY <1>1, <1>2, ServedTyped
<1>4. connected' \in BOOLEAN /\ (connected' => ble') /\ (job' # "idle" => connected')
  BY <1>1
<1>5. part' > 0 => sending' \in Files
  BY <1>1
<1>6. ChainOK'
  BY <1>1, <1>4, <1>5 DEF ChainOK
<1> QED BY <1>1, <1>2, <1>3, <1>6 DEF TypeOK, ChainOK

\* An empty page.
LEMMA BlankTyped == Blank \in Fields
<1>1. [f \in TextFields |-> EmptyText] \in [TextFields -> Words]
  BY DEF Words
<1>2. [f \in FileNames |-> NoFile] \in [FileNames -> Files \union {NoFile}]
  OBVIOUS
<1> QED BY <1>1, <1>2, MaxPortTyped DEF Blank, Fields, PortNumbers

LEMMA TypeInit == Init => TypeOK
<1> SUFFICES ASSUME Init PROVE TypeOK
  OBVIOUS
<1>1. ASSUME NEW t \in Texts
      PROVE  LET s == [Defaults EXCEPT !.text = [f \in TextFields |-> t]]
             IN s \in Settings /\ FilesFit(s)
  <2>1. t \in Words  BY DEF Words
  <2>2. [f \in TextFields |-> t] \in [TextFields -> Words]  BY <2>1
  <2> QED BY <2>2, DefaultsTyped DEF Settings, FilesFit
<1>2. flash \in [valid : BOOLEAN, settings : Settings] /\ FilesFit(flash.settings)
  BY <1>1 DEF Init
<1>3. config \in Settings /\ FilesFit(config)
  BY <1>2, InUseTyped DEF Init
<1>4. chars \in Shown
  BY <1>3, ServedTyped DEF Init
<1>5. ChainOK
  <2>1. connected \in BOOLEAN /\ (connected => ble) /\ (job # "idle" => connected)
    BY DEF Init
  <2>2. part > 0 => sending \in Files
    BY DEF Init
  <2> QED BY <2>1, <2>2, ConfigAssumption DEF Init, ChainOK
<1>6. edits \in 0 .. MaxEdits /\ commands \in 0 .. MaxCommands
  BY ConfigAssumption DEF Init
<1> QED BY <1>2, <1>3, <1>4, <1>5, <1>6, BlankTyped DEF Init, TypeOK, ChainOK

LEMMA TypeStep ==
  ASSUME TypeOK, [Next]_vars
  PROVE  TypeOK'
<1> USE DEF Saving
<1>1. CASE SaveText
  <2>1. /\ Step \in TextFields /\ OnText(Step) /\ Answered(at + 1, 0)
        /\ UNCHANGED <<unwritten, sending, cut>>
    BY <1>1 DEF SaveText
  <2>2. obj.text[Step] \in Words
    BY <2>1 DEF TypeOK, Fields
  <2>3. /\ config' = [config EXCEPT !.text[Step] = obj.text[Step]]
        /\ chars' = [chars EXCEPT !.text[Step] = obj.text[Step]]
        /\ dirty' \in BOOLEAN /\ UNCHANGED portWritten
    BY <2>1 DEF OnText, Store, TypeOK
  <2>4. config' \in Settings /\ FilesFit(config') /\ chars' \in Shown
    BY <2>1, <2>2, <2>3, TextTyped DEF TypeOK
  <2>5. ChainOK' /\ refused' \in BOOLEAN
    BY <2>1, AnsweredTyped DEF TypeOK, unwritten
  <2> QED BY <2>1, <2>3, <2>4, <2>5, WriteTyped DEF TypeOK
<1>2. CASE SaveConsoleEnabled
  <2>1. /\ OnConsoleEnabled /\ Answered(at + 1, 0)
        /\ UNCHANGED <<unwritten, sending, cut>>
    BY <1>2 DEF SaveConsoleEnabled
  <2>2. obj.console \in {0, 1, 256}
    BY DEF TypeOK, Fields
  <2>3. /\ config' = [config EXCEPT !.console = IF obj.console # 0 THEN 1 ELSE 0]
        /\ chars' = [chars EXCEPT !.console = SwapBytes(obj.console)]
        /\ dirty' \in BOOLEAN /\ UNCHANGED portWritten
    BY <2>1 DEF OnConsoleEnabled, Store, TypeOK
  <2>4. config' \in Settings /\ FilesFit(config') /\ chars' \in Shown
    BY <2>2, <2>3, NumberTyped, SwapTyped DEF TypeOK
  <2>5. ChainOK' /\ refused' \in BOOLEAN
    BY <2>1, AnsweredTyped DEF TypeOK, unwritten
  <2> QED BY <2>1, <2>3, <2>4, <2>5, WriteTyped DEF TypeOK
<1>3. CASE SavePort
  <2>1. OnPort /\ Answered(at + 1, 0) /\ UNCHANGED <<unwritten, sending, cut>>
    BY <1>3 DEF SavePort
  <2>2. obj.port \in PortNumbers
    BY DEF TypeOK, Fields
  <2>3. /\ config' = [config EXCEPT !.port = obj.port]
        /\ chars' = [chars EXCEPT !.port = SwapBytes(obj.port)]
        /\ dirty' \in BOOLEAN /\ portWritten' = TRUE
    BY <2>1 DEF OnPort, Store, TypeOK
  <2>4. config' \in Settings /\ FilesFit(config') /\ chars' \in Shown
    BY <2>2, <2>3, NumberTyped, SwapTyped DEF TypeOK
  <2>5. ChainOK' /\ refused' \in BOOLEAN
    BY <2>1, AnsweredTyped DEF TypeOK, unwritten
  <2> QED BY <2>1, <2>3, <2>4, <2>5, WriteTyped DEF TypeOK
<1>4. CASE SkipFile
  <2>1. /\ at' = at + 1 /\ part = 0
        /\ UNCHANGED <<unwritten, config, dirty, chars, portWritten, connected, job, part, sending,
                       refused, cut, breaks>>
    BY <1>4 DEF SkipFile
  <2>2. ChainOK'
    BY <2>1 DEF TypeOK, ChainOK, unwritten
  <2> QED BY <2>1, <2>2, WriteTyped DEF TypeOK
<1>5. CASE ClearFile
  <2>1. /\ Step \in FileNames /\ obj.file[Step] # NoFile /\ sending' = obj.file[Step]
        /\ OnFileClear(Step) /\ Answered(at, 1) /\ UNCHANGED <<unwritten, cut>>
    BY <1>5 DEF ClearFile
  <2>2. sending' \in Files
    BY <2>1 DEF TypeOK, Fields
  <2>3. /\ config' = [config EXCEPT !.file[Step] = NoText] /\ dirty' = TRUE
        /\ UNCHANGED <<chars, portWritten>>
    BY <2>1 DEF OnFileClear
  <2>4. config' \in Settings /\ FilesFit(config') /\ chars' \in Shown
    BY <2>1, <2>3, FileTyped DEF TypeOK
  <2>5. ChainOK' /\ refused' \in BOOLEAN
    BY <2>1, <2>2, AnsweredTyped DEF TypeOK, unwritten
  <2> QED BY <2>1, <2>2, <2>3, <2>4, <2>5, WriteTyped DEF TypeOK
<1>6. CASE SaveChunk
  <2> DEFINE length == ChunkLength(sending, part)
  <2>1. /\ Step \in FileNames /\ part > 0 /\ OnFileChunk(Step, <<sending, part>>, length)
        /\ UNCHANGED <<unwritten, sending>>
    BY <1>6 DEF SaveChunk
  <2>2. sending \in Files /\ part \in Nat /\ at \in Nat /\ length \in Int
    BY <2>1, LengthTyped DEF TypeOK
  <2>3. Answered(at, part + 1) \/ Answered(at + 1, 0)
    BY <1>6 DEF SaveChunk
  <2>4. ChainOK' /\ refused' \in BOOLEAN
    BY <2>1, <2>2, <2>3, AnsweredTyped DEF unwritten
  <2>5. cut' \in BOOLEAN
    BY <1>6 DEF SaveChunk
  <2> HIDE DEF length
  <2>6. config' \in Settings /\ FilesFit(config')
    <3>1. CASE Fits(Step, length)
      <4>1. config' = [config EXCEPT !.file[Step].chunks = Append(@, <<sending, part>>),
                                     !.file[Step].size = @ + length]
        BY <2>1, <3>1 DEF OnFileChunk
      <4>2. <<sending, part>> \in Files \X Nat
        BY <2>2
      <4> QED BY <2>1, <2>2, <3>1, <4>1, <4>2, FileTyped DEF TypeOK
    <3>2. CASE ~Fits(Step, length)
      BY <2>1, <3>2 DEF OnFileChunk, TypeOK
    <3> QED BY <3>1, <3>2
  <2>7. chars' \in Shown /\ dirty' \in BOOLEAN /\ portWritten' \in BOOLEAN
    BY <2>1 DEF OnFileChunk, TypeOK
  <2> QED BY <2>1, <2>2, <2>4, <2>5, <2>6, <2>7, WriteTyped
<1>7. CASE SaveDone
  <2>1. /\ flash' = IF dirty THEN [valid |-> TRUE, settings |-> config] ELSE flash
        /\ restart' = "normal"
        /\ UNCHANGED <<ble, config, dirty, chars, portWritten>>
        /\ UNCHANGED <<page, obj, loaded, again, sending, cut, consoleSet, edits, commands>>
    BY <1>7 DEF SaveDone, OnExit
  <2>2. flash' \in [valid : BOOLEAN, settings : Settings] /\ FilesFit(flash'.settings)
    BY <2>1 DEF TypeOK
  <2>3. ChainOK'
    <3>1. CASE job' = "idle" /\ at' = 0 /\ UNCHANGED <<connected, part, breaks>>
      BY <2>1, <3>1 DEF TypeOK, ChainOK
    <3>2. CASE Break
      BY <3>2, BreakTyped DEF ChainOK
    <3>3. CASE Refuse
      BY <2>1, <3>3, RefuseKeeps
    <3> QED BY <1>7, <3>1, <3>2, <3>3 DEF SaveDone
  <2>4. refused' \in BOOLEAN
    <3>1. refused \in BOOLEAN  BY DEF TypeOK
    <3>2. UNCHANGED refused \/ Refuse  BY <1>7 DEF SaveDone
    <3> QED BY <3>1, <3>2, RefusedTyped
  <2> QED BY <2>1, <2>2, <2>3, <2>4 DEF TypeOK, ChainOK
<1>8. CASE ReadField
  <2> DEFINE f == ReadSteps[at]
  <2>1. /\ obj' = IF f = "consoleEnabled" THEN [obj EXCEPT !.console = chars.console]
                  ELSE IF f = "mqttPort" THEN [obj EXCEPT !.port = chars.port]
                  ELSE [obj EXCEPT !.text[f] = chars.text[f]]
        /\ \/ at' = at + 1 /\ UNCHANGED <<job, page, loaded>>
           \/ /\ at' = 0 /\ job' = "idle" /\ loaded' = TRUE
              /\ page' = [obj' EXCEPT !.file = page.file]
        /\ UNCHANGED <<hub, connected, part, sending, again, refused, cut, consoleSet, counts>>
    BY <1>8 DEF ReadField
  <2> HIDE DEF f
  <2>2. [obj EXCEPT !.text[f] = chars.text[f]] \in Fields
    <3>1. CASE f \in TextFields
      BY <3>1 DEF TypeOK, Fields, Shown
    <3>2. CASE f \notin TextFields
      BY <3>2 DEF TypeOK, Fields
    <3> QED BY <3>1, <3>2
  <2>3. obj' \in Fields
    <3>1. CASE f = "consoleEnabled"
      <4>1. obj' = [obj EXCEPT !.console = chars.console]  BY <2>1, <3>1
      <4> QED BY <4>1 DEF TypeOK, Fields, Shown
    <3>2. CASE f = "mqttPort"
      <4>1. obj' = [obj EXCEPT !.port = chars.port]  BY <2>1, <3>2
      <4> QED BY <4>1 DEF TypeOK, Fields, Shown
    <3>3. CASE f \notin {"consoleEnabled", "mqttPort"}
      BY <2>1, <2>2, <3>3
    <3> QED BY <3>1, <3>2, <3>3
  <2>4. page' \in Fields
    BY <2>1, <2>3 DEF TypeOK, Fields
  <2>5. job' # "idle" => connected'
    BY <2>1 DEF TypeOK
  <2>6. loaded' \in BOOLEAN
    BY <2>1 DEF TypeOK
  <2>7. at' \in Nat /\ part' \in Nat /\ job' \in {"idle", "reading", "saving"}
    BY <2>1 DEF TypeOK
  <2>8. part' > 0 => sending' \in Files
    BY <2>1 DEF TypeOK
  <2> QED BY <2>1, <2>3, <2>4, <2>5, <2>6, <2>7, <2>8 DEF TypeOK, hub, counts
<1>9. CASE Connect
  BY <1>9 DEF Connect, TypeOK, hub, counts
<1>10. CASE PressSave
  <2>1. /\ obj' = page
        /\ \/ connected /\ job' = "saving" /\ at' = 1 /\ again' = FALSE /\ refused' = FALSE
           \/ again' = (again \/ job # "idle") /\ UNCHANGED <<job, at, refused>>
        /\ UNCHANGED <<hub, connected, part, sending, page, loaded, cut, consoleSet, counts>>
    BY <1>10 DEF PressSave
  <2>2. again' \in BOOLEAN
    BY <2>1 DEF TypeOK
  <2>3. connected' \in BOOLEAN /\ (connected' => ble') /\ (job' # "idle" => connected')
    BY <2>1 DEF TypeOK, hub
  <2>4. part' > 0 => sending' \in Files
    BY <2>1 DEF TypeOK
  <2>5. at' \in Nat /\ part' \in Nat /\ job' \in {"idle", "reading", "saving"}
    BY <2>1 DEF TypeOK
  <2>6. ChainOK'
    BY <2>1, <2>3, <2>4, <2>5 DEF TypeOK, ChainOK, counts
  <2>7. UNCHANGED hub /\ UNCHANGED <<sending, page, loaded, cut, consoleSet, edits, commands>>
    BY <2>1 DEF counts
  <2>8. obj' \in Fields /\ refused' \in BOOLEAN
    BY <2>1 DEF TypeOK
  <2> QED BY <2>2, <2>6, <2>7, <2>8 DEF TypeOK, ChainOK, hub
<1>11. CASE Edit
  <2>1. /\ edits < MaxEdits /\ edits' = edits + 1
        /\ UNCHANGED <<hub, connected, chain, obj, loaded, again, refused, cut, consoleSet, breaks,
                       commands>>
    BY <1>11 DEF Edit
  <2>2. page' \in Fields
    <3>1. ASSUME NEW f \in TextFields, NEW t \in Texts, page' = [page EXCEPT !.text[f] = t]
          PROVE  page' \in Fields
      BY <3>1 DEF TypeOK, Fields, Words
    <3>2. ASSUME NEW v \in {0, 1}, page' = [page EXCEPT !.console = v]
          PROVE  page' \in Fields
      BY <3>2 DEF TypeOK, Fields
    <3>3. ASSUME NEW p \in Ports, page' = [page EXCEPT !.port = p]
          PROVE  page' \in Fields
      BY <3>3, ConfigAssumption DEF TypeOK, Fields, PortNumbers
    <3>4. ASSUME NEW f \in FileNames, NEW c \in Files, page' = [page EXCEPT !.file[f] = c]
          PROVE  page' \in Fields
      BY <3>4 DEF TypeOK, Fields
    <3> QED BY <1>11, <3>1, <3>2, <3>3, <3>4 DEF Edit
  <2> QED BY <2>1, <2>2, ConfigAssumption DEF TypeOK, hub, chain
<1>12. CASE Disconnect
  <2>1. Break /\ cut' \in BOOLEAN
        /\ UNCHANGED <<hub, sending, page, obj, loaded, again, refused, consoleSet, edits, commands>>
    BY <1>12 DEF Disconnect
  <2>2. ChainOK'
    BY <2>1, BreakTyped DEF ChainOK
  <2> QED BY <2>1, <2>2 DEF TypeOK, ChainOK, hub
<1>13. CASE Reload
  <2>1. Break /\ cut' \in BOOLEAN /\ page' = Blank /\ obj' = Blank /\ loaded' = FALSE
        /\ UNCHANGED <<hub, sending, again, refused, consoleSet, edits, commands>>
    BY <1>13 DEF Reload
  <2>2. ChainOK'
    BY <2>1, BreakTyped DEF ChainOK
  <2> QED BY <2>1, <2>2, BlankTyped DEF TypeOK, ChainOK, hub
<1>14. CASE Restart
  BY <1>14, StartTyped DEF Restart, TypeOK
<1>15. CASE Reset
  <2>1. breaks' \in 0 .. MaxBreaks
    BY <1>15, ConfigAssumption DEF Reset, TypeOK
  <2> QED BY <1>15, <2>1, StartTyped DEF Reset
<1>16. CASE Command
  <2>1. /\ commands' \in 0 .. MaxCommands /\ UNCHANGED <<dirty, client, edits, breaks>>
    BY <1>16, ConfigAssumption DEF Command, TypeOK
  <2>2. CASE /\ \E mode \in {"normal", "ble"} : restart' = mode
             /\ UNCHANGED <<ble, config, flash, chars, portWritten, cut, consoleSet>>
    BY <2>1, <2>2 DEF TypeOK, client, chain
  <2>3. CASE /\ flash' = [valid |-> TRUE, settings |-> config]
             /\ cut' = (cut \/ part > 0)
             /\ UNCHANGED <<ble, config, chars, portWritten, restart, consoleSet>>
    BY <2>1, <2>3 DEF TypeOK, client, chain
  <2>4. CASE /\ \E v \in IF ble THEN {0} ELSE {0, 1} : config' = [config EXCEPT !.console = v]
             /\ consoleSet' = TRUE
             /\ UNCHANGED <<ble, flash, chars, portWritten, restart, cut>>
    <3>1. config' \in Settings /\ FilesFit(config')
      BY <2>4, NumberTyped DEF TypeOK
    <3> QED BY <2>1, <2>4, <3>1 DEF TypeOK, client, chain
  <2>5. CASE /\ ~ble /\ ble' = TRUE
             /\ chars' = Served(config) /\ portWritten' = FALSE
             /\ UNCHANGED <<config, flash, restart, cut, consoleSet>>
    <3>1. chars' \in Shown
      BY <2>5, ServedTyped DEF TypeOK
    <3> QED BY <2>1, <2>5, <3>1 DEF TypeOK, client, chain
  <2> QED BY <1>16, <2>2, <2>3, <2>4, <2>5 DEF Command
<1>17. CASE UNCHANGED vars
  BY <1>17 DEF vars, hub, client, chain, counts, TypeOK
<1>18. CASE Refused
  <2>1. Refuse /\ cut' \in BOOLEAN
        /\ UNCHANGED <<hub, sending, page, obj, loaded, again, consoleSet, edits, commands>>
    BY <1>18 DEF Refused
  <2>2. ChainOK'
    BY <2>1, RefuseKeeps DEF hub
  <2>3. refused' \in BOOLEAN
    BY <2>1, RefusedTyped DEF TypeOK
  <2> QED BY <2>1, <2>2, <2>3 DEF TypeOK, ChainOK, hub
<1> QED
  BY <1>1, <1>2, <1>3, <1>4, <1>5, <1>6, <1>7, <1>8, <1>9, <1>10, <1>11, <1>12, <1>13,
     <1>14, <1>15, <1>16, <1>17, <1>18
  DEF Next, Save

(* Whatever the page writes, in whichever order and however often it is    *)
(* broken off, settings keep their types and no certificate or key is      *)
(* appended past the end of its array; a chain is at work only while the   *)
(* page is connected.                                                      *)
THEOREM TypeCorrect == Spec => []TypeOK
<1>1. Init => TypeOK  BY TypeInit
<1>2. TypeOK /\ [Next]_vars => TypeOK'  BY TypeStep
<1> QED BY <1>1, <1>2, PTL DEF Spec

-----------------------------------------------------------------------------
(* Files, chunk by chunk.                                                  *)

\* The first n chunks.
Sent(file, n) == [k \in 1 .. n |-> <<file, k>>]

\* A file has at least one chunk, and is longer than all chunks but its last.
LEMMA ChunkCounted ==
  ASSUME NEW file \in Files
  PROVE  /\ ChunkCount(file) \in Nat \ {0}
         /\ (ChunkCount(file) - 1) * ChunkSize < FileSize[file]
<1> DEFINE size == FileSize[file]
           n == (size + ChunkSize - 1) \div ChunkSize
<1>1. size \in Nat \ {0} /\ ChunkSize \in Nat \ {0}
  BY ConfigAssumption
<1> HIDE DEF size
<1>2. size + ChunkSize - 1 \in Nat
  BY <1>1
<1>3. n \in Nat /\ n * ChunkSize <= size + ChunkSize - 1 /\ size + ChunkSize - 1 < n * ChunkSize + ChunkSize
  BY <1>1, <1>2
<1> HIDE DEF n
<1>4. (n - 1) * ChunkSize = n * ChunkSize - ChunkSize
  BY <1>1, <1>3
<1>5. n * ChunkSize \in Nat /\ (n = 0 => n * ChunkSize = 0)
  BY <1>1, <1>3
<1>6. n \in Nat \ {0} /\ (n - 1) * ChunkSize < size
  BY <1>1, <1>3, <1>4, <1>5
<1>7. ChunkCount(file) = n
  BY Zenon DEF ChunkCount, n, size
<1> QED BY <1>6, <1>7 DEF size

\* One more chunk.
LEMMA SentGrows ==
  ASSUME NEW file, NEW n \in Nat \ {0}
  PROVE  Append(Sent(file, n - 1), <<file, n>>) = Sent(file, n)
<1> DEFINE before == Sent(file, n - 1)
<1>1. before \in Seq({<<file, k>> : k \in 1 .. n}) /\ Len(before) = n - 1
  BY DEF Sent
<1>2. /\ Append(before, <<file, n>>) = [k \in 1 .. n |-> Append(before, <<file, n>>)[k]]
      /\ \A k \in 1 .. n - 1 : Append(before, <<file, n>>)[k] = before[k]
      /\ Append(before, <<file, n>>)[n] = <<file, n>>
  BY <1>1
<1>3. \A k \in 1 .. n - 1 : before[k] = <<file, k>>
  BY DEF Sent
<1>4. \A k \in 1 .. n : Append(before, <<file, n>>)[k] = <<file, k>>
  BY <1>2, <1>3
<1> QED BY <1>2, <1>4 DEF Sent

LEMMA WholeSent == \A file \in Files : Whole(file) = Sent(file, ChunkCount(file))
BY DEF Whole, Sent

\* A file is sent in the chain's step for it.
InFile ==
  part > 0 => job = "saving" /\ Step \in FileNames /\ part <= ChunkCount(sending)

LEMMA BreakIdle ==
  ASSUME Break \/ Refuse
  PROVE  job' = "idle" /\ part' = 0
BY DEF Break, Refuse

LEMMA InFileStep ==
  ASSUME TypeOK, InFile, [Next]_vars
  PROVE  InFile'
<1> USE DEF Saving
<1>1. ASSUME part' = 0 PROVE InFile'  BY <1>1 DEF InFile
<1>2. ASSUME UNCHANGED <<job, at, part, sending>> PROVE InFile'  BY <1>2 DEF InFile, Step
<1>3. CASE SaveText \/ SaveConsoleEnabled \/ SavePort
  BY <1>1, <1>3, BreakIdle DEF SaveText, SaveConsoleEnabled, SavePort, Answered
<1>4. CASE SkipFile  BY <1>1, <1>4 DEF SkipFile
<1>5. CASE ClearFile
  <2>1. /\ Step \in FileNames /\ job = "saving" /\ sending' = obj.file[Step]
        /\ obj.file[Step] # NoFile /\ Answered(at, 1)
    BY <1>5 DEF ClearFile
  <2>2. sending' \in Files  BY <2>1 DEF TypeOK, Fields
  <2>3. ChunkCount(sending') \in Nat \ {0}  BY <2>2, ChunkCounted
  <2>4. CASE at' = at /\ part' = 1 /\ job' = job
    <3>1. ChunkCount(sending)' = ChunkCount(sending')  BY DEF ChunkCount
    <3> QED BY <2>1, <2>3, <2>4, <3>1 DEF InFile, Step
  <2> QED BY <1>1, <2>1, <2>4, BreakIdle DEF Answered
<1>6. CASE SaveChunk
  <2>1. /\ Step \in FileNames /\ job = "saving" /\ part > 0 /\ UNCHANGED sending
        /\ IF part < ChunkCount(sending) THEN Answered(at, part + 1) ELSE Answered(at + 1, 0)
    BY <1>6 DEF SaveChunk
  <2>2. CASE part < ChunkCount(sending) /\ at' = at /\ part' = part + 1 /\ job' = job
    <3>1. ChunkCount(sending) \in Nat  BY <2>1, ChunkCounted DEF TypeOK
    <3>2. ChunkCount(sending)' = ChunkCount(sending)  BY <2>1 DEF ChunkCount
    <3>3. part + 1 <= ChunkCount(sending)  BY <2>2, <3>1 DEF TypeOK
    <3> QED BY <2>1, <2>2, <3>2, <3>3 DEF InFile, Step
  <2> QED BY <1>1, <2>1, <2>2, BreakIdle DEF Answered
<1>7. CASE SaveDone
  <2>1. "bleExit" \notin FileNames  BY ConfigAssumption
  <2>2. part = 0  BY <1>7, <2>1 DEF SaveDone, InFile, TypeOK
  <2> QED BY <1>1, <1>7, <2>2, BreakIdle DEF SaveDone
<1>8. CASE ReadField \/ Connect \/ (PressSave /\ connected /\ job = "idle")
  <2>1. part = 0  BY <1>8 DEF ReadField, Connect, InFile, TypeOK
  <2> QED BY <1>1, <1>8, <2>1 DEF ReadField, Connect, PressSave
<1>9. CASE Edit \/ Command \/ (PressSave /\ ~(connected /\ job = "idle")) \/ UNCHANGED vars
  BY <1>2, <1>9 DEF Edit, Command, PressSave, vars, client, chain
<1>10. CASE Disconnect \/ Refused \/ Reload
  BY <1>1, <1>10, BreakIdle DEF Disconnect, Refused, Reload
<1>11. CASE Restart \/ Reset  BY <1>1, <1>11 DEF Restart, Reset, Start
<1> QED BY <1>3, <1>4, <1>5, <1>6, <1>7, <1>8, <1>9, <1>10, <1>11 DEF Next, Save

-----------------------------------------------------------------------------
(* Whole files in flash.                                                   *)

Complete == {<< >>} \union {Whole(c) : c \in Files}

\* In use, only the file that is being sent may be incomplete, and of that
\* one what was sent is there.
InUseWhole ==
  \A f \in FileNames :
    \/ config.file[f].chunks \in Complete
    \/ part > 0 /\ f = Step

FilesInv ==
  /\ InFile
  /\ ~cut =>
       /\ \A f \in FileNames : flash.settings.file[f].chunks \in Complete
       /\ InUseWhole
       /\ part > 0 => config.file[Step].chunks = Sent(sending, part - 1)


\* A change of config.file at one file.
LEMMA FileChanged ==
  ASSUME config \in Settings, NEW f \in FileNames, NEW new,
         \/ config' = [config EXCEPT !.file[f] = new]
         \/ config' = [config EXCEPT !.file[f].chunks = new.chunks, !.file[f].size = new.size]
  PROVE  /\ config'.file[f].chunks = new.chunks /\ config'.file[f].size = new.size
         /\ \A g \in FileNames : g # f => config'.file[g] = config.file[g]
         /\ config'.text = config.text /\ config'.port = config.port
         /\ config'.console = config.console
<1> DEFINE Stored == [chunks : Seq(Files \X Nat), size : Int]
<1>1. /\ config.file \in [FileNames -> Stored]
      /\ config.file[f] \in Stored
      /\ config = [text |-> config.text, console |-> config.console, port |-> config.port,
                   file |-> config.file]
  BY DEF Settings
<1> DEFINE put == [config.file[f] EXCEPT !.chunks = new.chunks, !.size = new.size]
<1>2. put.chunks = new.chunks /\ put.size = new.size
  BY <1>1
<1> HIDE DEF put
<1>3. CASE config' = [config EXCEPT !.file[f] = new]
  BY <1>1, <1>3
<1>4. CASE config' = [config EXCEPT !.file[f].chunks = new.chunks, !.file[f].size = new.size]
  <2>1. config' = [config EXCEPT !.file = [config.file EXCEPT ![f] = put]]
    BY <1>1, <1>4 DEF put
  <2> QED BY <1>1, <1>2, <2>1
<1> QED BY <1>3, <1>4

\* What a start finds complete stays complete.
LEMMA CompleteInUse ==
  ASSUME \A f \in FileNames : flash.settings.file[f].chunks \in Complete
  PROVE  \A f \in FileNames : InUse(flash).file[f].chunks \in Complete
BY DEF InUse, Defaults, NoText, Complete

\* Steps outside of a file that leave files alone, or break off a write.
LEMMA FilesKept ==
  ASSUME TypeOK, FilesInv, InFile', UNCHANGED <<flash, cut, part, at, sending>>,
         config'.file = config.file
  PROVE  FilesInv'
BY DEF FilesInv, InUseWhole, Step

LEMMA FilesIdle ==
  ASSUME TypeOK, FilesInv, part = 0, part' = 0, InFile', UNCHANGED flash, cut' = cut,
         config'.file = config.file
  PROVE  FilesInv'
BY DEF FilesInv, InUseWhole

LEMMA FilesInvStep ==
  ASSUME TypeOK, FilesInv, [Next]_vars
  PROVE  FilesInv'
<1> USE DEF Saving
<1>0. InFile' /\ InFile  BY InFileStep DEF FilesInv
<1>1. ASSUME cut' PROVE FilesInv'  BY <1>0, <1>1 DEF FilesInv
<1>2. {"consoleEnabled", "mqttPort", "bleExit"} \intersect FileNames = {}
      /\ TextFields \intersect FileNames = {}
  BY ConfigAssumption
<1>3. CASE SaveText \/ SaveConsoleEnabled \/ SavePort
  <2>1. part = 0
    BY <1>0, <1>2, <1>3 DEF SaveText, SaveConsoleEnabled, SavePort, InFile, TypeOK
  <2>2. UNCHANGED <<flash, sending, cut>> /\ part' = 0
    BY <1>3, BreakIdle DEF SaveText, SaveConsoleEnabled, SavePort, Answered, unwritten
  <2>3. config'.file = config.file
    BY <1>3 DEF SaveText, SaveConsoleEnabled, SavePort, OnText, OnConsoleEnabled, OnPort, Store,
                TypeOK, Settings
  <2> QED BY <1>0, <2>1, <2>2, <2>3, FilesIdle
<1>4. CASE SkipFile
  <2>1. part = 0 /\ UNCHANGED <<flash, cut, part, config>>  BY <1>4 DEF SkipFile, unwritten
  <2> QED BY <1>0, <2>1, FilesIdle
<1>5. CASE ClearFile
  <2>1. /\ Step \in FileNames /\ part = 0 /\ Answered(at, 1)
        /\ config' = [config EXCEPT !.file[Step] = NoText]
        /\ UNCHANGED <<flash, cut>>
    BY <1>5 DEF ClearFile, OnFileClear, unwritten
  <2>2. ASSUME NEW g \in FileNames, g # Step PROVE config'.file[g] = config.file[g]
    BY <2>1, <2>2, FileChanged DEF TypeOK
  <2>3. config'.file[Step].chunks = << >>
    <3>1. config'.file[Step].chunks = NoText.chunks
      BY <2>1, FileChanged DEF TypeOK
    <3> QED BY <3>1 DEF NoText
  <2>4. << >> \in Complete  BY DEF Complete
  <2>5. ~cut => \A f \in FileNames : config'.file[f].chunks \in Complete
    BY <2>1, <2>2, <2>3, <2>4 DEF FilesInv, InUseWhole
  <2>6. CASE Break \/ Refuse
    BY <1>0, <2>1, <2>5, <2>6, BreakIdle DEF FilesInv, InUseWhole
  <2>7. CASE at' = at /\ part' = 1
    <3>1. Step' = Step  BY <2>7 DEF Step
    <3>2. Sent(sending', 0) = << >>  BY DEF Sent
    <3>3. Sent(sending, part - 1)' = << >>  BY <2>7, <3>2 DEF Sent
    <3> QED BY <1>0, <2>1, <2>3, <2>5, <3>1, <3>3 DEF FilesInv, InUseWhole
  <2> QED BY <2>1, <2>6, <2>7 DEF Answered
<1>6. CASE SaveChunk /\ ~cut'
  <2> DEFINE length == ChunkLength(sending, part)
             old == config.file[Step]
             new == [chunks |-> Append(old.chunks, <<sending, part>>), size |-> old.size + length]
  <2>1. /\ Step \in FileNames /\ job = "saving" /\ part > 0
        /\ UNCHANGED <<sending, flash>> /\ OnFileChunk(Step, <<sending, part>>, length)
        /\ IF part < ChunkCount(sending) THEN Answered(at, part + 1) ELSE Answered(at + 1, 0)
        /\ ~cut /\ Fits(Step, length) /\ (part < ChunkCount(sending) => job' # "idle")
    BY <1>6 DEF SaveChunk, unwritten
  <2>2. sending \in Files /\ part \in Nat \ {0}  BY <2>1 DEF TypeOK
  <2>3. config' = [config EXCEPT !.file[Step].chunks = new.chunks, !.file[Step].size = new.size]
    BY <2>1 DEF OnFileChunk
  <2>4. /\ config'.file[Step].chunks = new.chunks
        /\ \A g \in FileNames : g # Step => config'.file[g] = config.file[g]
    <3> HIDE DEF new
    <3> QED BY <2>1, <2>3, FileChanged DEF TypeOK
  <2>5. old.chunks = Sent(sending, part - 1)  BY <2>1 DEF FilesInv
  <2>6. config'.file[Step].chunks = Sent(sending, part)
    BY <2>2, <2>4, <2>5, SentGrows
  <2>7. \A g \in FileNames : g # Step => config'.file[g].chunks \in Complete
    BY <2>1, <2>4 DEF FilesInv, InUseWhole
  <2>8. CASE part < ChunkCount(sending)
    <3>1. at' = at /\ part' = part + 1
      BY <2>1, <2>8, BreakIdle DEF Answered
    <3>2. Step' = Step  BY <3>1 DEF Step
    <3>3. Sent(sending, part - 1)' = Sent(sending, part)
      <4>1. part' - 1 = part  BY <2>2, <3>1
      <4>2. sending' = sending  BY <2>1
      <4> QED BY <4>1, <4>2
    <3>4. part' > 0  BY <2>2, <3>1
    <3> QED BY <1>0, <2>1, <2>6, <2>7, <3>2, <3>3, <3>4 DEF FilesInv, InUseWhole
  <2>9. CASE ~(part < ChunkCount(sending))
    <3>1. part' = 0  BY <2>1, <2>9, BreakIdle DEF Answered
    <3>2. part = ChunkCount(sending)
      <4>1. ChunkCount(sending) \in Nat  BY <2>2, ChunkCounted
      <4> QED BY <1>0, <2>2, <2>9, <4>1 DEF InFile
    <3>3. config'.file[Step].chunks \in Complete
      BY <2>2, <2>6, <3>2, WholeSent DEF Complete
    <3>4. \A g \in FileNames : config'.file[g].chunks \in Complete
      BY <2>7, <3>3
    <3> QED BY <1>0, <2>1, <3>1, <3>4 DEF FilesInv, InUseWhole
  <2> QED BY <2>8, <2>9
<1>7. CASE SaveDone
  <2>1. part = 0  BY <1>0, <1>2, <1>7 DEF SaveDone, InFile, TypeOK
  <2>2. /\ part' = 0 /\ UNCHANGED <<cut, config>>
        /\ flash' = IF dirty THEN [valid |-> TRUE, settings |-> config] ELSE flash
    BY <1>7, <2>1, BreakIdle DEF SaveDone, OnExit
  <2> QED BY <1>0, <2>1, <2>2 DEF FilesInv, InUseWhole
<1>8. CASE ReadField \/ Connect
  <2>1. part = 0  BY <1>0, <1>8 DEF ReadField, Connect, InFile, TypeOK
  <2>2. UNCHANGED <<flash, cut, part, config>>  BY <1>8 DEF ReadField, Connect, hub
  <2> QED BY <1>0, <2>1, <2>2, FilesIdle
<1>9. CASE PressSave
  <2>1. UNCHANGED <<flash, cut, part, config, sending>>  BY <1>9 DEF PressSave, hub
  <2>2. CASE part = 0  BY <1>0, <2>1, <2>2, FilesIdle
  <2>3. CASE part # 0
    <3>1. at' = at  BY <1>0, <1>9, <2>3 DEF InFile, PressSave, TypeOK
    <3> QED BY <1>0, <2>1, <3>1, FilesKept
  <2> QED BY <2>2, <2>3
<1>10. CASE Edit \/ UNCHANGED vars
  <2>1. UNCHANGED <<flash, cut, part, at, config, sending>>
    BY <1>10 DEF Edit, vars, hub, client, chain
  <2> QED BY <1>0, <2>1, FilesKept
<1>11. CASE (Disconnect \/ Refused \/ Reload) /\ ~cut'
  <2>1. UNCHANGED <<flash, config>> /\ cut' = (cut \/ part > 0) /\ part' = 0
    BY <1>11, BreakIdle DEF Disconnect, Refused, Reload, hub
  <2>2. ~(part > 0) /\ ~cut  BY <1>11, <2>1, Zenon
  <2>3. part = 0  BY <2>2 DEF TypeOK
  <2> QED BY <1>0, <2>1, <2>2, <2>3 DEF FilesInv, InUseWhole
<1>12. CASE Restart \/ Reset
  <2>1. config' = InUse(flash) /\ part' = 0 /\ UNCHANGED <<flash, cut>>
    BY <1>12 DEF Restart, Reset, Start
  <2> QED BY <1>0, <2>1, CompleteInUse DEF FilesInv, InUseWhole
<1>13. CASE Command /\ ~cut'
  <2>1. UNCHANGED <<part, at, sending>>  BY <1>13 DEF Command, client, chain
  <2>2. CASE UNCHANGED <<flash, cut>> /\ config'.file = config.file
    BY <1>0, <2>1, <2>2, FilesKept
  <2>3. CASE /\ flash' = [valid |-> TRUE, settings |-> config]
             /\ cut' = (cut \/ part > 0) /\ UNCHANGED config
    <3>1. ~(part > 0) /\ ~cut  BY <1>13, <2>3, Zenon
    <3>2. part = 0  BY <3>1 DEF TypeOK
    <3> QED BY <1>0, <2>1, <2>3, <3>1, <3>2 DEF FilesInv, InUseWhole
  <2> QED BY <1>13, <2>2, <2>3 DEF Command, TypeOK, Settings
<1> QED
  BY <1>1, <1>3, <1>4, <1>5, <1>6, <1>7, <1>8, <1>9, <1>10, <1>11, <1>12, <1>13 DEF Next, Save

(* A certificate or key in flash is whole, whatever is written, restarted  *)
(* and commanded, unless a save was cut within a file or the file did not  *)
(* fit; of the file under way, what was sent so far is in use.             *)
THEOREM FilesWholeHolds == Spec => []FilesWhole
<1>1. Init => FilesInv
  <2> SUFFICES ASSUME Init PROVE FilesInv
    OBVIOUS
  <2>1. part = 0 /\ InFile  BY DEF Init, InFile
  <2>2. \A f \in FileNames : flash.settings.file[f].chunks \in Complete
    BY DEF Init, Defaults, NoText, Complete
  <2>3. config = InUse(flash)  BY DEF Init
  <2> QED BY <2>1, <2>2, <2>3, CompleteInUse DEF FilesInv, InUseWhole
<1>2. TypeOK /\ FilesInv /\ [Next]_vars => FilesInv'  BY FilesInvStep
<1>3. FilesInv => FilesWhole  BY DEF FilesInv, FilesWhole, Complete
<1> QED BY <1>1, <1>2, <1>3, TypeCorrect, PTL DEF Spec

-----------------------------------------------------------------------------
(* The chains' steps.                                                      *)

Items(s) == {s[i] : i \in 1 .. Len(s)}

LEMMA ItemsOfBoth ==
  ASSUME NEW S, NEW s \in Seq(S), NEW t \in Seq(S)
  PROVE  s \o t \in Seq(S) /\ Items(s \o t) = Items(s) \union Items(t)
<1>1. /\ s \o t \in Seq(S) /\ Len(s \o t) = Len(s) + Len(t)
      /\ \A i \in 1 .. Len(s) : (s \o t)[i] = s[i]
      /\ \A i \in 1 .. Len(t) : (s \o t)[Len(s) + i] = t[i]
  OBVIOUS
<1>2. Len(s) \in Nat /\ Len(t) \in Nat
  OBVIOUS
<1> DEFINE st == s \o t
<1> HIDE DEF st
<1>3. ASSUME NEW x \in Items(st) PROVE x \in Items(s) \union Items(t)
  <2>1. PICK i \in 1 .. Len(st) : x = st[i]  BY <1>3 DEF Items
  <2>2. CASE i \in 1 .. Len(s)  BY <1>1, <2>1, <2>2 DEF Items, st
  <2>3. CASE i \notin 1 .. Len(s)
    <3>1. i - Len(s) \in 1 .. Len(t) /\ Len(s) + (i - Len(s)) = i
      BY <1>1, <1>2, <2>1, <2>3 DEF st
    <3>2. x = t[i - Len(s)]  BY <1>1, <2>1, <3>1 DEF st
    <3> QED BY <3>1, <3>2 DEF Items
  <2> QED BY <2>2, <2>3
<1>4. ASSUME NEW x \in Items(s) PROVE x \in Items(st)
  <2>1. PICK i \in 1 .. Len(s) : x = s[i]  BY DEF Items
  <2>2. i \in 1 .. Len(st) /\ st[i] = x  BY <1>1, <1>2, <2>1 DEF st
  <2> QED BY <2>2 DEF Items
<1>5. ASSUME NEW x \in Items(t) PROVE x \in Items(st)
  <2>1. PICK i \in 1 .. Len(t) : x = t[i]  BY DEF Items
  <2>2. Len(s) + i \in 1 .. Len(st) /\ st[Len(s) + i] = x  BY <1>1, <1>2, <2>1 DEF st
  <2> QED BY <2>2 DEF Items
<1> QED BY <1>1, <1>3, <1>4, <1>5 DEF st

LEMMA ItemOfOne ==
  ASSUME NEW S, NEW x \in S
  PROVE  <<x>> \in Seq(S) /\ Items(<<x>>) = {x}
<1> DEFINE one == <<x>>
<1>1. one \in Seq(S) /\ Len(one) = 1 /\ one[1] = x
  OBVIOUS
<1> HIDE DEF one
<1>2. 1 .. Len(one) = {1}  BY <1>1
<1>3. Items(one) = {x}  BY <1>1, <1>2 DEF Items
<1> QED BY <1>1, <1>3 DEF one

\* What a chain's steps are called.
StepNames == TextFields \union FileNames \union {"consoleEnabled", "mqttPort", "bleExit"}

LEMMA PageFields ==
  /\ CoreFields \in Seq(StepNames) /\ MqttFields \in Seq(StepNames)
  /\ FileFields \in Seq(StepNames)
  /\ TextFields = Items(CoreFields) \union Items(MqttFields)
  /\ FileNames = Items(FileFields)
<1>1. ASSUME NEW s \in Seq(STRING), Items(s) \subseteq StepNames PROVE s \in Seq(StepNames)
  <2>1. s = [i \in 1 .. Len(s) |-> s[i]] /\ Len(s) \in Nat
    OBVIOUS
  <2>2. \A i \in 1 .. Len(s) : s[i] \in StepNames  BY <1>1 DEF Items
  <2> QED BY <2>1, <2>2
<1>2. /\ CoreFields \in Seq(STRING) /\ MqttFields \in Seq(STRING)
      /\ FileFields \in Seq(STRING)
  BY ConfigAssumption
<1>3. /\ TextFields = Items(CoreFields) \union Items(MqttFields)
      /\ FileNames = Items(FileFields)
  BY <1>2 DEF TextFields, FileNames, Items
<1> QED BY <1>1, <1>2, <1>3 DEF StepNames

\* A chain that ends with a step of its own.
LastOf(s, x, all) ==
  /\ Len(all) \in Nat \ {0} /\ all[Len(all)] = x
  /\ \A i \in 1 .. Len(all) - 1 : all[i] # x
  /\ \A y \in Items(s) : \E i \in 1 .. Len(all) - 1 : all[i] = y

LEMMA LastStep ==
  ASSUME NEW S, NEW s \in Seq(S), NEW x \in S, x \notin Items(s)
  PROVE  LastOf(s, x, s \o <<x>>)
<1> DEFINE all == s \o <<x>>
<1>0. Len(<<x>>) = 1 /\ <<x>>[1] = x /\ <<x>> \in Seq(S)
  OBVIOUS
<1>1. /\ Len(s) \in Nat /\ Len(all) = Len(s) + 1 /\ all[Len(s) + 1] = x
      /\ \A i \in 1 .. Len(s) : all[i] = s[i]
  BY <1>0
<1> HIDE DEF all
<1>2. Len(all) - 1 = Len(s) /\ Len(all) \in Nat \ {0}  BY <1>1
<1>3. LastOf(s, x, all)  BY <1>1, <1>2 DEF Items, LastOf
<1> QED BY <1>3 DEF all

\* A save writes every field, then the command that saves.
LEMMA SaveStepsWrite ==
  /\ Len(SaveSteps) \in Nat \ {0} /\ SaveSteps[Len(SaveSteps)] = "bleExit"
  /\ \A i \in 1 .. Len(SaveSteps) - 1 : SaveSteps[i] # "bleExit"
  /\ \A s \in TextFields \union FileNames \union {"consoleEnabled", "mqttPort"} :
        \E i \in 1 .. Len(SaveSteps) - 1 : SaveSteps[i] = s
<1> DEFINE s1 == CoreFields \o <<"consoleEnabled">>
           s2 == s1 \o FileFields
           s3 == s2 \o MqttFields
           s4 == s3 \o <<"mqttPort">>
           s5 == s4 \o FileFields
<1>0. SaveSteps = s5 \o <<"bleExit">>  BY DEF SaveSteps
<1>1. s1 \in Seq(StepNames) /\ Items(s1) = Items(CoreFields) \union {"consoleEnabled"}
  <2> DEFINE one == <<"consoleEnabled">>
  <2>1. one \in Seq(StepNames) /\ Items(one) = {"consoleEnabled"}
    BY ItemOfOne DEF StepNames
  <2> HIDE DEF one
  <2>2. CoreFields \o one \in Seq(StepNames)
        /\ Items(CoreFields \o one) = Items(CoreFields) \union Items(one)
    BY <2>1, PageFields, ItemsOfBoth
  <2> QED BY <2>1, <2>2 DEF one
<1> HIDE DEF s1
<1>2. s2 \in Seq(StepNames) /\ Items(s2) = Items(s1) \union FileNames
  BY <1>1, PageFields, ItemsOfBoth
<1> HIDE DEF s2
<1>3. s3 \in Seq(StepNames) /\ Items(s3) = Items(s2) \union Items(MqttFields)
  BY <1>2, PageFields, ItemsOfBoth
<1> HIDE DEF s3
<1>4. s4 \in Seq(StepNames) /\ Items(s4) = Items(s3) \union {"mqttPort"}
  <2> DEFINE one == <<"mqttPort">>
  <2>1. one \in Seq(StepNames) /\ Items(one) = {"mqttPort"}
    BY ItemOfOne DEF StepNames
  <2> HIDE DEF one
  <2>2. s3 \o one \in Seq(StepNames) /\ Items(s3 \o one) = Items(s3) \union Items(one)
    BY <1>3, <2>1, ItemsOfBoth
  <2> QED BY <2>1, <2>2 DEF one
<1> HIDE DEF s4
<1>5. s5 \in Seq(StepNames) /\ Items(s5) = Items(s4) \union FileNames
  BY <1>4, PageFields, ItemsOfBoth
<1> HIDE DEF s5
<1>6. Items(s5) = TextFields \union FileNames \union {"consoleEnabled", "mqttPort"}
  BY <1>1, <1>2, <1>3, <1>4, <1>5, PageFields
<1>7. "bleExit" \notin Items(s5)  BY <1>6, ConfigAssumption
<1>8. LastOf(s5, "bleExit", SaveSteps)
  <2>1. "bleExit" \in StepNames  BY DEF StepNames
  <2> QED BY <1>0, <1>5, <1>7, <2>1, LastStep
<1> QED BY <1>6, <1>8 DEF LastOf

\* A page reads every text and the console flag, then the port.
LEMMA ReadStepsRead ==
  /\ Len(ReadSteps) \in Nat \ {0} /\ ReadSteps[Len(ReadSteps)] = "mqttPort"
  /\ \A s \in TextFields \union {"consoleEnabled"} :
        \E i \in 1 .. Len(ReadSteps) - 1 : ReadSteps[i] = s
<1> DEFINE s1 == CoreFields \o <<"consoleEnabled">>
           s2 == s1 \o MqttFields
<1>0. ReadSteps = s2 \o <<"mqttPort">>  BY DEF ReadSteps
<1>1. s1 \in Seq(StepNames) /\ Items(s1) = Items(CoreFields) \union {"consoleEnabled"}
  <2> DEFINE one == <<"consoleEnabled">>
  <2>1. one \in Seq(StepNames) /\ Items(one) = {"consoleEnabled"}
    BY ItemOfOne DEF StepNames
  <2> HIDE DEF one
  <2>2. CoreFields \o one \in Seq(StepNames)
        /\ Items(CoreFields \o one) = Items(CoreFields) \union Items(one)
    BY <2>1, PageFields, ItemsOfBoth
  <2> QED BY <2>1, <2>2 DEF one
<1> HIDE DEF s1
<1>2. s2 \in Seq(StepNames) /\ Items(s2) = Items(s1) \union Items(MqttFields)
  BY <1>1, PageFields, ItemsOfBoth
<1> HIDE DEF s2
<1>3. Items(s2) = TextFields \union {"consoleEnabled"}
  BY <1>1, <1>2, PageFields
<1>4. "mqttPort" \notin Items(s2)  BY <1>3, ConfigAssumption
<1>5. LastOf(s2, "mqttPort", ReadSteps)
  <2>1. "mqttPort" \in StepNames  BY DEF StepNames
  <2> QED BY <1>0, <1>2, <1>4, <2>1, LastStep
<1> QED BY <1>3, <1>5 DEF LastOf

-----------------------------------------------------------------------------
(* What the page has read.                                                 *)

\* What BLE shows is in use, but for a port in its characteristic as written.
Shows ==
  /\ chars.text = config.text
  /\ ~consoleSet => (chars.console # 0) = (config.console # 0)
  /\ chars.port = IF portWritten THEN SwapBytes(config.port) ELSE config.port

\* sensaurusBle has what is in use for step s.
ReadRight(s) ==
  /\ s \in TextFields => obj.text[s] = config.text[s]
  /\ s = "consoleEnabled" /\ ~consoleSet => (obj.console # 0) = (config.console # 0)

ReadInv ==
  /\ Shows
  /\ job = "reading" =>
       /\ at \in 1 .. Len(ReadSteps)
       /\ ~again => \A i \in 1 .. at - 1 : ReadRight(ReadSteps[i])

LEMMA ShowsStep ==
  ASSUME TypeOK, Shows, [Next]_vars
  PROVE  Shows'
<1> USE DEF Saving
<1>0. config \in Settings /\ chars \in Shown  BY DEF TypeOK
<1>1. CASE SaveText
  <2>1. /\ Step \in TextFields
        /\ config' = [config EXCEPT !.text[Step] = obj.text[Step]]
        /\ chars' = [chars EXCEPT !.text[Step] = obj.text[Step]]
        /\ UNCHANGED <<portWritten, consoleSet>>
    BY <1>1 DEF SaveText, OnText, Store, unwritten
  <2> QED BY <1>0, <2>1 DEF Shows, Settings, Shown
<1>2. CASE SaveConsoleEnabled
  <2>1. /\ config' = [config EXCEPT !.console = IF obj.console # 0 THEN 1 ELSE 0]
        /\ chars' = [chars EXCEPT !.console = SwapBytes(obj.console)]
        /\ UNCHANGED portWritten
    BY <1>2 DEF SaveConsoleEnabled, OnConsoleEnabled, Store
  <2>2. (SwapBytes(obj.console) # 0) = (obj.console # 0)
    <3>1. obj.console \in {0, 1, 256}  BY DEF TypeOK, Fields
    <3> QED BY <3>1 DEF SwapBytes
  <2> HIDE DEF SwapBytes
  <2>3. /\ config'.text = config.text /\ config'.port = config.port
        /\ config'.console = IF obj.console # 0 THEN 1 ELSE 0
        /\ chars'.text = chars.text /\ chars'.port = chars.port
        /\ chars'.console = SwapBytes(obj.console)
    BY <1>0, <2>1 DEF Settings, Shown
  <2>4. (chars'.console # 0) = (config'.console # 0)  BY <2>2, <2>3
  <2> QED BY <2>1, <2>3, <2>4 DEF Shows
<1>3. CASE SavePort
  <2>1. /\ config' = [config EXCEPT !.port = obj.port]
        /\ chars' = [chars EXCEPT !.port = SwapBytes(obj.port)] /\ portWritten'
        /\ UNCHANGED consoleSet
    BY <1>3, Zenon DEF SavePort, OnPort, Store, unwritten
  <2> QED BY <1>0, <2>1 DEF Shows, Settings, Shown
<1>4. CASE ClearFile
  BY <1>0, <1>4 DEF ClearFile, OnFileClear, Shows, Settings, unwritten
<1>5. CASE SaveChunk
  BY <1>0, <1>5 DEF SaveChunk, OnFileChunk, Shows, Settings, unwritten
<1>6. CASE Restart \/ Reset
  <2>1. chars' = Served(config') /\ portWritten' = FALSE
    BY <1>6 DEF Restart, Reset, Start
  <2> QED BY <2>1 DEF Served, Shows
<1>7. CASE Command
  <2>1. CASE UNCHANGED <<config, chars, portWritten, consoleSet>>
    BY <2>1 DEF Shows
  <2>2. CASE /\ \E v \in IF ble THEN {0} ELSE {0, 1} : config' = [config EXCEPT !.console = v]
             /\ consoleSet' = TRUE /\ UNCHANGED <<chars, portWritten>>
    BY <1>0, <2>2 DEF Shows, Settings
  <2>3. CASE chars' = Served(config) /\ portWritten' = FALSE /\ UNCHANGED <<config, consoleSet>>
    BY <2>3 DEF Served, Shows
  <2> QED BY <1>7, <2>1, <2>2, <2>3 DEF Command
<1>8. CASE SkipFile \/ SaveDone \/ ReadField \/ Connect \/ PressSave \/ Edit \/ Disconnect
           \/ Refused \/ Reload \/ UNCHANGED vars
  <2>1. UNCHANGED <<config, chars, portWritten, consoleSet>>
    BY <1>8 DEF SkipFile, SaveDone, OnExit, ReadField, Connect, PressSave, Edit, Disconnect,
                Refused, Reload, vars, hub, unwritten
  <2> QED BY <2>1 DEF Shows
<1> QED BY <1>1, <1>2, <1>3, <1>4, <1>5, <1>6, <1>7, <1>8 DEF Next, Save

LEMMA ReadInvStep ==
  ASSUME TypeOK, ReadInv, [Next]_vars
  PROVE  ReadInv'
<1> USE DEF Saving
<1>0. Shows'  BY ShowsStep DEF ReadInv
<1>1. ASSUME job' # "reading" PROVE ReadInv'  BY <1>0, <1>1 DEF ReadInv
<1>2. ASSUME UNCHANGED <<job, at, obj, again>>,
             consoleSet' \/ (config'.console = config.console /\ UNCHANGED consoleSet),
             config'.text = config.text
      PROVE  ReadInv'
  BY <1>0, <1>2 DEF ReadInv, ReadRight
<1>3. CASE Save
  BY <1>1, <1>3, BreakIdle
  DEF Save, SaveText, SaveConsoleEnabled, SavePort, SkipFile, ClearFile, SaveChunk, SaveDone, Answered
<1>4. CASE ReadField
  <2> DEFINE f == ReadSteps[at]
  <2>1. /\ job = "reading" /\ at \in 1 .. Len(ReadSteps)
        /\ obj' = IF f = "consoleEnabled" THEN [obj EXCEPT !.console = chars.console]
                  ELSE IF f = "mqttPort" THEN [obj EXCEPT !.port = chars.port]
                  ELSE [obj EXCEPT !.text[f] = chars.text[f]]
        /\ UNCHANGED <<config, chars, again, consoleSet>>
    BY <1>4 DEF ReadField, ReadInv, hub
  <2>2. CASE at < Len(ReadSteps)
    <3>1. at' = at + 1 /\ UNCHANGED job  BY <1>4, <2>2 DEF ReadField
    <3>2. obj \in Fields /\ at \in Nat /\ Len(ReadSteps) \in Nat  BY ReadStepsRead DEF TypeOK
    <3>3. ASSUME NEW g, g = f \/ ReadRight(g)
          PROVE  ReadRight(g)'
      <4>1. Shows  BY DEF ReadInv
      <4> HIDE DEF f
      <4>2. ASSUME g \in TextFields PROVE obj'.text[g] = config.text[g]
        <5>1. g # "consoleEnabled" /\ g # "mqttPort"  BY <4>2, ConfigAssumption
        <5> QED BY <2>1, <3>2, <3>3, <4>1, <4>2, <5>1 DEF Fields, Shows, ReadRight
      <4>3. ASSUME g = "consoleEnabled", ~consoleSet
            PROVE  (obj'.console # 0) = (config.console # 0)
        BY <2>1, <3>2, <3>3, <4>1, <4>3 DEF Fields, Shows, ReadRight
      <4> QED BY <2>1, <4>2, <4>3 DEF ReadRight
    <3>4. ASSUME ~again, NEW i \in 1 .. at
          PROVE  ReadRight(ReadSteps[i])'
      <4>1. i = at \/ i \in 1 .. at - 1  BY <3>2
      <4>2. ReadSteps[i] = f \/ ReadRight(ReadSteps[i])
        BY <2>1, <3>4, <4>1 DEF ReadInv
      <4> QED BY <3>3, <4>2
    <3>5. at' \in 1 .. Len(ReadSteps) /\ at' - 1 = at  BY <2>1, <2>2, <3>1, <3>2
    <3> QED BY <1>0, <2>1, <3>4, <3>5 DEF ReadInv
  <2>3. CASE ~(at < Len(ReadSteps))
    BY <1>1, <1>4, <2>3 DEF ReadField
  <2> QED BY <2>2, <2>3
<1>5. CASE Connect
  <2>1. at' = 1 /\ 1 \in 1 .. Len(ReadSteps) /\ 1 .. at' - 1 = {}
    BY <1>5, ReadStepsRead DEF Connect
  <2> QED BY <1>0, <2>1 DEF ReadInv
<1>6. CASE PressSave
  <2>1. CASE job = "reading"
    <3>1. again' /\ UNCHANGED <<job, at>>  BY <1>6, <2>1 DEF PressSave
    <3> QED BY <1>0, <3>1 DEF ReadInv
  <2>2. CASE job # "reading"
    BY <1>1, <1>6, <2>2 DEF PressSave
  <2> QED BY <2>1, <2>2
<1>7. CASE Edit \/ UNCHANGED vars
  <2>1. UNCHANGED <<job, at, obj, config, again, consoleSet>>
    BY <1>7 DEF Edit, vars, hub, client, chain
  <2> QED BY <1>2, <2>1
<1>8. CASE Disconnect \/ Refused \/ Reload \/ Restart \/ Reset
  BY <1>1, <1>8, BreakIdle DEF Disconnect, Refused, Reload, Restart, Reset, Start
<1>9. CASE Command
  <2>1. UNCHANGED <<job, at, obj, again>>  BY <1>9 DEF Command, client, chain
  <2>2. CASE UNCHANGED <<config, consoleSet>>
    BY <1>2, <2>1, <2>2
  <2>3. CASE /\ \E v \in IF ble THEN {0} ELSE {0, 1} : config' = [config EXCEPT !.console = v]
             /\ consoleSet' = TRUE
    <3>1. config'.text = config.text  BY <2>3 DEF TypeOK, Settings
    <3>2. consoleSet'  BY <2>3, Zenon
    <3> QED BY <1>2, <2>1, <3>1, <3>2
  <2> QED BY <1>9, <2>2, <2>3 DEF Command
<1> QED BY <1>3, <1>4, <1>5, <1>6, <1>7, <1>8, <1>9 DEF Next

(* The fields that the page shows once it has read the hub are the texts,  *)
(* the console flag and the port in use, whatever was written, broken off, *)
(* refused and commanded before and meanwhile, unless Save was pressed     *)
(* meanwhile; a port shows with its bytes swapped exactly if it was        *)
(* written since BLE began to serve.                                       *)
THEOREM FieldsCurrentHolds == Spec => FieldsCurrent
<1>1. Init => ReadInv
  BY DEF Init, ReadInv, Shows, Served
<1>2. TypeOK /\ ReadInv /\ [Next]_vars => ReadInv'  BY ReadInvStep
<1> DEFINE Current ==
      ReadField /\ job' = "idle" /\ ~again =>
        /\ page'.text = config.text
        /\ ~consoleSet => (page'.console # 0) = (config.console # 0)
        /\ page'.port = IF portWritten THEN SwapBytes(config.port) ELSE config.port
<1>3. TypeOK /\ ReadInv /\ [Next]_vars => [Current]_vars
  <2> SUFFICES ASSUME TypeOK, ReadInv, ReadField, job' = "idle", ~again
               PROVE  /\ page'.text = config.text
                      /\ ~consoleSet => (page'.console # 0) = (config.console # 0)
                      /\ page'.port = IF portWritten THEN SwapBytes(config.port) ELSE config.port
    OBVIOUS
  <2>1. job = "reading" /\ at = Len(ReadSteps)
    <3>1. job = "reading" /\ at \in 1 .. Len(ReadSteps)  BY DEF ReadField, ReadInv
    <3>2. ~(at < Len(ReadSteps))  BY <3>1 DEF ReadField
    <3> QED BY <3>1, <3>2, ReadStepsRead
  <2>2. ReadSteps[at] = "mqttPort" /\ ~(at < Len(ReadSteps))  BY <2>1, ReadStepsRead
  <2>3. obj' = [obj EXCEPT !.port = chars.port] /\ page' = [obj' EXCEPT !.file = page.file]
    BY <2>2 DEF ReadField
  <2>4. page'.text = obj.text /\ page'.console = obj.console /\ page'.port = chars.port
    BY <2>3 DEF TypeOK, Fields
  <2>5. \A s \in TextFields \union {"consoleEnabled"} : ReadRight(s)
    BY <2>1, ReadStepsRead DEF ReadInv
  <2>6. obj.text = config.text
    BY <2>5 DEF TypeOK, Fields, Settings, ReadRight
  <2>7. ~consoleSet => (obj.console # 0) = (config.console # 0)
    BY <2>5 DEF ReadRight
  <2> QED BY <2>4, <2>6, <2>7 DEF ReadInv, Shows
<1> QED BY <1>1, <1>2, <1>3, TypeCorrect, PTL DEF Spec, FieldsCurrent

-----------------------------------------------------------------------------
(* What a save has written.                                                *)

\* The settings in use have what sensaurusBle has for step s; of files, the
\* whole one, if it was pasted, fits and is not being sent anew.
FileWritten(f) ==
  obj.file[f] # NoFile /\ FileSize[obj.file[f]] < Capacity /\ ~(part > 0 /\ f = Step)
    => config.file[f].chunks = Whole(obj.file[f])

Written(s) ==
  /\ s \in TextFields => config.text[s] = obj.text[s]
  /\ s = "consoleEnabled" /\ ~consoleSet => (config.console # 0) = (obj.console # 0)
  /\ s = "mqttPort" => config.port = obj.port
  /\ s \in FileNames => FileWritten(s)

\* Of a file under way that fits, what was sent so far is in use.
UnderWay ==
  part > 0 =>
    /\ sending = obj.file[Step]
    /\ FileSize[sending] < Capacity =>
         /\ config.file[Step].chunks = Sent(sending, part - 1)
         /\ config.file[Step].size = (part - 1) * ChunkSize

SaveInv ==
  /\ InFile
  /\ job = "saving" =>
       /\ at \in 1 .. Len(SaveSteps)
       /\ ~again => UnderWay /\ \A i \in 1 .. at - 1 : Written(SaveSteps[i])

\* Fields are of different names.
LEMMA StepsDiffer ==
  /\ TextFields \intersect FileNames = {}
  /\ \A s \in TextFields : s # "consoleEnabled" /\ s # "mqttPort" /\ s # "bleExit"
  /\ \A s \in FileNames : s # "consoleEnabled" /\ s # "mqttPort" /\ s # "bleExit"
  /\ "consoleEnabled" # "mqttPort" /\ "mqttPort" # "bleExit" /\ "consoleEnabled" # "bleExit"
BY ConfigAssumption

\* A step that is done.
LEMMA StepDone ==
  ASSUME TypeOK, SaveInv, InFile', job = "saving", job' = "saving", Step # "bleExit",
         at' = at + 1, part' = 0, again' = again,
         ~again => \A s : Written(s) \/ s = Step => Written(s)'
  PROVE  SaveInv'
<1>1. Len(SaveSteps) \in Nat \ {0} /\ SaveSteps[Len(SaveSteps)] = "bleExit"  BY SaveStepsWrite
<1>2. at \in 1 .. Len(SaveSteps) /\ at # Len(SaveSteps)
  BY <1>1 DEF SaveInv, Step
<1>3. at' \in 1 .. Len(SaveSteps) /\ at' - 1 = at  BY <1>1, <1>2
<1>4. ASSUME ~again, NEW i \in 1 .. at PROVE Written(SaveSteps[i])'
  <2>1. i = at \/ i \in 1 .. at - 1  BY <1>2
  <2>2. Written(SaveSteps[i]) \/ SaveSteps[i] = Step  BY <1>4, <2>1 DEF SaveInv, Step
  <2> QED BY <1>4, <2>2
<1>5. UnderWay'  BY DEF UnderWay
<1> QED BY <1>3, <1>4, <1>5 DEF SaveInv

LEMMA SaveOver ==
  ASSUME InFile', job' # "saving"
  PROVE  SaveInv'
BY DEF SaveInv

\* Steps that leave the save and what it wrote alone.
LEMMA SaveKept ==
  ASSUME SaveInv, UNCHANGED <<job, at, part, sending, obj, again>>,
         consoleSet' \/ (config'.console = config.console /\ UNCHANGED consoleSet),
         config'.text = config.text, config'.port = config.port, config'.file = config.file
  PROVE  SaveInv'
<1>1. Step' = Step  BY DEF Step
<1>2. InFile'  BY <1>1 DEF SaveInv, InFile, ChunkCount
<1>3. ASSUME NEW s, Written(s) PROVE Written(s)'
  BY <1>1, <1>3 DEF Written, FileWritten
<1>4. UnderWay => UnderWay'
  BY <1>1 DEF UnderWay, Sent
<1> QED BY <1>2, <1>3, <1>4 DEF SaveInv

LEMMA SaveInvStep ==
  ASSUME TypeOK, SaveInv, [Next]_vars
  PROVE  SaveInv'
<1> USE DEF Saving
<1>0. InFile' /\ InFile  BY InFileStep DEF SaveInv
<1>1. ASSUME job' # "saving" PROVE SaveInv'  BY <1>0, <1>1, SaveOver
<1>2. config \in Settings /\ obj \in Fields  BY DEF TypeOK
<1>3. CASE SaveText /\ job' = "saving"
  <2>1. /\ Step \in TextFields /\ job = "saving" /\ at' = at + 1 /\ part' = 0
        /\ config' = [config EXCEPT !.text[Step] = obj.text[Step]]
        /\ UNCHANGED <<obj, again, consoleSet>>
    BY <1>3, BreakIdle DEF SaveText, OnText, Store, Answered, unwritten
  <2>2. Step # "bleExit" /\ Step \notin FileNames  BY <2>1, StepsDiffer
  <2>3. part = 0  BY <1>0, <2>2 DEF InFile, TypeOK
  <2>4. /\ config'.console = config.console /\ config'.port = config.port
        /\ config'.file = config.file /\ config'.text[Step] = obj.text[Step]
        /\ \A s \in TextFields : s # Step => config'.text[s] = config.text[s]
    BY <1>2, <2>1 DEF Settings
  <2>5. ASSUME NEW s, Written(s) \/ s = Step PROVE Written(s)'
    <3>1. CASE s = Step  BY <2>1, <2>4, <3>1, StepsDiffer DEF Written
    <3>2. CASE s # Step  BY <2>1, <2>3, <2>4, <2>5, <3>2 DEF Written, FileWritten
    <3> QED BY <3>1, <3>2
  <2> QED BY <1>0, <1>3, <2>1, <2>2, <2>5, StepDone
<1>4. CASE SaveConsoleEnabled /\ job' = "saving"
  <2>1. /\ Step = "consoleEnabled" /\ job = "saving" /\ at' = at + 1 /\ part' = 0
        /\ config' = [config EXCEPT !.console = IF obj.console # 0 THEN 1 ELSE 0]
        /\ UNCHANGED <<obj, again, consoleSet>>
    BY <1>4, BreakIdle DEF SaveConsoleEnabled, OnConsoleEnabled, Store, Answered, unwritten
  <2>2. Step # "bleExit" /\ Step \notin FileNames  BY <2>1, StepsDiffer
  <2>3. part = 0  BY <1>0, <2>2 DEF InFile, TypeOK
  <2>4. /\ (config'.console # 0) = (obj.console # 0) /\ config'.port = config.port
        /\ config'.file = config.file /\ config'.text = config.text
    BY <1>2, <2>1 DEF Settings
  <2>5. ASSUME NEW s, Written(s) \/ s = Step PROVE Written(s)'
    <3>1. CASE s = Step  BY <2>1, <2>4, <3>1, StepsDiffer DEF Written
    <3>2. CASE s # Step  BY <2>1, <2>3, <2>4, <2>5, <3>2 DEF Written, FileWritten
    <3> QED BY <3>1, <3>2
  <2> QED BY <1>0, <1>4, <2>1, <2>2, <2>5, StepDone
<1>5. CASE SavePort /\ job' = "saving"
  <2>1. /\ Step = "mqttPort" /\ job = "saving" /\ at' = at + 1 /\ part' = 0
        /\ config' = [config EXCEPT !.port = obj.port]
        /\ UNCHANGED <<obj, again, consoleSet>>
    BY <1>5, BreakIdle DEF SavePort, OnPort, Store, Answered, unwritten
  <2>2. Step # "bleExit" /\ Step \notin FileNames  BY <2>1, StepsDiffer
  <2>3. part = 0  BY <1>0, <2>2 DEF InFile, TypeOK
  <2>4. /\ config'.console = config.console /\ config'.port = obj.port
        /\ config'.file = config.file /\ config'.text = config.text
    BY <1>2, <2>1 DEF Settings
  <2>5. ASSUME NEW s, Written(s) \/ s = Step PROVE Written(s)'
    <3>1. CASE s = Step  BY <2>1, <2>4, <3>1, StepsDiffer DEF Written
    <3>2. CASE s # Step  BY <2>1, <2>3, <2>4, <2>5, <3>2 DEF Written, FileWritten
    <3> QED BY <3>1, <3>2
  <2> QED BY <1>0, <1>5, <2>1, <2>2, <2>5, StepDone
<1>6. CASE SkipFile
  <2>1. /\ Step \in FileNames /\ job = "saving" /\ at' = at + 1 /\ part = 0 /\ part' = 0
        /\ job' = "saving" /\ obj.file[Step] = NoFile /\ UNCHANGED <<config, obj, again, consoleSet>>
    BY <1>6 DEF SkipFile, unwritten
  <2>2. Step # "bleExit"  BY <2>1, StepsDiffer
  <2>3. ASSUME NEW s, Written(s) \/ s = Step PROVE Written(s)'
    <3>1. CASE s = Step  BY <2>1, <3>1, StepsDiffer DEF Written, FileWritten
    <3>2. CASE s # Step  BY <2>1, <2>3, <3>2 DEF Written, FileWritten
    <3> QED BY <3>1, <3>2
  <2> QED BY <1>0, <2>1, <2>2, <2>3, StepDone
<1>7. CASE ClearFile /\ job' = "saving"
  <2>1. /\ Step \in FileNames /\ job = "saving" /\ part = 0 /\ at' = at /\ part' = 1
        /\ config' = [config EXCEPT !.file[Step] = NoText]
        /\ sending' = obj.file[Step] /\ UNCHANGED <<obj, again, consoleSet>>
    BY <1>7, BreakIdle DEF ClearFile, OnFileClear, Answered, unwritten
  <2>2. Step' = Step  BY <2>1 DEF Step
  <2>3. /\ config'.file[Step].chunks = NoText.chunks /\ config'.file[Step].size = NoText.size
        /\ \A g \in FileNames : g # Step => config'.file[g] = config.file[g]
        /\ config'.text = config.text /\ config'.port = config.port
        /\ config'.console = config.console
    BY <1>2, <2>1, FileChanged
  <2>4. ASSUME NEW s, Written(s) PROVE Written(s)'
    <3>1. ASSUME s \in FileNames PROVE FileWritten(s)'
      <4>1. CASE s = Step  BY <2>1, <2>2, <4>1 DEF FileWritten
      <4>2. CASE s # Step  BY <2>1, <2>3, <2>4, <3>1, <4>2 DEF Written, FileWritten
      <4> QED BY <4>1, <4>2
    <3> QED BY <2>1, <2>3, <2>4, <3>1 DEF Written
  <2>5. UnderWay'
    <3>1. Sent(sending', 0) = << >>  BY DEF Sent
    <3>2. Sent(sending, part - 1)' = << >>  BY <2>1, <3>1
    <3>3. (part' - 1) * ChunkSize = 0  BY <2>1, ConfigAssumption
    <3> QED BY <2>1, <2>2, <2>3, <3>2, <3>3 DEF UnderWay, NoText
  <2> QED BY <1>0, <1>7, <2>1, <2>4, <2>5 DEF SaveInv
<1>8. CASE SaveChunk /\ job' = "saving" /\ ~again
  <2> DEFINE length == ChunkLength(sending, part)
             old == config.file[Step]
             new == [chunks |-> Append(old.chunks, <<sending, part>>), size |-> old.size + length]
             count == ChunkCount(sending)
  <2>1. /\ Step \in FileNames /\ job = "saving" /\ part > 0
        /\ UNCHANGED <<sending, obj, again, consoleSet>>
        /\ OnFileChunk(Step, <<sending, part>>, length)
        /\ IF part < count THEN at' = at /\ part' = part + 1 ELSE at' = at + 1 /\ part' = 0
    BY <1>8, BreakIdle DEF SaveChunk, Answered, unwritten
  <2>2. sending \in Files /\ part \in Nat \ {0}  BY <2>1 DEF TypeOK
  <2>3. UnderWay /\ sending = obj.file[Step] /\ part <= count
    BY <1>0, <1>8, <2>1 DEF SaveInv, UnderWay, InFile
  <2>4. count \in Nat \ {0} /\ (count - 1) * ChunkSize < FileSize[sending]
    BY <2>2, ChunkCounted
  <2>5. FileSize[sending] \in Nat /\ ChunkSize \in Nat \ {0} /\ Capacity \in Nat
    BY <2>2, ConfigAssumption
  <2>6. part < count => part' = part + 1 /\ at' = at
    BY <2>1
  <2>7. ~(part < count) => part = count /\ part' = 0 /\ at' = at + 1
    BY <2>1, <2>2, <2>3, <2>4
  <2>8. length = IF part < count THEN ChunkSize ELSE FileSize[sending] - (part - 1) * ChunkSize
    BY DEF ChunkLength
  <2> HIDE DEF length, count
  <2>9. /\ \A g \in FileNames : g # Step => config'.file[g] = config.file[g]
        /\ config'.text = config.text /\ config'.port = config.port
        /\ config'.console = config.console
    <3>1. CASE Fits(Step, length)
      <4>1. config' = [config EXCEPT !.file[Step].chunks = new.chunks, !.file[Step].size = new.size]
        BY <2>1, <3>1 DEF OnFileChunk
      <4> HIDE DEF new
      <4> QED BY <1>2, <2>1, <4>1, FileChanged
    <3>2. CASE ~Fits(Step, length)  BY <2>1, <3>2 DEF OnFileChunk
    <3> QED BY <3>1, <3>2
  <2>10. ASSUME FileSize[sending] < Capacity
         PROVE  /\ config'.file[Step].chunks = Sent(sending, part)
                /\ part < count => config'.file[Step].size = part * ChunkSize
    <3>1. old.chunks = Sent(sending, part - 1) /\ old.size = (part - 1) * ChunkSize
      BY <2>1, <2>3, <2>10 DEF UnderWay
    <3>2. (part - 1) * ChunkSize + ChunkSize = part * ChunkSize /\ (part - 1) * ChunkSize \in Nat
      BY <2>2, <2>5
    <3>3. /\ old.size + length < Capacity
          /\ part < count => old.size + length = part * ChunkSize
      <4>1. CASE part < count
        <5>1. part <= count - 1  BY <2>2, <2>4, <4>1
        <5>2. part * ChunkSize <= (count - 1) * ChunkSize  BY <2>2, <2>4, <2>5, <5>1
        <5>3. (count - 1) * ChunkSize \in Nat /\ part * ChunkSize \in Nat  BY <2>2, <2>4, <2>5
        <5>4. old.size + length = part * ChunkSize  BY <2>8, <3>1, <3>2, <4>1
        <5> QED BY <2>4, <2>5, <2>10, <5>2, <5>3, <5>4
      <4>2. CASE ~(part < count)
        <5>1. length = FileSize[sending] - (part - 1) * ChunkSize  BY <2>8, <4>2
        <5>2. old.size + length = FileSize[sending]
          <6> DEFINE before == (part - 1) * ChunkSize
          <6>1. before \in Nat  BY <3>2
          <6>2. old.size = before /\ length = FileSize[sending] - before  BY <3>1, <5>1
          <6> HIDE DEF before
          <6> QED BY <2>5, <6>1, <6>2
        <5> QED BY <2>10, <4>2, <5>2
      <4> QED BY <4>1, <4>2
    <3>4. Fits(Step, length)  BY <3>3 DEF Fits
    <3>5. config' = [config EXCEPT !.file[Step].chunks = new.chunks, !.file[Step].size = new.size]
      BY <2>1, <3>4 DEF OnFileChunk
    <3>6. config'.file[Step].chunks = new.chunks /\ config'.file[Step].size = new.size
      <4> HIDE DEF new
      <4> QED BY <1>2, <2>1, <3>5, FileChanged
    <3>7. new.chunks = Sent(sending, part)  BY <2>2, <3>1, SentGrows
    <3> QED BY <3>3, <3>6, <3>7
  <2>11. ASSUME NEW s, s # Step, Written(s) PROVE Written(s)'
    <3>1. ASSUME s \in FileNames PROVE FileWritten(s)'
      BY <2>1, <2>9, <2>11, <3>1 DEF Written, FileWritten
    <3> QED BY <2>1, <2>9, <2>11, <3>1 DEF Written
  <2>12. CASE part < count
    <3>1. Step' = Step  BY <2>6, <2>12 DEF Step
    <3>2. UnderWay'
      <4>1. part' - 1 = part  BY <2>2, <2>6, <2>12
      <4> QED BY <2>1, <2>3, <2>10, <2>12, <3>1, <4>1 DEF UnderWay
    <3>3. part' > 0  BY <2>2, <2>6, <2>12
    <3>4. ASSUME NEW s, Written(s) PROVE Written(s)'
      <4>1. CASE s # Step  BY <2>11, <3>4, <4>1
      <4>2. CASE s = Step
        BY <2>1, <3>1, <3>3, <4>2, StepsDiffer DEF Written, FileWritten
      <4> QED BY <4>1, <4>2
    <3> QED BY <1>0, <1>8, <2>1, <2>6, <2>12, <3>2, <3>4 DEF SaveInv
  <2>13. CASE ~(part < count)
    <3>1. config'.file[Step].chunks = Whole(sending) \/ ~(FileSize[sending] < Capacity)
      BY <2>2, <2>7, <2>10, <2>13, WholeSent DEF count
    <3>2. ASSUME NEW s, Written(s) \/ s = Step PROVE Written(s)'
      <4>1. CASE s = Step
        BY <2>1, <2>3, <3>1, <4>1, StepsDiffer DEF Written, FileWritten
      <4>2. CASE s # Step  BY <2>11, <3>2, <4>2
      <4> QED BY <4>1, <4>2
    <3>3. Step # "bleExit"  BY <2>1, StepsDiffer
    <3> QED BY <1>0, <1>8, <2>1, <2>7, <2>13, <3>2, <3>3, StepDone
  <2> QED BY <2>12, <2>13
<1>9. CASE SaveChunk /\ job' = "saving" /\ again
  <2>1. /\ Step \in FileNames /\ job = "saving" /\ UNCHANGED again
        /\ Answered(at, part + 1) \/ Answered(at + 1, 0)
    BY <1>9 DEF SaveChunk, unwritten
  <2>2. Step # "bleExit"  BY <2>1, StepsDiffer
  <2>3. CASE at' = at  BY <1>0, <1>9, <2>1, <2>3 DEF SaveInv
  <2>4. CASE at' = at + 1 /\ part' = 0
    BY <1>0, <1>9, <2>1, <2>2, <2>4, StepDone
  <2> QED BY <1>9, <2>1, <2>3, <2>4, BreakIdle DEF Answered
<1>10. CASE SaveDone  BY <1>1, <1>10, BreakIdle DEF SaveDone
<1>11. CASE ReadField \/ Connect  BY <1>1, <1>11 DEF ReadField, Connect
<1>12. CASE PressSave
  <2>1. CASE connected /\ job = "idle"
    <3>1. at' = 1 /\ part = 0 /\ part' = 0
      BY <1>0, <1>12, <2>1 DEF PressSave, InFile, TypeOK
    <3>2. 1 \in 1 .. Len(SaveSteps) /\ 1 .. at' - 1 = {}  BY <3>1, SaveStepsWrite
    <3> QED BY <1>0, <3>1, <3>2 DEF SaveInv, UnderWay
  <2>2. CASE ~(connected /\ job = "idle") /\ job = "saving"
    BY <1>0, <1>12, <2>2 DEF PressSave, SaveInv
  <2>3. CASE ~(connected /\ job = "idle") /\ job # "saving"
    BY <1>1, <1>12, <2>3 DEF PressSave
  <2> QED BY <2>1, <2>2, <2>3
<1>13. CASE Edit \/ UNCHANGED vars
  <2>1. UNCHANGED <<job, at, part, sending, obj, again, config, consoleSet>>
    BY <1>13 DEF Edit, vars, hub, client, chain
  <2> QED BY <2>1, SaveKept
<1>14. CASE Disconnect \/ Refused \/ Reload \/ Restart \/ Reset
  BY <1>1, <1>14, BreakIdle DEF Disconnect, Refused, Reload, Restart, Reset, Start
<1>15. CASE Command
  <2>1. UNCHANGED <<job, at, part, sending, obj, again>>  BY <1>15 DEF Command, client, chain
  <2>2. /\ consoleSet' \/ (config'.console = config.console /\ UNCHANGED consoleSet)
        /\ config'.text = config.text /\ config'.port = config.port /\ config'.file = config.file
    <3>1. CASE UNCHANGED <<config, consoleSet>>  BY <3>1
    <3>2. CASE /\ \E v \in IF ble THEN {0} ELSE {0, 1} : config' = [config EXCEPT !.console = v]
               /\ consoleSet' = TRUE
      <4>1. /\ config'.text = config.text /\ config'.port = config.port
            /\ config'.file = config.file
        BY <1>2, <3>2 DEF Settings
      <4>2. consoleSet'  BY <3>2, Zenon
      <4> QED BY <4>1, <4>2, Zenon
    <3> QED BY <1>15, <3>1, <3>2 DEF Command
  <2> QED BY <2>1, <2>2, SaveKept
<1>16. CASE (SaveText \/ SaveConsoleEnabled \/ SavePort \/ ClearFile \/ SaveChunk) /\ job' # "saving"
  BY <1>1, <1>16
<1> QED
  BY <1>3, <1>4, <1>5, <1>6, <1>7, <1>8, <1>9, <1>10, <1>11, <1>12, <1>13, <1>14, <1>15, <1>16
  DEF Next, Save

(* A save that runs to its end leaves in flash what the page showed when   *)
(* Save was pressed, whatever earlier saves left behind, also when nothing *)
(* was marked dirty, unless Save was pressed again meanwhile or            *)
(* set_console_enabled was used; a file only if it was pasted and fits.    *)
THEOREM SavedAsEnteredHolds == Spec => SavedAsEntered
<1>1. Init => SaveInv
  BY DEF Init, SaveInv, InFile
<1>2. TypeOK /\ SaveInv /\ [Next]_vars => SaveInv'  BY SaveInvStep
<1> DEFINE Entered ==
      SaveDone /\ ~again /\ ~consoleSet =>
       LET stored == InUse(flash')
       IN /\ stored.text = obj.text /\ stored.port = obj.port
          /\ (stored.console # 0) = (obj.console # 0)
          /\ \A f \in FileNames :
               obj.file[f] # NoFile /\ FileSize[obj.file[f]] < Capacity =>
                 stored.file[f].chunks = Whole(obj.file[f])
<1>3. TypeOK /\ SaveInv /\ CleanMeansSaved => Entered
  <2> SUFFICES ASSUME TypeOK, SaveInv, CleanMeansSaved, SaveDone, ~again, ~consoleSet
               PROVE  /\ InUse(flash').text = obj.text /\ InUse(flash').port = obj.port
                      /\ (InUse(flash').console # 0) = (obj.console # 0)
                      /\ \A f \in FileNames :
                           obj.file[f] # NoFile /\ FileSize[obj.file[f]] < Capacity =>
                             InUse(flash').file[f].chunks = Whole(obj.file[f])
    OBVIOUS
  <2>1. InUse(flash') = config
    <3>1. flash' = IF dirty THEN [valid |-> TRUE, settings |-> config] ELSE flash
      BY DEF SaveDone, OnExit
    <3>2. CASE dirty  BY <3>1, <3>2 DEF InUse
    <3>3. CASE ~dirty  BY <3>1, <3>3 DEF CleanMeansSaved
    <3> QED BY <3>2, <3>3
  <2>2. job = "saving" /\ Step = "bleExit" /\ part = 0
    BY StepsDiffer DEF SaveDone, Saving, SaveInv, InFile, TypeOK
  <2>3. at = Len(SaveSteps)
    <3>1. at \in 1 .. Len(SaveSteps) /\ SaveSteps[at] = "bleExit"  BY <2>2 DEF SaveInv, Step
    <3> QED BY <3>1, SaveStepsWrite
  <2>4. \A s \in TextFields \union FileNames \union {"consoleEnabled", "mqttPort"} : Written(s)
    <3>1. \A i \in 1 .. Len(SaveSteps) - 1 : Written(SaveSteps[i])  BY <2>2, <2>3 DEF SaveInv
    <3> QED BY <3>1, SaveStepsWrite
  <2>5. \A f \in TextFields : config.text[f] = obj.text[f]  BY <2>4 DEF Written
  <2>6. config.text = obj.text  BY <2>5 DEF TypeOK, Settings, Fields
  <2>7. config.port = obj.port /\ (config.console # 0) = (obj.console # 0)
    BY <2>4 DEF Written
  <2>8. ASSUME NEW f \in FileNames, obj.file[f] # NoFile, FileSize[obj.file[f]] < Capacity
        PROVE  config.file[f].chunks = Whole(obj.file[f])
    BY <2>2, <2>4, <2>8 DEF Written, FileWritten
  <2> QED BY <2>1, <2>6, <2>7, <2>8
<1>4. TypeOK /\ SaveInv /\ CleanMeansSaved /\ [Next]_vars => [Entered]_vars
  BY <1>3
<1> QED BY <1>1, <1>2, <1>4, TypeCorrect, CleanMeansSavedHolds, PTL DEF Spec, SavedAsEntered
===============================================================================
