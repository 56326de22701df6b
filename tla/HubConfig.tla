------------------------------- MODULE HubConfig -------------------------------
(***************************************************************************)
(* Settings of the hub: the copy in use, the copy in flash, the BLE        *)
(* characteristics with their callbacks, and the configuration page, which *)
(* reads the fields one by one, lets the user edit them and writes them    *)
(* back one by one; certificate and key go in chunks, twice.  The link     *)
(* breaks and the hub restarts at any point.                               *)
(* Simplifications: texts fit their arrays; the page is connected to a hub *)
(* only while it is disconnected; GATT refuses a second operation while    *)
(* one is under way, as browsers do; a commit of flash is one step.        *)
(***************************************************************************)
EXTENDS Integers, Sequences

CONSTANTS CoreFields, MqttFields,  \* the texts of the two services, in page order
          FileFields,              \* certificate and key, in page order
          Texts, DefaultText,      \* values of the texts
          Ports, DefaultPort,      \* values of mqttPort
          Files,                   \* certificates and keys that the user may paste
          NoFile,                  \* an empty text area
          FileSize,                \* FileSize[f]: length of f
          ChunkSize,               \* 100 characters
          Capacity,                \* sizeof - 1 of the array for a file
          MaxEdits, MaxBreaks, MaxCommands  \* bounds; MaxBreaks of refusals too

TextFields == {CoreFields[i] : i \in DOMAIN CoreFields} \union
              {MqttFields[i] : i \in DOMAIN MqttFields}
FileNames == {FileFields[i] : i \in DOMAIN FileFields}

MaxPort == 65535  \* of a port in the two bytes that the page writes

ASSUME ConfigAssumption ==
  /\ CoreFields \in Seq(STRING) /\ MqttFields \in Seq(STRING) /\ FileFields \in Seq(STRING)
  /\ TextFields \intersect FileNames = {}
  /\ {"consoleEnabled", "mqttPort", "bleExit"} \intersect (TextFields \union FileNames) = {}
  /\ DefaultText \in Texts /\ DefaultPort \in Ports
  /\ Ports \subseteq 0 .. MaxPort
  /\ NoFile \notin Files /\ FileSize \in [Files -> Nat \ {0}]
  /\ ChunkSize \in Nat \ {0} /\ Capacity \in Nat
  /\ MaxEdits \in Nat /\ MaxBreaks \in Nat /\ MaxCommands \in Nat

VARIABLES
  ble,        \* BLE advertises
  config,     \* the settings in use
  dirty,
  flash,      \* what EEPROM.commit stored, and whether its version is ours
  chars,      \* the characteristics' values, as the page would decode them
  portWritten,  \* mqttPort's characteristic holds the page's bytes, not setValue's
  restart,    \* swReboot and bleMode: "none", "normal" or "ble"
  connected,  \* the page is connected to the hub
  job,        \* the page's chain of promises: "idle", "reading" or "saving"
  at, part,   \* its step, and the chunk within a file
  sending,    \* the file that writeCharacteristicsInChunks was called with
  page,       \* the fields of the page
  obj,        \* the same properties of sensaurusBle
  loaded,     \* the Save button is enabled
  again,      \* history: Save was pressed while the chain was at work
  refused,    \* history: an operation of the last chain failed with the link up
  cut,        \* history: a file was broken off, saved halfway, or did not fit
  consoleSet, \* history: set_console_enabled was used since the hub started
  edits, breaks, commands  \* counted against their bounds

hub == <<ble, config, dirty, flash, chars, portWritten, restart>>
chain == <<job, at, part, sending>>
client == <<connected, chain, page, obj, loaded, again, refused>>
counts == <<edits, breaks, commands>>
vars == <<hub, client, cut, consoleSet, counts>>

-----------------------------------------------------------------------------
(* Data *)

\* toBytesInt16 is big endian, setValue(int) and Int16Array are little endian;
\* numbers modulo 2^16, as setUint16 takes them.
SwapBytes(n) == (n % 256) * 256 + n \div 256

EmptyText == ""

NoText == [chunks |-> << >>, size |-> 0]

Defaults == [text |-> [f \in TextFields |-> DefaultText], console |-> 1, port |-> DefaultPort,
             file |-> [f \in FileNames |-> NoText]]

Blank == [text |-> [f \in TextFields |-> EmptyText], console |-> 0, port |-> 0,
          file |-> [f \in FileNames |-> NoFile]]

\* What initConfig() makes of the flash.
InUse(stored) == IF stored.valid THEN stored.settings ELSE Defaults

\* What startBLE() sets the characteristics to; those of files cannot be read.
Served(settings) ==
  [text |-> settings.text, console |-> settings.console, port |-> settings.port]

ChunkCount(file) == (FileSize[file] + ChunkSize - 1) \div ChunkSize

ChunkLength(file, k) ==
  IF k < ChunkCount(file) THEN ChunkSize ELSE FileSize[file] - (k - 1) * ChunkSize

Whole(file) == [k \in 1 .. ChunkCount(file) |-> <<file, k>>]

SaveSteps == CoreFields \o <<"consoleEnabled">> \o FileFields
             \o MqttFields \o <<"mqttPort">> \o FileFields \o <<"bleExit">>

ReadSteps == CoreFields \o <<"consoleEnabled">> \o MqttFields \o <<"mqttPort">>

Init ==
  /\ flash \in [valid : BOOLEAN,
                settings : {[Defaults EXCEPT !.text = [f \in TextFields |-> t]] : t \in Texts}]
  /\ config = InUse(flash) /\ dirty = FALSE
  /\ ble \in BOOLEAN /\ chars = Served(config) /\ portWritten = FALSE /\ restart = "none"
  /\ connected = FALSE /\ job = "idle" /\ at = 0 /\ part = 0 /\ sending = NoFile
  /\ page = Blank /\ obj = Blank /\ loaded = FALSE /\ again = FALSE /\ refused = FALSE
  /\ cut = FALSE /\ consoleSet = FALSE
  /\ edits = 0 /\ breaks = 0 /\ commands = 0

-----------------------------------------------------------------------------
(* The hub's callbacks: each one's effect on config, dirty and characteristics *)

(* Mutant: each callback says anew whether there is something to save.     *)
StoreAnew(new) ==
  /\ config' = new
  /\ dirty' = (new # config)

\* A callback stores what differs and marks it.
Store(new) ==
  /\ config' = new
  /\ dirty' = (dirty \/ new # config)

OnText(f) ==
  /\ chars' = [chars EXCEPT !.text[f] = obj.text[f]]
  /\ Store([config EXCEPT !.text[f] = obj.text[f]])
  /\ UNCHANGED portWritten

(* Mutant: the callback looks at the first of the two bytes only.          *)
OnConsoleFirstByte ==
  /\ chars' = [chars EXCEPT !.console = SwapBytes(obj.console)]
  /\ Store([config EXCEPT !.console = IF obj.console \div 256 # 0 THEN 1 ELSE 0])
  /\ UNCHANGED portWritten

OnConsoleEnabled ==
  /\ chars' = [chars EXCEPT !.console = SwapBytes(obj.console)]
  /\ Store([config EXCEPT !.console = IF obj.console # 0 THEN 1 ELSE 0])
  /\ UNCHANGED portWritten

OnPort ==
  /\ chars' = [chars EXCEPT !.port = SwapBytes(obj.port)] /\ portWritten' = TRUE
  /\ Store([config EXCEPT !.port = obj.port])

(* Mutant: "clear" is lost.                                                *)
OnFileClearLost(f) ==
  /\ dirty' = TRUE
  /\ UNCHANGED <<config, chars, portWritten>>

\* "clear"
OnFileClear(f) ==
  /\ config' = [config EXCEPT !.file[f] = NoText]
  /\ dirty' = TRUE
  /\ UNCHANGED <<chars, portWritten>>

Fits(f, length) == config.file[f].size + length < Capacity

\* strcat, unless the result would not fit: then nothing is stored.
OnFileChunk(f, chunk, length) ==
  /\ config' = IF Fits(f, length)
                 THEN [config EXCEPT !.file[f].chunks = Append(@, chunk),
                                     !.file[f].size = @ + length]
                 ELSE config
  /\ dirty' = TRUE
  /\ UNCHANGED <<chars, portWritten>>

(* Mutant: the hub restarts only if it has saved something.                *)
OnExitIfDirty ==
  /\ flash' = IF dirty THEN [valid |-> TRUE, settings |-> config] ELSE flash
  /\ restart' = IF dirty THEN "normal" ELSE restart
  /\ UNCHANGED <<ble, config, dirty, chars, portWritten>>

OnExit ==
  /\ flash' = IF dirty THEN [valid |-> TRUE, settings |-> config] ELSE flash
  /\ restart' = "normal"
  /\ UNCHANGED <<ble, config, dirty, chars, portWritten>>

-----------------------------------------------------------------------------
(* The page: each step of a chain is one GATT operation *)

Break ==
  /\ breaks < MaxBreaks /\ breaks' = breaks + 1
  /\ connected' = FALSE
  /\ job' = "idle" /\ at' = 0 /\ part' = 0

\* An operation fails while the link stays up.  Nothing retries it: the chain
\* ends there, and the promise of saveSettings() is rejected or never settled.
Refuse ==
  /\ breaks < MaxBreaks /\ breaks' = breaks + 1
  /\ refused' = TRUE
  /\ job' = "idle" /\ at' = 0 /\ part' = 0
  /\ UNCHANGED connected

\* A write reaches the hub: it is answered and the chain goes on, or the link
\* breaks before the answer, or the page is told that the write failed.
Answered(nextAt, nextPart) ==
  \/ at' = nextAt /\ part' = nextPart /\ UNCHANGED <<connected, job, refused, breaks>>
  \/ Break /\ UNCHANGED refused
  \/ Refuse

Step == SaveSteps[at]

Saving(S) == job = "saving" /\ Step \in S

unwritten == <<ble, flash, restart, page, obj, loaded, again, consoleSet, edits, commands>>

SaveText ==
  /\ Saving(TextFields) /\ OnText(Step) /\ Answered(at + 1, 0)
  /\ UNCHANGED <<unwritten, sending, cut>>

SaveConsoleEnabled ==
  /\ Saving({"consoleEnabled"}) /\ OnConsoleEnabled /\ Answered(at + 1, 0)
  /\ UNCHANGED <<unwritten, sending, cut>>

SavePort ==
  /\ Saving({"mqttPort"}) /\ OnPort /\ Answered(at + 1, 0)
  /\ UNCHANGED <<unwritten, sending, cut>>

\* writeChunkedCharacteristics() leaves out an empty file ...
SkipFile ==
  /\ Saving(FileNames) /\ part = 0 /\ obj.file[Step] = NoFile
  /\ at' = at + 1
  /\ UNCHANGED <<unwritten, config, dirty, chars, portWritten, connected, job, part, sending,
                 refused, cut, breaks>>

\* ... and takes the one it sends as an argument, whatever obj becomes.
ClearFile ==
  /\ Saving(FileNames) /\ part = 0 /\ obj.file[Step] # NoFile
  /\ sending' = obj.file[Step]
  /\ OnFileClear(Step) /\ Answered(at, 1)
  /\ UNCHANGED <<unwritten, cut>>

SaveChunk ==
  /\ Saving(FileNames) /\ part > 0
  /\ OnFileChunk(Step, <<sending, part>>, ChunkLength(sending, part))
  /\ IF part < ChunkCount(sending) THEN Answered(at, part + 1) ELSE Answered(at + 1, 0)
  /\ cut' = (cut \/ ~Fits(Step, ChunkLength(sending, part))
                  \/ (job' = "idle" /\ part < ChunkCount(sending)))
  /\ UNCHANGED <<unwritten, sending>>

\* The last write of a save: the command that saves and restarts.
SaveDone ==
  /\ Saving({"bleExit"}) /\ OnExit
  /\ \/ job' = "idle" /\ at' = 0 /\ UNCHANGED <<connected, part, refused, breaks>>
     \/ Break /\ UNCHANGED refused
     \/ Refuse
  /\ UNCHANGED <<page, obj, loaded, again, sending, cut, consoleSet, edits, commands>>

\* One field; after the last one the fields of the page are set.
ReadField ==
  /\ job = "reading"
  /\ LET f == ReadSteps[at]
     IN obj' = IF f = "consoleEnabled" THEN [obj EXCEPT !.console = chars.console]
               ELSE IF f = "mqttPort" THEN [obj EXCEPT !.port = chars.port]
               ELSE [obj EXCEPT !.text[f] = chars.text[f]]
  /\ IF at < Len(ReadSteps)
       THEN at' = at + 1 /\ UNCHANGED <<job, page, loaded>>
       ELSE /\ at' = 0 /\ job' = "idle" /\ loaded' = TRUE
            /\ page' = [obj' EXCEPT !.file = page.file]
  /\ UNCHANGED <<hub, connected, part, sending, again, refused, cut, consoleSet, counts>>

\* "Select Hub" or "Reconnect"
Connect ==
  /\ ble /\ ~connected
  /\ connected' = TRUE /\ job' = "reading" /\ at' = 1 /\ again' = FALSE /\ refused' = FALSE
  /\ UNCHANGED <<hub, part, sending, page, obj, loaded, cut, consoleSet, counts>>

\* Save copies the fields at once, also when the chain it starts has to
\* give up since the page is not connected or another chain is at work.
PressSave ==
  /\ loaded
  /\ obj' = page
  /\ IF connected /\ job = "idle"
       THEN job' = "saving" /\ at' = 1 /\ again' = FALSE /\ refused' = FALSE
       ELSE again' = (again \/ job # "idle") /\ UNCHANGED <<job, at, refused>>
  /\ UNCHANGED <<hub, connected, part, sending, page, loaded, cut, consoleSet, counts>>

Edit ==
  /\ loaded /\ edits < MaxEdits /\ edits' = edits + 1
  /\ \/ \E f \in TextFields, t \in Texts : page' = [page EXCEPT !.text[f] = t]
     \/ \E v \in {0, 1} : page' = [page EXCEPT !.console = v]
     \/ \E p \in Ports : page' = [page EXCEPT !.port = p]
     \/ \E f \in FileNames, c \in Files : page' = [page EXCEPT !.file[f] = c]
  /\ UNCHANGED <<hub, connected, chain, obj, loaded, again, refused, cut, consoleSet, breaks,
                 commands>>

\* The link breaks between two operations, or in one that the hub misses.
Disconnect ==
  /\ connected /\ Break
  /\ cut' = (cut \/ part > 0)
  /\ UNCHANGED <<hub, sending, page, obj, loaded, again, refused, consoleSet, edits, commands>>

\* A read or a write fails with the link up and has not reached the hub.
Refused ==
  /\ job # "idle" /\ Refuse
  /\ cut' = (cut \/ part > 0)
  /\ UNCHANGED <<hub, sending, page, obj, loaded, again, consoleSet, edits, commands>>

Reload ==
  /\ loaded /\ Break
  /\ page' = Blank /\ obj' = Blank /\ loaded' = FALSE
  /\ cut' = (cut \/ part > 0)
  /\ UNCHANGED <<hub, sending, again, refused, consoleSet, edits, commands>>

-----------------------------------------------------------------------------
(* Restarts and commands *)

\* setup() with initConfig() and, in BLE mode, startBLE(); every link breaks.
Start(inBle) ==
  /\ ble' = inBle
  /\ config' = InUse(flash) /\ dirty' = FALSE
  /\ chars' = Served(config') /\ portWritten' = FALSE
  /\ restart' = "none" /\ consoleSet' = FALSE
  /\ connected' = FALSE /\ job' = "idle" /\ at' = 0 /\ part' = 0
  /\ UNCHANGED <<flash, sending, page, obj, loaded, again, refused, cut, edits>>

\* loop() sees swReboot.
Restart ==
  /\ restart # "none" /\ Start(restart = "ble")
  /\ UNCHANGED <<breaks, commands>>

\* The button, the restart button, or the power.
Reset ==
  /\ breaks < MaxBreaks /\ breaks' = breaks + 1
  /\ \E inBle \in BOOLEAN : Start(inBle)
  /\ UNCHANGED commands

\* Commands of the console and the server, which do not look at dirty.
Command ==
  /\ commands < MaxCommands /\ commands' = commands + 1
  /\ \/ /\ \E mode \in {"normal", "ble"} : restart' = mode
        /\ UNCHANGED <<ble, config, flash, chars, portWritten, cut, consoleSet>>
     \/ /\ flash' = [valid |-> TRUE, settings |-> config]   \* "w"
        /\ cut' = (cut \/ part > 0)
        /\ UNCHANGED <<ble, config, chars, portWritten, restart, consoleSet>>
     \/ /\ \E v \in IF ble THEN {0} ELSE {0, 1} : config' = [config EXCEPT !.console = v]
        /\ consoleSet' = TRUE
        /\ UNCHANGED <<ble, flash, chars, portWritten, restart, cut>>
     \/ /\ ~ble /\ ble' = TRUE   \* "start_ble"
        /\ chars' = Served(config) /\ portWritten' = FALSE
        /\ UNCHANGED <<config, flash, restart, cut, consoleSet>>
  /\ UNCHANGED <<dirty, client, edits, breaks>>

Save == SaveText \/ SaveConsoleEnabled \/ SavePort \/ SkipFile \/ ClearFile \/ SaveChunk \/ SaveDone

Next ==
  \/ Save \/ ReadField \/ Connect \/ PressSave \/ Edit \/ Disconnect \/ Refused \/ Reload
  \/ Restart \/ Reset \/ Command

\* Operations end, one way or the other, and loop() runs.
Spec == Init /\ [][Next]_vars /\ WF_vars(Save) /\ WF_vars(Restart)

-----------------------------------------------------------------------------
Words == Texts \union {EmptyText}
PortNumbers == 0 .. MaxPort

Settings == [text : [TextFields -> Words], console : {0, 1}, port : PortNumbers,
             file : [FileNames -> [chunks : Seq(Files \X Nat), size : Int]]]
Shown == [text : [TextFields -> Words], console : {0, 1, 256}, port : PortNumbers]
Fields == [text : [TextFields -> Words], console : {0, 1, 256}, port : PortNumbers,
           file : [FileNames -> Files \union {NoFile}]]

\* strcat never runs over the end of an array, its 0 included.
FilesFit(settings) ==
  \A f \in FileNames : settings.file[f].size = 0 \/ settings.file[f].size < Capacity

(* The settings in use and in flash, what BLE shows and what the page      *)
(* holds are of their types, files fit their arrays, and a chain is at     *)
(* work only while the page is connected.                                  *)
TypeOK ==
  /\ config \in Settings /\ FilesFit(config)
  /\ flash \in [valid : BOOLEAN, settings : Settings] /\ FilesFit(flash.settings)
  /\ chars \in Shown /\ page \in Fields /\ obj \in Fields
  /\ ble \in BOOLEAN /\ dirty \in BOOLEAN /\ connected \in BOOLEAN
  /\ loaded \in BOOLEAN /\ again \in BOOLEAN /\ cut \in BOOLEAN /\ consoleSet \in BOOLEAN
  /\ portWritten \in BOOLEAN /\ refused \in BOOLEAN
  /\ restart \in {"none", "normal", "ble"} /\ job \in {"idle", "reading", "saving"}
  /\ job # "idle" => connected
  /\ connected => ble
  /\ at \in Nat /\ part \in Nat /\ sending \in Files \union {NoFile}
  /\ part > 0 => sending \in Files
  /\ edits \in 0 .. MaxEdits /\ breaks \in 0 .. MaxBreaks /\ commands \in 0 .. MaxCommands

(* "indicates if settings have been modified and need to be saved": after  *)
(* any writes, breaks and restarts, settings not marked dirty are those    *)
(* that the next start will use, but for set_console_enabled.              *)
CleanMeansSaved == ~dirty /\ ~consoleSet => config = InUse(flash)

(* A save that runs to its end leaves in flash what the page showed when   *)
(* Save was pressed, whatever earlier saves broke off halfway, unless Save *)
(* was pressed again meanwhile; a file only if it was pasted and fits.     *)
SavedAsEntered ==
  [][SaveDone /\ ~again /\ ~consoleSet =>
       LET stored == InUse(flash')
       IN /\ stored.text = obj.text /\ stored.port = obj.port
          /\ (stored.console # 0) = (obj.console # 0)
          /\ \A f \in FileNames :
               obj.file[f] # NoFile /\ FileSize[obj.file[f]] < Capacity =>
                 stored.file[f].chunks = Whole(obj.file[f])
    ]_vars

(* A certificate or key in flash is a whole one, unless a save was broken  *)
(* off or interrupted by "w" within a file, or the file did not fit.       *)
FilesWhole ==
  ~cut => \A f \in FileNames :
            flash.settings.file[f].chunks \in {<< >>} \union {Whole(c) : c \in Files}

(* "the fields will populate with current values from the hub"             *)
(* (README.md): when the page has read the hub, its fields show the texts, *)
(* the console flag and the port in use, after any writes before, unless   *)
(* Save was pressed meanwhile.  The code does not keep this for a port     *)
(* that was written since BLE began to serve: that one shows with its two  *)
(* bytes swapped, and no other port does.  An enabled console may show as  *)
(* 256; set_console_enabled does not reach the characteristic.             *)
FieldsCurrent ==
  [][ReadField /\ job' = "idle" /\ ~again =>
       /\ page'.text = config.text
       /\ ~consoleSet => (page'.console # 0) = (config.console # 0)
       /\ page'.port = IF portWritten THEN SwapBytes(config.port) ELSE config.port]_vars

(* Save ends in a restart, also when nothing has changed, or in a break,   *)
(* or with an operation that failed while the link stayed up: then nothing *)
(* follows, neither "bleExit" nor another try.                             *)
SaveEndsInRestart == [](job = "saving" => <>(~connected \/ refused))
=============================================================================
