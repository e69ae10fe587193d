------------------------------ MODULE Channels ------------------------------
(***************************************************************************)
(* The channels of the program over its runs: ChannelManager                *)
(* (src/app/ChannelManager.cpp) with the file it keeps them in              *)
(* (src/infra/persist/JsonChannelRepository.cpp).                           *)
(*                                                                         *)
(* Every operation of the manager runs as one task of the control thread,  *)
(* so each is one action here, its save included.  Between two of them the *)
(* program may end, by the user or by a crash, and be started again on the *)
(* file it left.  The name of a channel is data and left out; an id "ch<n>" *)
(* is its number n.                                                        *)
(***************************************************************************)
EXTENDS Integers, FiniteSets, Sequences, SequencesExt

CONSTANTS Urls,        \* device URLs with an RTSP scheme
          BadUrls,     \* URLs with another scheme
          Settings,    \* what a user enters: [url, auto, relay]
          MaxChannels, \* kDefaultMaxChannels
          FirstFiles,  \* the files there may be before the first run
          MaxId,       \* bound on the numbers of the ids
          MaxCell,     \* bound on the grid cells a channel is dropped on
          MaxLag       \* bound on the saves that fail in a row

ASSUME ChannelsAssumption ==
    /\ MaxChannels \in Nat \ {0} /\ MaxId \in Nat /\ MaxCell \in Nat /\ MaxLag \in Nat
    /\ Settings \subseteq [url : Urls \cup BadUrls, auto : BOOLEAN, relay : BOOLEAN]
    /\ Urls \cap BadUrls = {}

Ids == 1 .. MaxId

VARIABLES running,  \* the program is up and has restored its channels
          entries,  \* ChannelManager::m_entries: the configurations
          ctrl,     \* and the controllers
          refuse,   \* JsonChannelRepository::m_refuseSave
          file,     \* channels.json
          lag       \* ghost: the changes since the last save that succeeded

vars == <<running, entries, ctrl, refuse, file, lag>>

\* A listIndex that an old file does not have.
Missing == -1

IsValidRtspUrl(url) == url \in Urls

\* ChannelConfig: settings with a place in the grid and one in the list.
Config(s, grid, list) ==
    [url |-> s.url, auto |-> s.auto, relay |-> s.relay, grid |-> grid, list |-> list]
InCell(cfg, grid) == Config(cfg, grid, cfg.list)
AtPlace(cfg, list) == Config(cfg, cfg.grid, list)

\* makeEntry: what a controller connects to, and the relay flag it is given.
RelayUrl(id) == <<"relay", id>>
ConnectUrl(id, cfg) == IF cfg.relay THEN RelayUrl(id) ELSE <<"device", cfg.url>>
NewController(id, cfg, open) == [url |-> ConnectUrl(id, cfg), relay |-> cfg.relay, open |-> open]

-----------------------------------------------------------------------------
\* The repository.

\* configs: what is saved, in the order of the grid.
Before(es, a, b) == es[a].grid < es[b].grid \/ (es[a].grid = es[b].grid /\ a < b)
AtRank(es, n) == CHOOSE id \in DOMAIN es : Cardinality({e \in DOMAIN es : Before(es, e, id)}) = n
Configs(es) ==
    [n \in 1 .. Cardinality(DOMAIN es) |->
        [id |-> AtRank(es, n - 1), cfg |-> es[AtRank(es, n - 1)]]]

\* Mutant: the place in the list is not read back.
MutParsed(cfg) == AtPlace(cfg, cfg.grid)
\* load: a file that is missing, damaged or of a later version yields nothing,
\* a listIndex that is missing is taken from the grid.
Parsed(cfg) == IF cfg.list = Missing THEN AtPlace(cfg, cfg.grid) ELSE cfg
Load(f) == IF f.kind = "channels"
           THEN [i \in DOMAIN f.channels |->
                   [id |-> f.channels[i].id, cfg |-> Parsed(f.channels[i].cfg)]]
           ELSE << >>

\* Mutant: a file of a later version is written to.
MutPersist(es) == file' = [kind |-> "channels", channels |-> Configs(es)] /\ lag' = 0
\* persist of the configurations es: the file is replaced as a whole or not at
\* all, and never when a later version was found in it.
Persist(es) ==
    \/ /\ ~refuse
       /\ file' = [kind |-> "channels", channels |-> Configs(es)]
       /\ lag' = 0
    \/ /\ refuse \/ lag < MaxLag
       /\ file' = file
       /\ lag' = IF refuse THEN lag ELSE lag + 1

\* The channels of a file the program or an earlier version of it has written
\* have an id, a cell and a place of their own.
Readable(f) ==
    /\ f.kind \in {"missing", "damaged", "future", "channels"}
    /\ f.kind = "channels" =>
          /\ f.channels \in Seq([id : Ids, cfg : [url : Urls \cup BadUrls, auto : BOOLEAN,
                                   relay : BOOLEAN, grid : Nat, list : Nat \cup {Missing}]])
          /\ \A i, j \in DOMAIN f.channels : i # j =>
                LET a == f.channels[i]
                    b == f.channels[j]
                IN a.id # b.id /\ a.cfg.grid # b.cfg.grid /\ Parsed(a.cfg).list # Parsed(b.cfg).list

ASSUME FilesAssumption == \A f \in FirstFiles : Readable(f)

-----------------------------------------------------------------------------
\* Start and end of a run.

\* restore: entries with a URL of another scheme are skipped, the first
\* MaxChannels of the others are taken.
Restorable(f) == {i \in DOMAIN Load(f) : IsValidRtspUrl(Load(f)[i].cfg.url)}
Taken(f) == {i \in Restorable(f) : Cardinality({j \in Restorable(f) : j < i}) < MaxChannels}
RestoredFrom(f) ==
    [id \in {Load(f)[i].id : i \in Taken(f)} |->
        Load(f)[CHOOSE i \in Taken(f) : Load(f)[i].id = id].cfg]
Restored == RestoredFrom(file)

\* main with or without --connect.
Start == /\ ~running
         /\ running' = TRUE
         /\ entries' = Restored
         /\ \E connect \in BOOLEAN :
              ctrl' = [id \in DOMAIN Restored |->
                         NewController(id, Restored[id], connect \/ Restored[id].auto)]
         /\ refuse' = (file.kind = "future")
         /\ lag' = 0
         /\ UNCHANGED file

\* The program ends, orderly or not: nothing is saved on the way out.
End == /\ running
       /\ running' = FALSE
       /\ entries' = << >>
       /\ ctrl' = << >>
       /\ refuse' = FALSE
       /\ lag' = 0
       /\ UNCHANGED file

-----------------------------------------------------------------------------
\* The operations of the manager.

FirstFree(taken) == CHOOSE n \in 0 .. Cardinality(taken) :
                       n \notin taken /\ \A m \in 0 .. n - 1 : m \in taken
NextGridIndex == FirstFree({entries[id].grid : id \in DOMAIN entries})
NextListIndex == FirstFree({entries[id].list : id \in DOMAIN entries})
NextIdNumber == 1 + (CHOOSE n \in DOMAIN entries \cup {0} : \A id \in DOMAIN entries : id <= n)

\* addChannel, and the connect that main.cpp sends after it.
AddChannel(s) ==
    /\ IsValidRtspUrl(s.url) /\ Cardinality(DOMAIN entries) < MaxChannels
    /\ NextIdNumber \in Ids
    /\ LET id == NextIdNumber
           cfg == Config(s, NextGridIndex, NextListIndex)
           all == DOMAIN entries \cup {id}
       IN /\ entries' = [i \in all |-> IF i = id THEN cfg ELSE entries[i]]
          /\ ctrl' = [i \in all |-> IF i = id THEN NewController(id, cfg, TRUE) ELSE ctrl[i]]
    /\ Persist(entries')

RemoveChannel(id) ==
    /\ id \in DOMAIN entries
    /\ entries' = [i \in DOMAIN entries \ {id} |-> entries[i]]
    /\ ctrl' = [i \in DOMAIN ctrl \ {id} |-> ctrl[i]]
    /\ Persist(entries')

\* Mutants: a change of the mode alone reaches nobody; a new device URL
\* reconnects a relay channel too.
MutUpdatedKeepsMode(id, cfg) ==
    IF ~cfg.relay /\ cfg.url # entries[id].url THEN NewController(id, cfg, TRUE) ELSE ctrl[id]
MutUpdatedReconnects(id, cfg) ==
    IF cfg.relay # entries[id].relay \/ cfg.url # entries[id].url
    THEN NewController(id, cfg, TRUE)
    ELSE ctrl[id]
\* A change of the mode rebuilds the entry; a new device URL reaches the
\* controller of a direct channel only, and reconnects it.
UpdatedController(id, cfg) ==
    IF \/ cfg.relay # entries[id].relay
       \/ ~cfg.relay /\ cfg.url # entries[id].url
    THEN NewController(id, cfg, TRUE)
    ELSE ctrl[id]

UpdateChannel(id, s) ==
    /\ IsValidRtspUrl(s.url) /\ id \in DOMAIN entries
    /\ LET cfg == Config(s, entries[id].grid, entries[id].list)
       IN /\ entries' = [entries EXCEPT ![id] = cfg]
          /\ ctrl' = [ctrl EXCEPT ![id] = UpdatedController(id, cfg)]
    /\ Persist(entries')

SwapGrid(a, b) ==
    /\ a \in DOMAIN entries /\ b \in DOMAIN entries
    /\ entries' = [entries EXCEPT ![a] = InCell(entries[a], entries[b].grid),
                                  ![b] = InCell(entries[b], entries[a].grid)]
    /\ UNCHANGED ctrl
    /\ Persist(entries')

\* Mutant: who sits on the target stays there.
MutMoved(id, cell) == [entries EXCEPT ![id] = InCell(entries[id], cell)]
\* moveGrid: who sits on the target goes to the cell that becomes free.
Moved(id, cell) ==
    [i \in DOMAIN entries |->
        CASE i = id -> InCell(entries[i], cell)
          [] i # id /\ entries[i].grid = cell -> InCell(entries[i], entries[id].grid)
          [] OTHER -> entries[i]]

MoveGrid(id, cell) ==
    /\ id \in DOMAIN entries /\ cell # entries[id].grid
    /\ entries' = Moved(id, cell)
    /\ UNCHANGED ctrl
    /\ Persist(entries')

\* reorderList: the channels of order that exist, then the others as they were.
Reordered(order) ==
    LET Position(id) == IF id \in ToSet(order) THEN CHOOSE i \in DOMAIN order : order[i] = id
                                              ELSE Len(order) + 1 + entries[id].list
    IN [id \in DOMAIN entries |->
          AtPlace(entries[id],
                  Cardinality({e \in DOMAIN entries : Position(e) < Position(id)}))]

ReorderList(order) ==
    /\ entries' = Reordered(order)
    /\ UNCHANGED ctrl
    /\ Persist(entries')

-----------------------------------------------------------------------------
\* The list panel sends the ids it shows, each once; it may be behind.
Orders == UNION {{o \in [1 .. n -> Ids] : IsInjective(o)} : n \in 0 .. MaxId}

Init == /\ running = FALSE
        /\ entries = << >>
        /\ ctrl = << >>
        /\ refuse = FALSE
        /\ file \in FirstFiles
        /\ lag = 0

Operate == \/ \E s \in Settings : AddChannel(s)
           \/ \E id \in Ids : RemoveChannel(id)
           \/ \E id \in Ids, s \in Settings : UpdateChannel(id, s)
           \/ \E a, b \in Ids : SwapGrid(a, b)
           \/ \E id \in Ids, cell \in 0 .. MaxCell : MoveGrid(id, cell)
           \/ \E order \in Orders : ReorderList(order)

Next == \/ Start
        \/ End
        \/ running /\ Operate /\ UNCHANGED <<running, refuse>>

Spec == Init /\ [][Next]_vars
-----------------------------------------------------------------------------
\* What the manager keeps.

ConfigType == [url : Urls \cup BadUrls, auto : BOOLEAN, relay : BOOLEAN,
               grid : Nat, list : Nat]

\* The members have their types; there are never more channels than allowed,
\* after a start from any file included.
TypeOK ==
    /\ running \in BOOLEAN /\ refuse \in BOOLEAN /\ lag \in 0 .. MaxLag
    /\ DOMAIN entries \subseteq Ids /\ Cardinality(DOMAIN entries) <= MaxChannels
    /\ \A id \in DOMAIN entries : entries[id] \in ConfigType
    /\ DOMAIN ctrl = DOMAIN entries
    /\ file.kind \in {"missing", "damaged", "future", "channels"}

\* No two channels share a cell of the grid, and no two a place in the list,
\* whatever is added, removed, dropped on each other, reordered by a list
\* that is out of date, or read back from a file.
PlacesAreDistinct ==
    \A a, b \in DOMAIN entries :
        a # b => entries[a].grid # entries[b].grid /\ entries[a].list # entries[b].list

\* As long as no save failed since, a program started on the file would have
\* the channels this one has (persist after every change).
RestartKeepsChannels == running /\ lag = 0 /\ ~refuse => Restored = entries

\* A controller connects to what its configuration says: to the relay, with
\* the relay flag, in relay mode, else to the device (makeEntry and the three
\* ways of updateChannel).
ConnectionFollowsConfig ==
    \A id \in DOMAIN entries :
        ctrl[id].url = ConnectUrl(id, entries[id]) /\ ctrl[id].relay = entries[id].relay

\* A file of a later version is never written to, in no run and after no
\* restart (m_refuseSave).
LaterFileIsKept == [][file.kind = "future" => UNCHANGED file]_vars

\* Only a change of its own address or mode disturbs the connection of a
\* channel that stays: the places of the tiles, the list and the other
\* channels do not (design R2).
ConnectionsAreLeftAlone ==
    [][running /\ running' =>
        \A id \in DOMAIN entries \cap DOMAIN entries' :
            ConnectUrl(id, entries'[id]) = ConnectUrl(id, entries[id]) => ctrl'[id] = ctrl[id]]_vars
=============================================================================
