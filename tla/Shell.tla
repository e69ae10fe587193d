------------------------------- MODULE Shell --------------------------------
(***************************************************************************)
(* The window and the control thread: what the user sees, and what his     *)
(* commands do, with two queues between them.                              *)
(*                                                                         *)
(*   src/ui/main.cpp                      the commands, the events         *)
(*   src/ui/shell/MainWindow.cpp          their slots, the tabs            *)
(*   src/ui/channels/ChannelListPanel.cpp the list and its dialogs         *)
(*   src/ui/grid/GridView.cpp             the tiles, their menu and layout *)
(*                                                                         *)
(* A command is a task in the queue of the executor; a change comes back   *)
(* as an event in the queue of the UI thread, and is delivered even while  *)
(* a menu or a dialog is open, from its nested event loop.  A channel is   *)
(* its number; its name stands for it in a dialog.  ChannelManager and     *)
(* RecordingController have modules of their own (Channels, Recording):    *)
(* here they are what they tell the window.                                *)
(***************************************************************************)
EXTENDS GridLayout

CONSTANTS MaxId,        \* bound on the numbers of the ids
          FirstChannels, \* the channels restored: id -> [grid, list]
          Views,        \* sizes of the viewport: [width, height]
          ColumnChoices, \* what the column buttons offer; 0 is Auto
          MaxCommands,  \* bound on the inputs of the user
          MaxChanges    \* bound on the changes of connections and recordings

Ids == 1 .. MaxId

ASSUME ShellAssumption ==
    /\ MaxId \in Nat /\ MaxCommands \in Nat /\ MaxChanges \in Nat
    /\ DOMAIN FirstChannels \subseteq Ids
    /\ FirstChannels \in [DOMAIN FirstChannels -> [grid : Nat, list : Nat]]
    /\ Views \subseteq [width : Nat, height : Nat]
    /\ ColumnChoices \subseteq 0 .. 5

RecState == {"Idle", "Starting", "Recording"}
\* Down: what lies between Idle and Streaming, and Failed.
ConnStates == {"Idle", "Down", "Streaming"}

VARIABLES
    entries,  \* ChannelManager: id -> [grid, list]
    conn,     \* the connection of each, as last published
    rec,      \* RecordingController: its state for each id
    tasks,    \* the queue of the executor
    events,   \* the queued calls and signals to the UI thread
    window,   \* MainWindow: m_channels, m_streaming, m_recStates, the tabs
    panel,    \* ChannelListPanel: m_configs and the rows of the widget
    grid,     \* GridView: the tiles, m_lastConfigs, the layout and the tick
    view,     \* the size of the viewport
    dialog,   \* the menu or dialog that is open
    left,     \* commands left
    changes   \* changes left

control == <<entries, conn, rec>>
ui == <<window, panel, grid, view, dialog>>
vars == <<control, tasks, events, ui, left, changes>>

-----------------------------------------------------------------------------
\* The queues.

ListEvent(es) == [kind |-> "list", channels |-> es]
SnapshotEvent(id, s) == [kind |-> "snapshot", id |-> id, state |-> s]
RecordingEvent(id, s) == [kind |-> "recording", id |-> id, state |-> s]

Publish(es) == events' = events \o es

\* The channels in the order of the list.
Earlier(es, a, b) == es[a].list < es[b].list \/ (es[a].list = es[b].list /\ a < b)
ListOrder(es) ==
    [n \in 1 .. Cardinality(DOMAIN es) |->
        CHOOSE id \in DOMAIN es : Cardinality({e \in DOMAIN es : Earlier(es, e, id)}) = n - 1]

With(f, k, v) == [x \in DOMAIN f \cup {k} |-> IF x = k THEN v ELSE f[x]]
Without(f, k) == [x \in DOMAIN f \ {k} |-> f[x]]

-----------------------------------------------------------------------------
(* The control thread: one task, whole. *)

Begin(kind) == tasks # <<>> /\ Head(tasks).kind = kind /\ tasks' = Tail(tasks)
Task == Head(tasks)

\* A command for a channel that is gone, one that changes nothing, or a URL of
\* another scheme.
Ignored == UNCHANGED <<control, events>>

\* addChannel, and connect.
FreePlace(taken) == CHOOSE n \in 0 .. Cardinality(taken) :
                       n \notin taken /\ \A m \in 0 .. n - 1 : m \in taken
NextId == 1 + (CHOOSE n \in DOMAIN entries \cup {0} : \A id \in DOMAIN entries : id <= n)

DoAdd ==
    /\ Begin("add")
    /\ \/ Ignored
       \/ LET place == [grid |-> FreePlace({entries[id].grid : id \in DOMAIN entries}),
                        list |-> FreePlace({entries[id].list : id \in DOMAIN entries})]
          IN /\ NextId \in Ids
             /\ entries' = With(entries, NextId, place)
             /\ conn' = With(conn, NextId, "Down")
             /\ Publish(<<ListEvent(entries'), SnapshotEvent(NextId, "Down")>>)
             /\ UNCHANGED rec

\* disconnect publishes a state that changes.
Disconnected(id) == IF conn[id] = "Idle" THEN <<>> ELSE <<SnapshotEvent(id, "Idle")>>

\* updateChannel: the session may be replaced, the list is always told.
DoUpdate ==
    /\ Begin("update")
    /\ \/ Ignored
       \/ /\ Task.id \in DOMAIN entries
          /\ \/ Publish(<<ListEvent(entries)>>) /\ UNCHANGED conn
             \/ /\ conn' = [conn EXCEPT ![Task.id] = "Down"]
                /\ Publish(Disconnected(Task.id)
                              \o <<SnapshotEvent(Task.id, "Down"), ListEvent(entries)>>)
          /\ UNCHANGED <<entries, rec>>

\* onChannelRemoved: a recording that runs is ended, and its end published.
EndOfRecording(id) == IF rec[id] = "Idle" THEN <<>> ELSE <<RecordingEvent(id, "Idle")>>

\* removeChannel: the source is closed, the entry erased, the list pushed.
RemovalOfEntry(id) == Disconnected(id) \o <<ListEvent(Without(entries, id))>>

\* Mutants: the recording is ended after the channel is gone; it is not ended.
MutRemovalSwapped(id) == RemovalOfEntry(id) \o EndOfRecording(id)
MutRemovalForgetsRecording(id) == RemovalOfEntry(id)
Removal(id) == EndOfRecording(id) \o RemovalOfEntry(id)

\* removeRequested, as main.cpp posts it.
DoRemove ==
    /\ Begin("remove")
    /\ IF Task.id \in DOMAIN entries
       THEN /\ Publish(Removal(Task.id))
            /\ entries' = Without(entries, Task.id)
            /\ conn' = Without(conn, Task.id)
            /\ rec' = [rec EXCEPT ![Task.id] = "Idle"]
       ELSE Ignored

\* moveGrid: who sits on the target goes to the cell that becomes free.
Moved(id, cell) ==
    [i \in DOMAIN entries |->
        CASE i = id -> [entries[i] EXCEPT !.grid = cell]
          [] i # id /\ entries[i].grid = cell -> [entries[i] EXCEPT !.grid = entries[id].grid]
          [] OTHER -> entries[i]]

DoMove ==
    /\ Begin("move")
    /\ IF Task.id \in DOMAIN entries /\ entries[Task.id].grid # Task.cell
       THEN /\ entries' = Moved(Task.id, Task.cell)
            /\ Publish(<<ListEvent(entries')>>)
            /\ UNCHANGED <<conn, rec>>
       ELSE Ignored

\* reorderList: the channels of the order that exist, then the others.
Reordered(order) ==
    LET Position(id) == IF id \in ToSet(order) THEN CHOOSE i \in DOMAIN order : order[i] = id
                                              ELSE Len(order) + 1 + entries[id].list
    IN [id \in DOMAIN entries |->
          [entries[id] EXCEPT !.list =
              Cardinality({e \in DOMAIN entries : Position(e) < Position(id)})]]

\* Mutant: the panel shows the order already, so it is not told.
MutEcho(order) == <<>>
\* notifyList: the panel learns the order that holds.
Echo(order) == <<ListEvent(Reordered(order))>>

DoReorder ==
    /\ Begin("reorder")
    /\ entries' = Reordered(Task.order)
    /\ Publish(Echo(Task.order))
    /\ UNCHANGED <<conn, rec>>

\* toggle: stop what is armed or active, else start; a start that fails, as
\* for a channel that is gone, is published as Idle.
DoToggle ==
    /\ Begin("toggle")
    /\ \E s \in IF rec[Task.id] = "Idle" /\ Task.id \in DOMAIN entries
                THEN RecState ELSE {"Idle"} :
          /\ rec' = [rec EXCEPT ![Task.id] = s]
          /\ Publish(<<RecordingEvent(Task.id, s)>>)
    /\ UNCHANGED <<entries, conn>>

\* snapshotRequested: the state of the recording is sent along, to have the
\* file panel refreshed.
DoCapture ==
    /\ Begin("capture")
    /\ Publish(<<RecordingEvent(Task.id, rec[Task.id])>>)
    /\ UNCHANGED control

Control ==
    /\ DoAdd \/ DoUpdate \/ DoRemove \/ DoMove \/ DoReorder \/ DoToggle \/ DoCapture
    /\ UNCHANGED <<ui, left, changes>>

\* A controller publishes a snapshot: a new state, or other numbers.  Only a
\* command ends Idle, or begins it.
ConnectionChanges ==
    /\ changes > 0 /\ changes' = changes - 1
    /\ \E id \in DOMAIN entries, s \in ConnStates :
          /\ s = "Idle" <=> conn[id] = "Idle"
          /\ conn' = [conn EXCEPT ![id] = s]
          /\ Publish(<<SnapshotEvent(id, s)>>)
    /\ UNCHANGED <<entries, rec, tasks, ui, left>>

\* The tick or an edge of the connection starts, confirms or ends a recording.
RecordingChanges ==
    /\ changes > 0 /\ changes' = changes - 1
    /\ \E id \in DOMAIN entries, s \in RecState :
          /\ s # rec[id]
          /\ rec' = [rec EXCEPT ![id] = s]
          /\ Publish(<<RecordingEvent(id, s)>>)
    /\ UNCHANGED <<entries, conn, tasks, ui, left>>

-----------------------------------------------------------------------------
(* The UI thread: one event. *)

\* updateChannels: new rows, which show the text of Idle until a snapshot comes.
Row(id, text, status) == [id |-> id, text |-> text, status |-> status]
ListedPanel(es) ==
    [configs |-> ListOrder(es),
     rows |-> [i \in DOMAIN ListOrder(es) |-> Row(ListOrder(es)[i], ListOrder(es)[i], "Idle")]]

\* updateStatus: the item at the place the channel has in m_configs is
\* rewritten, whatever row was dragged there meanwhile.
StatusPanel(id, s) ==
    [panel EXCEPT !.rows = [i \in DOMAIN @ |->
        IF panel.configs[i] = id THEN Row(@[i].id, id, s) ELSE @[i]]]

\* relayout: nothing is moved when the layout is the one there is.
Relaid(g, size) ==
    LET cells == {g.configs[id] : id \in DOMAIN g.configs}
        maxIndex == CHOOSE n \in cells \cup {-1} : \A m \in cells : m <= n
        l == Layout(Cardinality(DOMAIN g.configs), maxIndex, g.columns, size)
    IN IF l = g.layout THEN g
       ELSE [g EXCEPT !.layout = l, !.place = Placement(l, g.configs)]

\* The label of a tile is the name, and a state once a snapshot has come.
NewTile == [rec |-> "Idle", label |-> "NameOnly"]
Relabelled(id) == [grid.tiles[id] EXCEPT !.label = "NameOnly"]
TileOf(id) == IF id \in DOMAIN grid.tiles THEN Relabelled(id) ELSE NewTile
\* Tiles of channels that are gone are deleted, tiles that stay keep all but
\* their label.
TilesOf(es) == [id \in DOMAIN es |-> TileOf(id)]

Configured(es, columns) == [grid EXCEPT !.tiles = TilesOf(es),
                                        !.configs = [id \in DOMAIN es |-> es[id].grid],
                                        !.columns = columns]
\* Mutant: the layout that is there is trusted.
MutRebuilt(es, columns) == Relaid(Configured(es, columns), view)
\* rebuild: the cached layout is reset, so every tile is placed anew.
Rebuilt(es, columns) == Relaid([Configured(es, columns) EXCEPT !.layout = NoLayout], view)

\* updateRecordingState: the tick is looked at only when the tile is there.
AnyRecording(tiles) == \E id \in DOMAIN tiles : tiles[id].rec = "Recording"
RecordedGrid(id, s) ==
    IF id \notin DOMAIN grid.tiles THEN grid
    ELSE LET tiles == [grid.tiles EXCEPT ![id].rec = s]
         IN [grid EXCEPT !.tiles = tiles, !.recTick = AnyRecording(tiles)]

Deliver(kind) == events # <<>> /\ Head(events).kind = kind /\ events' = Tail(events)
Event == Head(events)

\* Whatever is open stays open, over a list that may put another channel at the
\* row of the panel that is yet to be read, or delete the tile that is.
Outdates(es) ==
    \/ dialog.kind \in {"minus", "menu"}
    \/ dialog.kind \in {"tile", "confirm"} /\ dialog.row = 0 /\ dialog.id \notin DOMAIN es

\* onChannelList.
OnChannelList ==
    /\ Deliver("list")
    /\ LET es == Event.channels
       IN /\ window' = [window EXCEPT
               !.channels = es,
               !.streaming = [id \in DOMAIN es |-> IF id \in DOMAIN @ THEN @[id] ELSE FALSE],
               !.tabs = [id \in DOMAIN @ \cap DOMAIN es |-> @[id]]]
          /\ panel' = ListedPanel(es)
          /\ grid' = Rebuilt(es, grid.columns)
          /\ dialog' = IF Outdates(es) THEN [dialog EXCEPT !.late = TRUE] ELSE dialog
    /\ UNCHANGED view

OnSnapshot ==
    /\ Deliver("snapshot")
    /\ window' = [window EXCEPT !.streaming = With(@, Event.id, Event.state = "Streaming")]
    /\ panel' = StatusPanel(Event.id, Event.state)
    /\ grid' = IF Event.id \in DOMAIN grid.tiles
               THEN [grid EXCEPT !.tiles[Event.id].label = Event.state]
               ELSE grid
    /\ UNCHANGED <<view, dialog>>

OnRecordingState ==
    /\ Deliver("recording")
    /\ window' = [window EXCEPT
          !.recStates[Event.id] = Event.state,
          !.tabs = [id \in DOMAIN @ |-> IF id = Event.id THEN Event.state ELSE @[id]]]
    /\ grid' = RecordedGrid(Event.id, Event.state)
    /\ UNCHANGED <<panel, view, dialog>>

\* The relayout a resize has put off.
OnRelayout ==
    /\ grid.queued
    /\ grid' = Relaid([grid EXCEPT !.queued = FALSE], view)
    /\ UNCHANGED <<window, panel, view, dialog, events>>

Ui ==
    /\ OnChannelList \/ OnSnapshot \/ OnRecordingState \/ OnRelayout
    /\ UNCHANGED <<control, tasks, left, changes>>

-----------------------------------------------------------------------------
(* The user.  While a menu or a dialog is open he reaches nothing else.    *)

NoDialog == [kind |-> "none"]
Free == dialog = NoDialog
Post(task) == left > 0 /\ left' = left - 1 /\ tasks' = Append(tasks, task)
Stays == UNCHANGED <<control, events, changes>>

\* The buttons and the tiles.
Press(task) == Free /\ Post(task) /\ Stays /\ UNCHANGED ui

PressAdd == Press([kind |-> "add"])
PressRecord == \E id \in DOMAIN grid.tiles : Press([kind |-> "toggle", id |-> id])
PressSnapshot == \E id \in DOMAIN grid.tiles : Press([kind |-> "capture", id |-> id])
DropTile == \E id \in DOMAIN grid.tiles, cell \in Cells(grid.layout) :
                Press([kind |-> "move", id |-> id, cell |-> cell])

\* A row is dragged: the rows move at once, m_configs waits for the echo.
Dragged(rows, i, j) == InsertAt(RemoveAt(rows, i), j, rows[i])
DropRow ==
    /\ Free
    /\ \E i, j \in DOMAIN panel.rows :
          /\ i # j
          /\ panel' = [panel EXCEPT !.rows = Dragged(@, i, j)]
          /\ Post([kind |-> "reorder", order |-> [k \in DOMAIN panel'.rows |-> panel'.rows[k].id]])
    /\ Stays /\ UNCHANGED <<window, grid, view, dialog>>

\* openFullscreenTab: an open tab is brought to the front, a new one takes the
\* state of the recording from the cache.
Tabbed(id) == [window EXCEPT !.tabs = IF id \in DOMAIN @ THEN @
                                      ELSE With(@, id, window.recStates[id])]
DoubleClick ==
    /\ Free /\ left > 0 /\ left' = left - 1
    /\ \E id \in DOMAIN grid.tiles \cup {panel.rows[i].id : i \in DOMAIN panel.rows} :
          window' = Tabbed(id)
    /\ Stays /\ UNCHANGED <<tasks, panel, grid, view, dialog>>
CloseTab ==
    /\ Free
    /\ \E id \in DOMAIN window.tabs :
          window' = [window EXCEPT !.tabs = Without(@, id)]
    /\ Stays /\ UNCHANGED <<tasks, panel, grid, view, dialog, left>>

\* A column button rebuilds the grid; a resize puts the relayout off.
PressColumns ==
    /\ Free /\ left > 0 /\ left' = left - 1
    /\ \E n \in ColumnChoices \ {grid.columns} : grid' = Rebuilt(window.channels, n)
    /\ Stays /\ UNCHANGED <<tasks, window, panel, view, dialog>>
Resize ==
    /\ left > 0 /\ left' = left - 1
    /\ view' \in Views \ {view}
    /\ grid' = [grid EXCEPT !.queued = TRUE]
    /\ Stays /\ UNCHANGED <<tasks, window, panel, dialog>>

-----------------------------------------------------------------------------
(* Menus and dialogs.  `late': what is read of a row or of a tile after a  *)
(* nested event loop need not be what was read before it (Outdates).       *)

Open(d) == dialog' = d /\ Stays /\ UNCHANGED <<tasks, window, panel, grid, view, left>>
Close == dialog' = NoDialog /\ UNCHANGED <<panel, grid, view>>

\* What the list panel finds at a row of m_configs.  Beyond its end it reads a
\* string that was destroyed: any channel.
ConfigAt(row) == IF row \in DOMAIN panel.configs THEN {panel.configs[row]} ELSE Ids

\* The dialog of confirmDelete names a channel; what it removes is read
\* before, from the menu, or after, by the "-" button.
Confirm(id, row, shown, late) ==
    [kind |-> "confirm", id |-> id, row |-> row, shown |-> shown, late |-> late]

PressMinus == Free /\ \E row \in DOMAIN panel.configs :
                Open([kind |-> "minus", row |-> row, shown |-> panel.configs[row], late |-> FALSE])

OpenListMenu == Free /\ \E row \in DOMAIN panel.configs :
                  Open([kind |-> "menu", row |-> row, id |-> panel.configs[row], late |-> FALSE])

\* The menu of a tile holds the tile.  When the list deletes it, what is read
\* of it afterwards is freed memory: the old values, or the end of the program.
OpenTileMenu == Free /\ \E id \in DOMAIN grid.tiles :
                  Open([kind |-> "tile", row |-> 0, id |-> id, late |-> FALSE])

\* "No", a click beside the menu, or an entry that changes nothing here.
Cancel == ~Free /\ Open(NoDialog)

ChooseTab ==
    /\ dialog.kind \in {"menu", "tile"}
    /\ left > 0 /\ left' = left - 1
    /\ window' = Tabbed(dialog.id)
    /\ Close /\ Stays /\ UNCHANGED tasks
ChooseOfTile ==
    /\ dialog.kind = "tile"
    /\ \E kind \in {"toggle", "capture"} : Post([kind |-> kind, id |-> dialog.id])
    /\ Close /\ Stays /\ UNCHANGED window
\* openEditDialog looks the channel up, and keeps its id while it is open.
ChooseEdit ==
    /\ dialog.kind \in {"menu", "tile"}
    /\ dialog.id \in DOMAIN window.channels
    /\ Open([kind |-> "edit", id |-> dialog.id])
ChooseRemove ==
    \/ /\ dialog.kind = "menu"
       /\ \E shown \in ConfigAt(dialog.row) : Open(Confirm(dialog.id, dialog.row, shown, dialog.late))
    \/ /\ dialog.kind = "tile"
       /\ Open(Confirm(dialog.id, 0, dialog.id, dialog.late))

Accept ==
    /\ dialog.kind = "edit"
    /\ Post([kind |-> "update", id |-> dialog.id])
    /\ Close /\ Stays /\ UNCHANGED window

\* Mutant: the row is read after the confirmation, by the menu too.
MutRemoved == ConfigAt(dialog.row)
\* What is removed: the menu has kept an id, the "-" button a row.
Removed == IF dialog.kind = "confirm" THEN {dialog.id} ELSE ConfigAt(dialog.row)

\* removeRequested, with what the user was shown.
RemoveTask(id) == [kind |-> "remove", id |-> id, shown |-> dialog.shown, late |-> dialog.late]
SayYes ==
    /\ dialog.kind \in {"confirm", "minus"}
    /\ \E id \in Removed : Post(RemoveTask(id))
    /\ Close /\ Stays /\ UNCHANGED window

User ==
    \/ PressAdd \/ PressRecord \/ PressSnapshot \/ DropTile \/ DropRow
    \/ DoubleClick \/ CloseTab \/ PressColumns \/ Resize
    \/ PressMinus \/ OpenListMenu \/ OpenTileMenu \/ Cancel
    \/ ChooseTab \/ ChooseOfTile \/ ChooseEdit \/ ChooseRemove \/ Accept \/ SayYes

-----------------------------------------------------------------------------
\* restore has run: its list is on the way to an empty window, which has no row
\* or tile for the snapshots sent before it.
Init ==
    /\ entries = FirstChannels
    /\ conn \in [DOMAIN FirstChannels -> {"Idle", "Down"}]
    /\ rec = [id \in Ids |-> "Idle"]
    /\ tasks = <<>>
    /\ events = <<ListEvent(FirstChannels)>>
    /\ window = [channels |-> <<>>, streaming |-> <<>>,
                 recStates |-> [id \in Ids |-> "Idle"], tabs |-> <<>>]
    /\ panel = [configs |-> <<>>, rows |-> <<>>]
    /\ grid = [tiles |-> <<>>, configs |-> <<>>, columns |-> 0, layout |-> NoLayout,
               place |-> <<>>, recTick |-> FALSE, queued |-> FALSE]
    /\ view \in Views
    /\ dialog = NoDialog
    /\ left = MaxCommands
    /\ changes = MaxChanges

Next == Control \/ ConnectionChanges \/ RecordingChanges \/ Ui \/ User

Spec == Init /\ [][Next]_vars

-----------------------------------------------------------------------------
\* The members have their types, and the window is of one piece: a row for
\* every configuration of the panel, tile, place and connection for every
\* channel.
TypeOK ==
    /\ \A id \in DOMAIN entries : id \in Ids /\ entries[id] \in [grid : Nat, list : Nat]
    /\ conn \in [DOMAIN entries -> ConnStates] /\ rec \in [Ids -> RecState]
    /\ DOMAIN window.channels \subseteq DOMAIN window.streaming
    /\ window.recStates \in [Ids -> RecState]
    /\ DOMAIN window.tabs \subseteq Ids
    /\ Len(panel.rows) = Len(panel.configs) /\ ToSet(panel.configs) = DOMAIN window.channels
    /\ DOMAIN grid.tiles = DOMAIN window.channels /\ DOMAIN grid.configs = DOMAIN grid.tiles
    /\ view \in Views

\* Both queues are empty.
Quiet == tasks = <<>> /\ events = <<>>

\* The alarm of the status bar: channels, and none that streams.
Alarm == DOMAIN window.channels # {} /\ \A id \in DOMAIN window.channels : ~window.streaming[id]

\* When nothing is on the way the window shows the channels that are, their
\* order in the list with each row about its own channel, and in the status
\* bar whether none of them streams; and what a tile says of its connection is
\* true.  What a row says is true too, with one exception the code makes: every
\* list writes "Idle" into all rows (ChannelListPanel.cpp:250), whatever their
\* channels do, and it stays there until the next snapshot of each; until then
\* its tile shows no state.
QuietMeansCurrent ==
    Quiet =>
        /\ window.channels = entries
        /\ panel.configs = ListOrder(entries)
        /\ \A i \in DOMAIN panel.rows :
              LET id == panel.configs[i]
                  label == grid.tiles[id].label
              IN /\ panel.rows[i].id = id /\ panel.rows[i].text = id
                 /\ label \in {"NameOnly", conn[id]}
                 /\ \/ panel.rows[i].status = conn[id]
                    \/ panel.rows[i].status = "Idle" /\ label = "NameOnly"
        /\ Alarm = (entries # <<>> /\ \A id \in DOMAIN entries : conn[id] # "Streaming")

\* Tile, tab and cache never disagree about a recording, and when nothing is on
\* the way they show what the controller does, for a channel that reuses the
\* id of a removed one too.
RecordingIsShown ==
    /\ \A id \in DOMAIN grid.tiles : grid.tiles[id].rec = window.recStates[id]
    /\ \A id \in DOMAIN window.tabs : window.tabs[id] = window.recStates[id]
    /\ Quiet => \A id \in DOMAIN entries : window.recStates[id] = rec[id]

\* The elapsed times tick exactly while a tile records: updateRecordingState
\* is the only place that starts or stops the tick, and a tile that is
\* deleted while it records would leave it running.
TickFollowsTiles == grid.recTick <=> AnyRecording(grid.tiles)

\* Every channel of the window has its tile in the cell of its gridIndex, so a
\* drop reaches the channel that is seen there, also while a resize waits for
\* its relayout.
TilesSitOnTheirCells ==
    /\ grid.place = [id \in DOMAIN window.channels |-> window.channels[id].grid]
    /\ \A id \in DOMAIN grid.place : grid.place[id] \in Cells(grid.layout)

\* A confirmed removal removes the channel the dialog named ("U1": delete
\* confirmation), whatever lists arrive while the dialog of a menu is open.
\* Where the code reads the id and the name on two sides of a nested event loop
\* nothing is promised once a list has arrived between them: the "-" button,
\* which reads the id of a row after its dialog, the menu of the list, which
\* reads the name after the menu, and a tile the list has deleted.
ConfirmationHolds ==
    \A i \in DOMAIN tasks :
        tasks[i].kind = "remove" /\ ~tasks[i].late => tasks[i].id = tasks[i].shown
=============================================================================
