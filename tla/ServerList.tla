------------------------------ MODULE ServerList ------------------------------
(***************************************************************************)
(* The viewer's list of servers (PiTVDesktopViewer.cpp, EditServerDialog), *)
(* the file that keeps it (ServerConfigStorage.cpp) and the status answers *)
(* that are shown beside its items.                                        *)
(*                                                                         *)
(* An item is the address of a QListWidgetItem.  An answer that is under   *)
(* way holds such an address; the item may be deleted meanwhile, and the   *)
(* address given to another item.  Every click is handled to its end, but  *)
(* the edit dialog runs an event loop of its own, in which answers arrive, *)
(* and saving truncates the file before it writes it.                      *)
(***************************************************************************)
EXTENDS Naturals, Sequences, SequencesExt, Bags

CONSTANTS Address,       \* where list items may be allocated
          Server,        \* what a user enters but for the path of the CA
          NoDialog, NewServer,
          Missing, Torn, \* no file, and one that is truncated or half written
          NotSaving,
          EncryptFails, DecryptFails,  \* may the encryption of passwords fail?
          OpenFails, WriteFails,       \* may the file not open, or the disk be full?
          MaxServers,    \* bound: length of the list
          MaxReplies     \* bound: answers under way

Config == [server : Server, ca : BOOLEAN]   \* ca: its CA file exists
NoConfig == [server |-> "none", ca |-> FALSE]
Unknown == [result |-> "unknown", about |-> NoConfig]

ASSUME ListAssumption ==
    /\ {NoDialog, NewServer} \cap Address = {} /\ NoDialog # NewServer
    /\ "none" \notin Server
    /\ EncryptFails \in BOOLEAN /\ DecryptFails \in BOOLEAN
    /\ OpenFails \in BOOLEAN /\ WriteFails \in BOOLEAN
    /\ MaxServers \in Nat /\ MaxReplies \in Nat
    /\ \A s \in {Missing, Torn, NotSaving} : s \notin BoundedSeq(Config, MaxServers)

VARIABLES running,
          list,       \* serverListWidget: the items in their order
          data,       \* what items hold (Qt::UserRole)
          shown,      \* icon and text of items, and what they were asked for
          replies,    \* serverStatusReplyMap: items and configurations, with multiplicity
          dialog,     \* the item that is edited, or a new one
          disk,       \* servers.json
          saving,     \* what is about to be written into the truncated file
          told,       \* did the last load or save end with a message?
          unread,     \* was the file that is there not opened by the last
                      \* load, and nothing saved since?
          hasty       \* was an item changed or removed, since the program
                      \* started, while answers about it were under way?

listVars == <<running, list, data, shown, replies, dialog, disk, saving, told, unread, hasty>>

-------------------------------------------------------------------------------
ConfigsOf(l, d) == [i \in DOMAIN l |-> d[l[i]]]

ItemStatus == {Unknown} \cup [result : {"success", "failure"}, about : Config]

ListTypeOK ==
    /\ running \in BOOLEAN /\ told \in BOOLEAN
    /\ unread \in BOOLEAN /\ hasty \in BOOLEAN
    /\ list \in BoundedSeq(Address, MaxServers) /\ IsInjective(list)
    /\ data \in [Address -> Config \cup {NoConfig}]
    /\ \A a \in Address : data[a] = NoConfig <=> a \notin ToSet(list)
    /\ shown \in [Address -> ItemStatus]
    /\ BagToSet(replies) \subseteq [item : Address, about : Config]
    /\ dialog \in {NoDialog, NewServer} \cup ToSet(list)
    /\ disk \in {Missing, Torn} \cup BoundedSeq(Config, MaxServers)
    /\ saving \in {NotSaving} \cup BoundedSeq(Config, MaxServers)
    /\ saving # NotSaving => disk = Torn /\ dialog = NoDialog

ListInit ==
    /\ running = FALSE /\ list = <<>>
    /\ data = [a \in Address |-> NoConfig] /\ shown = [a \in Address |-> Unknown]
    /\ replies = EmptyBag /\ dialog = NoDialog
    /\ disk = Missing /\ saving = NotSaving
    /\ told = FALSE /\ unread = FALSE /\ hasty = FALSE

-------------------------------------------------------------------------------
\* requestServerStatus for some items at once: nothing is sent where there is
\* no CA file.
RequestServerStatus(items, config) ==
    LET asked == {[item |-> a, about |-> config[a]] : a \in {b \in items : config[b].ca}}
    IN  replies' = replies (+) SetToBag(asked)

\* ServerConfig's constructor leaves the paths of the TLS files empty.
WithoutPaths(config) == [config EXCEPT !.ca = FALSE]

\* Seeded fault: the file is not made empty first, so a shorter list leaves
\* the end of the old one behind.
SaveOver(configs) ==
    /\ saving' = configs
    /\ disk' = IF disk \in {Missing, Torn} \/ Len(disk) <= Len(configs) THEN Torn ELSE disk
    /\ UNCHANGED told

\* saveServerConfigs and saveAllConfigs until the file is empty.  Passwords are
\* encrypted before the file is touched; when that fails, and when the file
\* cannot be opened, there is a message and nothing else.
SaveServerConfigs(configs) ==
    \/ /\ (EncryptFails /\ configs # <<>>) \/ OpenFails
       /\ told' = TRUE
       /\ UNCHANGED <<disk, saving>>
    \/ saving' = configs /\ disk' = Torn /\ UNCHANGED told

\* The rest of saveAllConfigs, which looks at no result of the stream: a write
\* that fails or is cut short is a success like any other.
WriteConfigs ==
    /\ saving # NotSaving
    /\ disk' = saving \/ (WriteFails /\ disk' = Torn)
    /\ saving' = NotSaving /\ told' = FALSE /\ unread' = FALSE
    /\ UNCHANGED <<running, list, data, shown, replies, dialog, hasty>>

\* Seeded fault: the list ends without a word where a password cannot be read.
LoadedSilently(stored) ==
    {[configs |-> SubSeq(stored, 1, k), ok |-> TRUE] :
        k \in IF DecryptFails THEN 0..Len(stored) ELSE {Len(stored)}}

\* What loadAllConfigs makes of the file.  It does not look whether open
\* worked, reads nothing then, and takes a text that is no JSON for an empty
\* list.
Contents(opened) == IF disk \in {Missing, Torn} \/ ~opened THEN <<>> ELSE disk

Openings == IF OpenFails /\ disk # Missing THEN BOOLEAN ELSE {TRUE}

\* The rest of loadAllConfigs: what comes before a password that cannot be
\* decrypted.
LoadAllConfigs(stored) ==
    {[configs |-> SubSeq(stored, 1, k), ok |-> k = Len(stored)] :
        k \in IF DecryptFails THEN 0..Len(stored) ELSE {Len(stored)}}

\* loadServerConfigs, when the program starts.
LoadServerConfigs ==
    /\ ~running
    /\ \E opened \in Openings : \E loaded \in LoadAllConfigs(Contents(opened)) :
         \E l \in [DOMAIN loaded.configs -> Address] :
           /\ IsInjective(l)
           /\ list' = l
           /\ data' = [a \in Address |-> IF a \in ToSet(l)
                         THEN loaded.configs[CHOOSE i \in DOMAIN l : l[i] = a]
                         ELSE NoConfig]
           /\ shown' = [a \in Address |-> Unknown]
           /\ RequestServerStatus(ToSet(l), data')
           /\ told' = ~loaded.ok /\ unread' = ~opened
    /\ BagCardinality(replies') <= MaxReplies
    /\ running' = TRUE /\ hasty' = FALSE
    /\ UNCHANGED <<dialog, disk, saving>>

\* The program ends: it is closed, or dies at any point.
Stop ==
    /\ running
    /\ running' = FALSE
    /\ replies' = EmptyBag /\ dialog' = NoDialog /\ saving' = NotSaving
    /\ UNCHANGED <<list, data, shown, disk, told, unread, hasty>>

-------------------------------------------------------------------------------
AtRest == running /\ dialog = NoDialog /\ saving = NotSaving

\* Items are changed or removed.
Change(items) == hasty' = (hasty \/ \E r \in BagToSet(replies) : r.item \in items)

OpenDialog ==
    /\ AtRest
    /\ \E d \in {NewServer} \cup ToSet(list) :
         /\ d = NewServer => Len(list) < MaxServers
         /\ dialog' = d
    /\ UNCHANGED <<running, list, data, shown, replies, disk, saving, told, unread, hasty>>

Rejected ==
    /\ running /\ dialog # NoDialog
    /\ dialog' = NoDialog
    /\ UNCHANGED <<running, list, data, shown, replies, disk, saving, told, unread, hasty>>

\* onAddServerClicked, from where the dialog is accepted.
OnAddServerClicked ==
    /\ running /\ dialog = NewServer
    /\ \E a \in Address \ ToSet(list), config \in Config :
         /\ list' = Append(list, a)
         /\ data' = [data EXCEPT ![a] = config]
         /\ shown' = [shown EXCEPT ![a] = Unknown]
         /\ RequestServerStatus({a}, [data' EXCEPT ![a] = WithoutPaths(config)])
    /\ dialog' = NoDialog
    /\ SaveServerConfigs(ConfigsOf(list', data'))
    /\ UNCHANGED <<running, unread, hasty>>

\* Seeded fault: the icon of the old configuration is left.
OnEditKeepsIcon ==
    /\ running /\ dialog \in ToSet(list) /\ Change({dialog})
    /\ \E config \in Config :
         /\ data' = [data EXCEPT ![dialog] = config]
         /\ RequestServerStatus({dialog}, [data' EXCEPT ![dialog] = WithoutPaths(config)])
    /\ dialog' = NoDialog
    /\ SaveServerConfigs(ConfigsOf(list, data'))
    /\ UNCHANGED <<running, list, shown, unread>>

\* onEditServerClicked, likewise.
OnEditServerClicked ==
    /\ running /\ dialog \in ToSet(list) /\ Change({dialog})
    /\ \E config \in Config :
         /\ data' = [data EXCEPT ![dialog] = config]
         /\ shown' = [shown EXCEPT ![dialog] = Unknown]
         /\ RequestServerStatus({dialog}, [data' EXCEPT ![dialog] = WithoutPaths(config)])
    /\ dialog' = NoDialog
    /\ SaveServerConfigs(ConfigsOf(list, data'))
    /\ UNCHANGED <<running, list, unread>>

\* onRemoveServerClicked; with nothing selected the list is still saved.
OnRemoveServerClicked ==
    /\ AtRest
    /\ \/ UNCHANGED <<list, data, shown, hasty>>
       \/ \E row \in DOMAIN list :
            /\ Change({list[row]})
            /\ list' = RemoveAt(list, row)
            /\ data' = [data EXCEPT ![list[row]] = NoConfig]
            /\ shown' = [shown EXCEPT ![list[row]] = Unknown]
    /\ SaveServerConfigs(ConfigsOf(list', data'))
    /\ UNCHANGED <<running, replies, dialog, unread>>

\* onServersRefreshClicked
OnServersRefreshClicked ==
    /\ AtRest
    /\ RequestServerStatus(ToSet(list), data)
    /\ BagCardinality(replies') <= MaxReplies
    /\ UNCHANGED <<running, list, data, shown, dialog, disk, saving, told, unread, hasty>>

\* serverStatusHttpRequestFinished: the item is changed if it is still there.
\* Otherwise deleted memory is written to, which goes unnoticed or is the end.
ServerStatusHttpRequestFinished ==
    /\ running /\ saving = NotSaving
    /\ \E r \in BagToSet(replies), result \in {"success", "failure"} :
         IF r.item \in ToSet(list)
         THEN /\ shown' = [shown EXCEPT ![r.item] = [result |-> result, about |-> r.about]]
              /\ replies' = replies (-) SetToBag({r})
              /\ UNCHANGED <<running, dialog>>
         ELSE /\ \/ /\ replies' = replies (-) SetToBag({r})
                    /\ UNCHANGED <<running, dialog>>
                 \/ running' = FALSE /\ replies' = EmptyBag /\ dialog' = NoDialog
              /\ UNCHANGED shown
    /\ UNCHANGED <<list, data, disk, saving, told, unread, hasty>>

ListNext ==
    \/ LoadServerConfigs \/ Stop
    \/ OpenDialog \/ Rejected
    \/ OnAddServerClicked \/ OnEditServerClicked \/ OnRemoveServerClicked
    \/ OnServersRefreshClicked \/ ServerStatusHttpRequestFinished
    \/ WriteConfigs

ListSpec == ListInit /\ [][ListNext]_listVars

-------------------------------------------------------------------------------
(* Properties. *)

\* What is shown beside a server was answered to a request with its present
\* configuration, across edits in a dialog that answers arrive in, removals,
\* addresses used again and restarts, as long as the user waits for the answers
\* about an item before it is changed or removed.
StatusIsOfConfig ==
    ~hasty => \A a \in ToSet(list) : shown[a] # Unknown => shown[a].about = data[a]

\* The list the program starts with is the one it had when it ended, or a
\* beginning of it: servers are missing only after a message of a load or a
\* save that failed, after a write that was cut short (by the death of the
\* program, or by a full disk, which it does not notice), or when the file
\* could not be opened, which it does not notice either; and the list is no
\* beginning of that one only after such a message, or where the program had
\* gone on with an empty list because it could not open the file.
ServersSurvive ==
    [][~running /\ running' =>
         LET before == ConfigsOf(list, data)
             after == ConfigsOf(list', data')
         IN  /\ after # before => told \/ told' \/ disk = Torn \/ unread \/ unread'
             /\ IsPrefix(after, before) \/ told \/ unread]_listVars

===============================================================================
