------------------------------ MODULE Settings ------------------------------
(***************************************************************************)
(* Settings, from the page they are edited on to where they take effect.   *)
(* The page shows one card per section; a card saves field by field, one   *)
(* save at a time, but the cards do not wait for each other.  The API      *)
(* merges whole sections into settings.json, so a card sends its section   *)
(* as the page last saw it with one field changed.  A raw editor saves the *)
(* sections its text changed.  The routes of agents and providers change   *)
(* single fields, after which the page reads the settings again.  The      *)
(* torrent card alone goes through the torrent manager, which keeps a      *)
(* configuration of its own and hands it to Transmission, external here.   *)
(* A load names who is at work.                                            *)
(***************************************************************************)
EXTENDS Naturals, Sequences, FiniteSets

CONSTANTS
  Sections,   \* top-level sections of settings.json
  Cards,      \* those with a card on the page
  Torrent,    \* the card that saves through the torrent manager
  Fields,     \* the fields of a section
  Secrets,    \* those that the raw editor shows as a placeholder
  MaxValue,   \* a field holds 0 (empty) to MaxValue
  MaxEdits,   \* bound: changes the user makes
  None,       \* sentinel: no value
  Redacted,   \* the placeholder
  Loads       \* who is at work: cards, "raw", "routes", "restart"

ASSUME SettingsAssumption ==
  /\ Torrent \in Cards /\ Cards \subseteq Sections /\ Secrets \subseteq Fields
  /\ MaxValue \in Nat /\ MaxEdits \in Nat
  /\ {None, Redacted} \cap Nat = {}
  /\ {"raw", "routes", "restart"} \cap Cards = {}

Values == 0..MaxValue
Section == [Fields -> Values]
File == [Sections -> Section]
Callers == (Cards \ {Torrent}) \cup {"raw", "routes"}

VARIABLES
  load,      \* who is at work
  edits,     \* changes the user has made
  file,      \* settings.json
  page,      \* settingsRef.current: the settings as the page last saw them
  pending,   \* per card: fields that show a value not yet saved
  queue,     \* per card: its commits that are not over, the first one running
  call,      \* per caller: its request of the settings API
  base,      \* rawBaselineRef: what the editor was loaded with
  text,      \* the text of the editor
  touched,   \* history: sections edited in the text since
  told,      \* history: per card, what it was told is saved
  config,    \* the torrent manager's configuration
  unsaved,   \* history: its fields that could not be written to the file
  update,    \* the request of the torrent card
  engine     \* the torrent configuration as the page last saw it

card == <<pending, queue>>
editor == <<base, text, touched>>
manager == <<config, unsaved, update>>
vars == <<load, edits, file, page, pending, queue, call, base, text, touched,
          told, config, unsaved, update, engine>>

-----------------------------------------------------------------------------
Empty == [f \in Fields |-> 0]
NoBody == [s \in {} |-> Empty]
NoCall == [phase |-> "idle", body |-> NoBody, result |-> [s \in Sections |-> Empty]]
NoUpdate == [phase |-> "idle", previous |-> Empty]

\* redactSecrets: an empty secret is shown as it is.
Shown(settings) ==
  [s \in Sections |-> [f \in Fields |->
     IF f \in Secrets /\ settings[s][f] # 0 THEN Redacted ELSE settings[s][f]]]

Init ==
  /\ load \in Loads
  /\ edits = 0
  /\ file = [s \in Sections |-> Empty]
  /\ page = file
  /\ pending = [c \in Cards |-> [f \in Fields |-> None]]
  /\ queue = [c \in Cards |-> <<>>]
  /\ call = [a \in Callers |-> NoCall]
  /\ base = Shown(file) /\ text = base /\ touched = {}
  /\ told = [c \in Cards |-> Empty]
  /\ config = Empty /\ unsaved = {} /\ engine = Empty
  /\ update = NoUpdate

-----------------------------------------------------------------------------
(* The cards. *)

Value(c, f) ==
  IF pending[c][f] # None THEN pending[c][f]
  ELSE IF c = Torrent THEN engine[f] ELSE page[c][f]

Edits == edits < MaxEdits /\ edits' = edits + 1

\* commit: shown at once, saved in its turn.
Commit(c, f, v) ==
  /\ c \in load /\ Edits /\ v # Value(c, f)
  /\ pending' = [pending EXCEPT ![c][f] = v]
  /\ queue' = [queue EXCEPT ![c] = Append(@, [field |-> f, value |-> v])]
  /\ UNCHANGED <<load, file, page, call, editor, told, manager, engine>>

\* Mutant: nothing is committed any more once a save has failed.
RestUnlessFailed(c, ok) == IF ok THEN Tail(queue[c]) ELSE <<>>
\* What the queue goes on with.
Rest(c, ok) == Tail(queue[c])

\* The first commit of a card is over; its field shows what is saved, unless it
\* has been changed again.
Over(c, ok) ==
  LET f == Head(queue[c]).field IN
  /\ queue' = [queue EXCEPT ![c] = Rest(c, ok)]
  /\ pending' = IF \E i \in 2..Len(queue[c]) : queue[c][i].field = f
                  THEN pending ELSE [pending EXCEPT ![c][f] = None]

Ask(a, body) == call' = [call EXCEPT ![a] = [NoCall EXCEPT !.phase = "sent", !.body = body]]

\* saveSettingsSection, in its turn: the whole section, with one field changed.
Save(c) ==
  /\ c # Torrent /\ queue[c] # <<>> /\ call[c].phase = "idle"
  /\ LET new == Head(queue[c]) IN
     Ask(c, [s \in {c} |-> [page[c] EXCEPT ![new.field] = new.value]])
  /\ UNCHANGED <<load, edits, file, page, card, editor, told, manager, engine>>

-----------------------------------------------------------------------------
(* The API. *)

Merged(body) == [s \in Sections |-> IF s \in DOMAIN body THEN body[s] ELSE file[s]]

\* PUT /api/settings, and with nothing to change GET.
Handle(a) ==
  /\ call[a].phase = "sent"
  /\ file' = Merged(call[a].body)
  /\ call' = [call EXCEPT ![a].phase = "answered", ![a].result = file']
  /\ UNCHANGED <<load, edits, page, card, editor, told, manager, engine>>

\* The request does not get there, or is refused.
Refuse(a) ==
  /\ call[a].phase = "sent"
  /\ call' = [call EXCEPT ![a].phase = "failed"]
  /\ UNCHANGED <<load, edits, file, page, card, editor, told, manager, engine>>

\* It is carried out, and the answer does not come back.
LoseAnswer(a) ==
  /\ call[a].phase = "answered"
  /\ call' = [call EXCEPT ![a].phase = "failed"]
  /\ UNCHANGED <<load, edits, page, file, card, editor, told, manager, engine>>

\* Mutant: the page goes on composing from what it was opened with.
OldSettings(settings) == page
\* adoptSettings, for settingsRef.current
Adopted(settings) == settings

\* adoptSettings, for the editor
LoadEditor(settings) ==
  base' = Shown(settings) /\ text' = Shown(settings) /\ touched' = {}

\* rawJsonDirtyRef
Dirty == touched # {}

Adopt(settings, resetRawJson) ==
  /\ page' = Adopted(settings)
  /\ IF resetRawJson \/ ~Dirty THEN LoadEditor(settings) ELSE UNCHANGED editor

\* The answer of a card's save.  Answers arrive in any order.
Saved(c) ==
  /\ c \in Cards \ {Torrent} /\ call[c].phase \in {"answered", "failed"}
  /\ IF call[c].phase = "answered"
       THEN Adopt(call[c].result, FALSE) ELSE UNCHANGED <<page, editor>>
  /\ told' = IF call[c].phase = "answered"
               THEN [told EXCEPT ![c][Head(queue[c]).field] = Head(queue[c]).value] ELSE told
  /\ Over(c, call[c].phase = "answered")
  /\ call' = [call EXCEPT ![c] = NoCall]
  /\ UNCHANGED <<load, edits, file, manager, engine>>

-----------------------------------------------------------------------------
(* The raw editor, and the routes that save on their own. *)

EditText(s, f, v) ==
  /\ "raw" \in load /\ Edits /\ v # text[s][f]
  /\ text' = [text EXCEPT ![s][f] = v]
  /\ touched' = touched \cup {s}
  /\ UNCHANGED <<load, file, page, card, call, base, told, manager, engine>>

\* Mutant: compared with the settings as they are now.
ChangedFromNow == {s \in Sections : text[s] # Shown(page)[s]}
\* rawJsonPatch
Changed == {s \in Sections : text[s] # base[s]}

\* restoreSecrets
Restored(s) == [f \in Fields |-> IF text[s][f] = Redacted THEN page[s][f] ELSE text[s][f]]

\* saveRawJson
SaveText ==
  /\ "raw" \in load /\ Dirty /\ call["raw"].phase = "idle"
  /\ Ask("raw", [s \in Changed |-> Restored(s)])
  /\ UNCHANGED <<load, edits, file, page, card, editor, told, manager, engine>>

\* What was typed meanwhile is lost.
TextSaved ==
  /\ call["raw"].phase \in {"answered", "failed"}
  /\ IF call["raw"].phase = "answered"
       THEN Adopt(call["raw"].result, TRUE) ELSE UNCHANGED <<page, editor>>
  /\ call' = [call EXCEPT !["raw"] = NoCall]
  /\ UNCHANGED <<load, edits, file, card, told, manager, engine>>

\* An agent or a provider is saved or deleted; then refreshSettings.
Route(s, f, v) ==
  /\ "routes" \in load /\ s \notin Cards /\ call["routes"].phase = "idle" /\ Edits
  /\ file' = [file EXCEPT ![s][f] = v]
  /\ Ask("routes", NoBody)
  /\ UNCHANGED <<load, page, card, editor, told, manager, engine>>

Refreshed ==
  /\ call["routes"].phase \in {"answered", "failed"}
  /\ IF call["routes"].phase = "answered"
       THEN Adopt(call["routes"].result, FALSE) ELSE UNCHANGED <<page, editor>>
  /\ call' = [call EXCEPT !["routes"] = NoCall]
  /\ UNCHANGED <<load, edits, file, card, told, manager, engine>>

-----------------------------------------------------------------------------
(* The torrent manager, and its card. *)

Patched(section) ==
  LET new == Head(queue[Torrent]) IN [section EXCEPT ![new.field] = new.value]

\* PUT /api/torrents/config and updateConfig up to the call of Transmission.
UpdateConfig ==
  /\ update.phase = "idle" /\ queue[Torrent] # <<>>
  /\ update' = [phase |-> "applying", previous |-> config]
  /\ config' = Patched(config)
  /\ UNCHANGED <<load, edits, file, page, card, call, editor, told, unsaved, engine>>

\* The body is refused before it gets to the manager.
RefuseConfig ==
  /\ update.phase = "idle" /\ queue[Torrent] # <<>>
  /\ update' = [NoUpdate EXCEPT !.phase = "failed"]
  /\ UNCHANGED <<load, edits, file, page, card, call, editor, told, config, unsaved, engine>>

\* mutateSettings, once updateConfig is through.  The file may not be written:
\* the save fails, and the manager keeps what it has.
Persist ==
  LET f == Head(queue[Torrent]).field IN
  \/ /\ file' = [file EXCEPT ![Torrent] = Patched(@)]
     /\ update' = [update EXCEPT !.phase = "answered"]
     /\ unsaved' = unsaved \ {f}
  \/ /\ UNCHANGED file
     /\ update' = [update EXCEPT !.phase = "failed"]
     /\ unsaved' = unsaved \cup {f}

\* session-set is answered; then the route saves.
ConfigApplied ==
  /\ update.phase = "applying"
  /\ Persist
  /\ UNCHANGED <<load, edits, page, card, call, editor, told, config, engine>>

\* Transmission is down, or refuses the values: isAvailable is asked.
ConfigFails ==
  /\ update.phase = "applying"
  /\ update' = [update EXCEPT !.phase = "asking"]
  /\ UNCHANGED <<load, edits, file, page, card, call, editor, told, config, unsaved, engine>>

\* Mutant: the values that were refused stay.
KeptConfig == config
\* What the manager goes back to when the values were refused.
RestoredConfig == update.previous

\* Values are refused by a Transmission that can be reached, and otherwise kept
\* for when it comes back.
Asked(reachable) ==
  /\ update.phase = "asking"
  /\ IF reachable
       THEN /\ config' = RestoredConfig
            /\ update' = [update EXCEPT !.phase = "failed"]
            /\ UNCHANGED <<file, unsaved>>
       ELSE Persist /\ UNCHANGED config
  /\ UNCHANGED <<load, edits, page, card, call, editor, told, engine>>

LoseConfig ==
  /\ update.phase = "answered"
  /\ update' = [update EXCEPT !.phase = "failed"]
  /\ UNCHANGED <<load, edits, file, page, card, call, editor, told, config, unsaved, engine>>

TorrentSaved ==
  /\ update.phase \in {"answered", "failed"}
  /\ engine' = IF update.phase = "answered" THEN config ELSE engine
  /\ Over(Torrent, update.phase = "answered")
  /\ update' = NoUpdate
  /\ UNCHANGED <<load, edits, file, page, call, editor, told, config, unsaved>>

\* The daemon dies and starts again: requests that were with it fail, and the
\* manager takes its configuration from the file.
Restart ==
  /\ "restart" \in load /\ Edits
  /\ call' = [a \in Callers |-> IF call[a].phase = "sent"
                                  THEN [call[a] EXCEPT !.phase = "failed"] ELSE call[a]]
  /\ update' = IF update.phase \in {"applying", "asking"}
                 THEN [update EXCEPT !.phase = "failed"] ELSE update
  /\ config' = file[Torrent] /\ unsaved' = {}
  /\ UNCHANGED <<load, file, page, card, editor, told, engine>>

-----------------------------------------------------------------------------
Next ==
  \/ \E c \in Cards :
       \/ \E f \in Fields, v \in Values : Commit(c, f, v)
       \/ Save(c) \/ Saved(c)
  \/ \E a \in Callers : Handle(a) \/ Refuse(a) \/ LoseAnswer(a)
  \/ \E s \in Sections, f \in Fields, v \in Values : EditText(s, f, v) \/ Route(s, f, v)
  \/ SaveText \/ TextSaved \/ Refreshed
  \/ UpdateConfig \/ RefuseConfig \/ ConfigApplied \/ ConfigFails
  \/ (\E reachable \in BOOLEAN : Asked(reachable)) \/ LoseConfig \/ TorrentSaved
  \/ Restart

Spec == Init /\ [][Next]_vars

\* The page and the daemon run, and every request is answered or fails.
Fairness ==
  /\ \A c \in Cards : WF_vars(Save(c)) /\ WF_vars(Saved(c))
  /\ \A a \in Callers : WF_vars(Handle(a) \/ Refuse(a))
  /\ WF_vars(UpdateConfig \/ RefuseConfig) /\ WF_vars(ConfigApplied \/ ConfigFails)
  /\ WF_vars(\E reachable \in BOOLEAN : Asked(reachable)) /\ WF_vars(TorrentSaved)

LiveSpec == Spec /\ Fairness

-----------------------------------------------------------------------------
TypeOK ==
  /\ load \in Loads /\ edits \in 0..MaxEdits
  /\ file \in File /\ page \in File
  /\ pending \in [Cards -> [Fields -> Values \cup {None}]]
  /\ queue \in [Cards -> Seq([field : Fields, value : Values])]
  /\ \A a \in Callers :
       /\ call[a].phase \in {"idle", "sent", "answered", "failed"}
       /\ DOMAIN call[a].body \subseteq Sections
       /\ \A s \in DOMAIN call[a].body : call[a].body[s] \in Section
       /\ call[a].result \in File
  /\ base \in [Sections -> [Fields -> Values \cup {Redacted}]]
  /\ text \in [Sections -> [Fields -> Values \cup {Redacted}]]
  /\ touched \subseteq Sections
  /\ told \in [Cards -> Section]
  /\ config \in Section /\ engine \in Section /\ unsaved \subseteq Fields
  /\ update \in [phase : {"idle", "applying", "asking", "answered", "failed"},
                 previous : Section]

\* A card's save takes another field back to something else than the card was
\* told is saved.  (A save whose answer is lost counts as failed: the field
\* shows the value from before, and the next save sends it.)
Clobbers(c) ==
  /\ call[c].phase = "sent" /\ call'[c].phase = "answered"
  /\ \E f \in Fields : /\ f # Head(queue[c]).field
                       /\ file'[c][f] \notin {file[c][f], told[c][f]}

\* Commits of one section "serialize through a queue so sibling commits can't
\* clobber each other" (shared.tsx:49): on a page where nothing but one card is
\* in use, no save takes another field back, whatever failed before it.
SiblingsKept ==
  [][\A c \in Cards \ {Torrent} : load \ {"restart"} = {c} => ~Clobbers(c)]_vars

\* A save of the raw editor leaves alone every section that was not edited in
\* it, however old its text is: "an unrelated stale section can't overwrite a
\* newer save" (settings-patch.ts:66).
UnrelatedKept ==
  [][call["raw"].phase = "sent" /\ call'["raw"].phase = "answered"
       => \A s \in Sections \ touched : file'[s] = file[s]]_vars

\* Unless the raw editor has been at it, what the manager works with is what it
\* would start with: a change that was refused is in neither place and one that
\* was kept is in both, through every failure but that of the write itself.
\* (There the code leaves the manager ahead: a field whose write failed may
\* differ until it is saved again or the daemon starts anew.)
ConfigSaved ==
  "raw" \notin load /\ update.phase \notin {"applying", "asking"}
    => \A f \in Fields \ unsaved : config[f] = file[Torrent][f]

\* No field is left saving for ever.
SavesEnd ==
  \A c \in Cards, f \in Fields : pending[c][f] # None ~> pending[c][f] = None

\* A section is composed "from the freshest settings" (settings/page.tsx:96): no
\* save takes another field back, also when several cards are in use.
FreshSections ==
  [][\A c \in Cards \ {Torrent} : "raw" \notin load => ~Clobbers(c)]_vars
=============================================================================
