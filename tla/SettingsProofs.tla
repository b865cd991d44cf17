--------------------------- MODULE SettingsProofs ---------------------------
(***************************************************************************)
(* What holds of the settings for any sections, cards, fields and edits:   *)
(* the torrent manager works with what is saved, a card alone on the page  *)
(* takes no other field of its section back, and the raw editor leaves     *)
(* alone what was not edited in it.                                        *)
(***************************************************************************)
EXTENDS Settings, SequenceTheorems, TLAPS

Commits == [field : Fields, value : Values]
Alone == Cards \ {Torrent}

\* Records and functions are what they are built as; nothing is said of the
\* values in them.
Shape ==
  /\ queue \in [Cards -> Seq(Commits)]
  /\ told \in [Cards -> Section]
  /\ call = [a \in Callers |-> call[a]]
  /\ \A a \in Callers : call[a] = [phase |-> call[a].phase, body |-> call[a].body,
                                   result |-> call[a].result]
  /\ file = [s \in Sections |-> file[s]]
  /\ text = [s \in Sections |-> text[s]]
  /\ update = [phase |-> update.phase, previous |-> update.previous]

\* What is being saved is the first commit of its card.
Busy ==
  /\ \A c \in Alone : call[c].phase # "idle" => queue[c] # <<>>
  /\ update.phase # "idle" => queue[Torrent] # <<>>

Turns == Shape /\ Busy

\* Two sections agree on every field that is not among those left out.
Agree(one, other, but) == \A f \in Fields \ but : one[f] = other[f]

HasFields(section) == section = [f \in Fields |-> section[f]]

\* No request but the torrent card's own touches its section, and what the
\* manager works with (while an update is under way, what it would go back to)
\* agrees with the section, but for what could not be written.
ConfigInv ==
  "raw" \notin load =>
    /\ \A a \in Callers : call[a].phase = "sent" => Torrent \notin DOMAIN call[a].body
    /\ HasFields(file[Torrent]) /\ HasFields(config)
    /\ IF update.phase \in {"applying", "asking"}
         THEN /\ HasFields(update.previous)
              /\ Agree(update.previous, file[Torrent], unsaved)
              /\ config = Patched(update.previous)
         ELSE Agree(config, file[Torrent], unsaved)

\* What the editor sends is what was edited, and stays so until its answer.
EditorInv ==
  /\ \A s \in Sections \ touched : text[s] = base[s]
  /\ call["raw"].phase = "sent" => Dirty /\ DOMAIN call["raw"].body \subseteq touched

\* The section as the page has it, with the first commit of its card.
Composed(c) == [page[c] EXCEPT ![Head(queue[c]).field] = Head(queue[c]).value]

\* With one card in use, the page has what the card was told is saved.
AloneInv ==
  \A c \in Alone : load \ {"restart"} = {c} =>
    /\ page[c] = told[c]
    /\ \A a \in Callers \ {c} : call[a].phase = "idle"
    /\ \A d \in Cards \ {c} : queue[d] = <<>>
    /\ call[c].phase = "sent" =>
         DOMAIN call[c].body = {c} /\ call[c].body[c] = Composed(c)
    /\ call[c].phase = "answered" => call[c].result[c] = Composed(c)

-----------------------------------------------------------------------------
(* Queues and calls. *)

\* A commit at the end of a queue does not take the turn of the first.
LEMMA AppendHead ==
  ASSUME NEW q \in Seq(Commits), NEW x \in Commits
  PROVE  /\ Append(q, x) \in Seq(Commits) /\ Append(q, x) # <<>>
         /\ q # <<>> => Head(Append(q, x)) = Head(q)
BY AppendProperties, HeadTailAppend

\* What is left of a queue.
LEMMA TailIs ==
  ASSUME NEW q \in Seq(Commits), q # <<>>
  PROVE  Tail(q) \in Seq(Commits) /\ Head(q) \in Commits
BY SMT

\* Cards that save through the API call it, and so do the editor and the routes.
LEMMA CallersAre ==
  /\ Alone \subseteq Callers /\ Alone \subseteq Cards /\ "raw" \in Callers /\ "routes" \in Callers
  /\ "raw" \notin Alone /\ "routes" \notin Alone
  /\ Torrent \in Cards /\ Torrent \notin Alone /\ Torrent \in Sections
  /\ \A c \in Cards : c # Torrent <=> c \in Alone
BY SettingsAssumption DEF Callers, Alone

\* A request whose phase and result change.
LEMMA CallUpdates ==
  ASSUME NEW x, x = [phase |-> x.phase, body |-> x.body, result |-> x.result], NEW p, NEW r
  PROVE  /\ [x EXCEPT !.phase = p] = [phase |-> p, body |-> x.body, result |-> x.result]
         /\ [x EXCEPT !.phase = p, !.result = r] = [phase |-> p, body |-> x.body, result |-> r]
<1> DEFINE b == x.body
<1> DEFINE h == x.phase
<1> DEFINE t == x.result
<1>1. x = [phase |-> h, body |-> b, result |-> t]
  OBVIOUS
<1> HIDE DEF b, h, t
<1>2. ASSUME NEW y, y = [phase |-> h, body |-> b, result |-> t]
      PROVE  [y EXCEPT !.phase = p] = [phase |-> p, body |-> b, result |-> t]
  BY <1>2
<1>3. ASSUME NEW y, y = [phase |-> p, body |-> b, result |-> t]
      PROVE  [y EXCEPT !.result = r] = [phase |-> p, body |-> b, result |-> r]
  BY <1>3
<1>4. [x EXCEPT !.phase = p] = [phase |-> p, body |-> b, result |-> t]
  BY <1>1, <1>2
<1>5. [x EXCEPT !.phase = p, !.result = r] = [phase |-> p, body |-> b, result |-> r]
  BY <1>3, <1>4
<1> QED
  BY <1>4, <1>5 DEF b, h, t

\* A request that is sent.
LEMMA AskIs ==
  ASSUME Shape, NEW a \in Callers, NEW body, Ask(a, body)
  PROVE  /\ call' = [x \in Callers |-> call'[x]]
         /\ call'[a].phase = "sent" /\ call'[a].body = body
         /\ call'[a] = [phase |-> call'[a].phase, body |-> call'[a].body,
                        result |-> call'[a].result]
         /\ \A x \in Callers : x # a => call'[x] = call[x]
BY DEF Ask, Shape, NoCall

\* A request that fails.
LEMMA FailIs ==
  ASSUME Shape, NEW a \in Callers, call' = [call EXCEPT ![a].phase = "failed"]
  PROVE  /\ call' = [x \in Callers |-> call'[x]]
         /\ call'[a].phase = "failed"
         /\ call'[a] = [phase |-> call'[a].phase, body |-> call'[a].body,
                        result |-> call'[a].result]
         /\ \A x \in Callers : x # a => call'[x] = call[x]
<1>1. call'[a] = [call[a] EXCEPT !.phase = "failed"]
  BY DEF Shape
<1>2. call'[a] = [phase |-> "failed", body |-> call[a].body, result |-> call[a].result]
  BY <1>1, CallUpdates DEF Shape
<1>3. /\ call' = [x \in Callers |-> call'[x]]
      /\ \A x \in Callers : x # a => call'[x] = call[x]
  BY DEF Shape
<1> QED
  BY <1>2, <1>3

\* A request that is over.
LEMMA OverIs ==
  ASSUME Shape, NEW a \in Callers, call' = [call EXCEPT ![a] = NoCall]
  PROVE  /\ call' = [x \in Callers |-> call'[x]]
         /\ call'[a].phase = "idle"
         /\ call'[a] = [phase |-> call'[a].phase, body |-> call'[a].body,
                        result |-> call'[a].result]
         /\ \A x \in Callers : x # a => call'[x] = call[x]
BY DEF Shape, NoCall

\* A request that is carried out.
LEMMA HandleIs ==
  ASSUME Shape, NEW a \in Callers, Handle(a)
  PROVE  /\ call' = [x \in Callers |-> call'[x]]
         /\ call[a].phase = "sent" /\ call'[a].phase = "answered"
         /\ call'[a].result = file'
         /\ call'[a] = [phase |-> call'[a].phase, body |-> call'[a].body,
                        result |-> call'[a].result]
         /\ \A x \in Callers : x # a => call'[x] = call[x]
         /\ file' = [s \in Sections |-> file'[s]]
         /\ \A s \in Sections :
              file'[s] = IF s \in DOMAIN call[a].body THEN call[a].body[s] ELSE file[s]
<1>1. /\ call[a].phase = "sent" /\ file' = Merged(call[a].body)
      /\ call' = [call EXCEPT ![a].phase = "answered", ![a].result = file']
  BY DEF Handle
<1>2. call'[a] = [call[a] EXCEPT !.phase = "answered", !.result = file']
  BY <1>1 DEF Shape
<1>3. call'[a] = [phase |-> "answered", body |-> call[a].body, result |-> file']
  BY <1>2, CallUpdates DEF Shape
<1>4. /\ call' = [x \in Callers |-> call'[x]]
      /\ \A x \in Callers : x # a => call'[x] = call[x]
  BY <1>1 DEF Shape
<1>5. /\ file' = [s \in Sections |-> file'[s]]
      /\ \A s \in Sections :
           file'[s] = IF s \in DOMAIN call[a].body THEN call[a].body[s] ELSE file[s]
  BY <1>1 DEF Merged
<1> QED
  BY <1>1, <1>3, <1>4, <1>5

\* A daemon that starts again has failed the requests that were with it.
LEMMA RestartIs ==
  ASSUME Shape, Restart
  PROVE  /\ call' = [x \in Callers |-> call'[x]]
         /\ \A a \in Callers :
              /\ call'[a] = [phase |-> call'[a].phase, body |-> call'[a].body,
                             result |-> call'[a].result]
              /\ call'[a].result = call[a].result
              /\ call'[a].phase = IF call[a].phase = "sent" THEN "failed" ELSE call[a].phase
         /\ update' = [phase |-> update'.phase, previous |-> update'.previous]
         /\ update'.phase = IF update.phase \in {"applying", "asking"} THEN "failed"
                            ELSE update.phase
<1>1. call' = [a \in Callers |-> IF call[a].phase = "sent"
                                   THEN [call[a] EXCEPT !.phase = "failed"] ELSE call[a]]
  BY DEF Restart
<1>2. ASSUME NEW a \in Callers
      PROVE  /\ call'[a] = [phase |-> call'[a].phase, body |-> call'[a].body,
                            result |-> call'[a].result]
             /\ call'[a].result = call[a].result
             /\ call'[a].phase = IF call[a].phase = "sent" THEN "failed" ELSE call[a].phase
  <2>1. call[a] = [phase |-> call[a].phase, body |-> call[a].body, result |-> call[a].result]
    BY DEF Shape
  <2> QED
    BY <1>1, <2>1
<1>3. /\ update' = [phase |-> update'.phase, previous |-> update'.previous]
      /\ update'.phase = IF update.phase \in {"applying", "asking"} THEN "failed"
                         ELSE update.phase
  BY DEF Restart, Shape
<1> QED
  BY <1>1, <1>2, <1>3

\* A commit joins the queue of its card behind the one that is being saved.
LEMMA CommitIs ==
  ASSUME Turns, NEW c \in Cards, NEW f \in Fields, NEW v \in Values, Commit(c, f, v)
  PROVE  /\ queue' \in [Cards -> Seq(Commits)]
         /\ \A d \in Cards : d # c => queue'[d] = queue[d]
         /\ \A d \in Cards : queue[d] # <<>> =>
              queue'[d] # <<>> /\ Head(queue'[d]) = Head(queue[d])
<1> DEFINE x == [field |-> f, value |-> v]
<1>1. x \in Commits
  BY DEF Commits
<1>2. queue' = [queue EXCEPT ![c] = Append(@, x)] /\ queue[c] \in Seq(Commits)
  BY DEF Commit, Turns, Shape
<1> HIDE DEF x
<1>3. /\ Append(queue[c], x) \in Seq(Commits) /\ Append(queue[c], x) # <<>>
      /\ queue[c] # <<>> => Head(Append(queue[c], x)) = Head(queue[c])
  BY <1>1, <1>2, AppendHead
<1> QED
  BY <1>2, <1>3 DEF Turns, Shape

\* A commit that is over leaves the queue of its card.
LEMMA RestIs ==
  ASSUME Turns, NEW c \in Cards, NEW ok, Over(c, ok), queue[c] # <<>>
  PROVE  /\ queue' \in [Cards -> Seq(Commits)]
         /\ \A d \in Cards : d # c => queue'[d] = queue[d]
<1>1. queue' = [queue EXCEPT ![c] = Tail(queue[c])] /\ queue[c] \in Seq(Commits)
  BY DEF Over, Rest, Turns, Shape
<1>2. Tail(queue[c]) \in Seq(Commits)
  BY <1>1, TailIs
<1> QED
  BY <1>1, <1>2 DEF Turns, Shape

\* The text of the editor is loaded, or stays.
LEMMA AdoptIs ==
  ASSUME Shape, NEW settings, NEW b \in BOOLEAN, Adopt(settings, b)
  PROVE  /\ page' = settings /\ text' = [s \in Sections |-> text'[s]]
         /\ \/ text' = base' /\ (b \/ ~Dirty)
            \/ UNCHANGED editor
BY DEF Adopt, Adopted, LoadEditor, Shape, Shown, editor

\* A page and a text that stay, or that are taken from an answer.
LEMMA TakenText ==
  ASSUME Shape, NEW a \in Callers, NEW b \in BOOLEAN,
         IF call[a].phase = "answered"
           THEN Adopt(call[a].result, b) ELSE UNCHANGED <<page, editor>>
  PROVE  text' = [s \in Sections |-> text'[s]]
BY AdoptIs DEF Shape, editor

\* Every step keeps turns.
LEMMA TurnsStep == Turns /\ [Next]_vars => Turns'
<1> SUFFICES ASSUME Turns, [Next]_vars PROVE Turns'
  OBVIOUS
<1>s. Shape /\ Busy
  BY DEF Turns
<1>1. ASSUME NEW c \in Cards, NEW f \in Fields, NEW v \in Values, Commit(c, f, v) PROVE Turns'
  <2>1. UNCHANGED <<file, call, text, told, update>>
    BY <1>1 DEF Commit, editor, manager
  <2> QED
    BY <1>1, <1>s, <2>1, CommitIs, CallersAre DEF Turns, Shape, Busy, Alone
<1>2. ASSUME NEW c \in Cards, Save(c) PROVE Turns'
  <2>1. /\ c \in Alone /\ queue[c] # <<>> /\ \E body : Ask(c, body)
        /\ UNCHANGED <<file, queue, text, told, update>>
    BY <1>2, CallersAre DEF Save, card, editor, manager
  <2> QED
    BY <1>s, <2>1, AskIs, CallersAre DEF Turns, Shape, Busy
<1>3. ASSUME NEW c \in Cards, Saved(c) PROVE Turns'
  <2>1. c \in Alone /\ call[c].phase # "idle" /\ queue[c] # <<>>
    BY <1>3, <1>s DEF Saved, Busy, Alone
  <2>2. /\ call' = [call EXCEPT ![c] = NoCall] /\ UNCHANGED <<file, update>>
        /\ \E ok : Over(c, ok)
    BY <1>3 DEF Saved, manager
  <2>3. text' = [s \in Sections |-> text'[s]]
    BY <1>3, <1>s, <2>1, CallersAre, TakenText DEF Saved
  <2>4. Head(queue[c]) \in Commits
    BY <1>s, <2>1, TailIs DEF Shape
  <2>5. told' \in [Cards -> Section]
    <3>1. CASE call[c].phase = "answered"
      BY <1>3, <1>s, <2>4, <3>1 DEF Saved, Shape, Commits, Section
    <3>2. CASE call[c].phase # "answered"
      BY <1>3, <1>s, <3>2 DEF Saved, Shape
    <3> QED
      BY <3>1, <3>2
  <2>6. /\ queue' \in [Cards -> Seq(Commits)]
        /\ \A d \in Cards : d # c => queue'[d] = queue[d]
    BY <2>1, <2>2, RestIs, CallersAre
  <2>7. Shape'
    BY <1>s, <2>1, <2>2, <2>3, <2>5, <2>6, OverIs, CallersAre DEF Shape
  <2>8. call'[c].phase = "idle" /\ \A x \in Callers : x # c => call'[x] = call[x]
    BY <1>s, <2>1, <2>2, OverIs, CallersAre
  <2>9. Busy'
    BY <1>s, <2>1, <2>2, <2>6, <2>8, CallersAre DEF Busy
  <2> QED
    BY <2>7, <2>9 DEF Turns
<1>4. ASSUME NEW a \in Callers, Handle(a) PROVE Turns'
  <2>1. UNCHANGED <<queue, text, told, update>>
    BY <1>4 DEF Handle, card, editor, manager
  <2>2. Shape'
    BY <1>4, <1>s, <2>1, HandleIs DEF Shape
  <2>3. Busy'
    <3>1. /\ call[a].phase = "sent" /\ call'[a].phase = "answered"
          /\ \A x \in Callers : x # a => call'[x] = call[x]
      BY <1>4, <1>s, HandleIs
    <3> QED
      BY <1>s, <2>1, <3>1, CallersAre DEF Busy
  <2> QED
    BY <2>2, <2>3 DEF Turns
<1>5. ASSUME NEW a \in Callers, Refuse(a) \/ LoseAnswer(a) PROVE Turns'
  <2>1. /\ UNCHANGED <<file, queue, text, told, update>> /\ call[a].phase # "idle"
        /\ call' = [call EXCEPT ![a].phase = "failed"]
    BY <1>5 DEF Refuse, LoseAnswer, card, editor, manager
  <2> QED
    BY <1>s, <2>1, FailIs, CallersAre DEF Turns, Shape, Busy
<1>6. ASSUME NEW s \in Sections, NEW f, NEW v, EditText(s, f, v) PROVE Turns'
  <2>1. /\ text' = [text EXCEPT ![s][f] = v] /\ UNCHANGED <<file, queue, call, told, update>>
    BY <1>6 DEF EditText, card, manager
  <2>2. text' = [x \in Sections |-> text'[x]]
    BY <1>s, <2>1 DEF Shape
  <2> QED
    BY <1>s, <2>1, <2>2 DEF Turns, Shape, Busy
<1>7. ASSUME NEW s \in Sections, NEW f, NEW v, Route(s, f, v) PROVE Turns'
  <2>1. /\ Ask("routes", NoBody) /\ UNCHANGED <<queue, text, told, update>>
        /\ file' = [file EXCEPT ![s][f] = v]
    BY <1>7 DEF Route, card, editor, manager
  <2>2. file' = [x \in Sections |-> file'[x]]
    BY <1>s, <2>1 DEF Shape
  <2>3. Shape'
    BY <1>s, <2>1, <2>2, AskIs, CallersAre DEF Shape
  <2>4. Busy'
    BY <1>s, <2>1, AskIs, CallersAre DEF Busy
  <2> QED
    BY <2>3, <2>4 DEF Turns
<1>8. CASE SaveText
  <2>1. /\ \E body : Ask("raw", body) /\ UNCHANGED <<file, queue, text, told, update>>
    BY <1>8 DEF SaveText, card, editor, manager
  <2> QED
    BY <1>s, <2>1, AskIs, CallersAre DEF Turns, Shape, Busy
<1>9. CASE TextSaved
  <2>1. /\ call' = [call EXCEPT !["raw"] = NoCall] /\ UNCHANGED <<file, queue, told, update>>
    BY <1>9 DEF TextSaved, card, manager
  <2>2. text' = [s \in Sections |-> text'[s]]
    BY <1>9, <1>s, CallersAre, TakenText DEF TextSaved
  <2> QED
    BY <1>s, <2>1, <2>2, OverIs, CallersAre DEF Turns, Shape, Busy
<1>10. CASE Refreshed
  <2>1. /\ call' = [call EXCEPT !["routes"] = NoCall] /\ UNCHANGED <<file, queue, told, update>>
    BY <1>10 DEF Refreshed, card, manager
  <2>2. text' = [s \in Sections |-> text'[s]]
    BY <1>10, <1>s, CallersAre, TakenText DEF Refreshed
  <2> QED
    BY <1>s, <2>1, <2>2, OverIs, CallersAre DEF Turns, Shape, Busy
<1>11. CASE UpdateConfig \/ RefuseConfig
  <2>1. /\ UNCHANGED <<file, queue, call, text, told>> /\ queue[Torrent] # <<>>
        /\ update' = [phase |-> update'.phase, previous |-> update'.previous]
    BY <1>11 DEF UpdateConfig, RefuseConfig, NoUpdate, card, editor
  <2> QED
    BY <1>s, <2>1 DEF Turns, Shape, Busy
<1>12. ASSUME ConfigApplied \/ ConfigFails \/ LoseConfig \/ (\E b \in BOOLEAN : Asked(b))
       PROVE  Turns'
  <2>1. /\ UNCHANGED <<queue, call, text, told>> /\ update.phase # "idle"
        /\ \E p : update' = [update EXCEPT !.phase = p]
        /\ file' = file \/ file' = [file EXCEPT ![Torrent] = Patched(@)]
    BY <1>12 DEF ConfigApplied, ConfigFails, LoseConfig, Asked, Persist, card, editor
  <2>2. update' = [phase |-> update'.phase, previous |-> update'.previous]
    BY <1>s, <2>1 DEF Shape
  <2>3. file' = [s \in Sections |-> file'[s]]
    BY <1>s, <2>1 DEF Shape
  <2> QED
    BY <1>s, <2>1, <2>2, <2>3 DEF Turns, Shape, Busy
<1>13. CASE TorrentSaved
  <2>1. /\ UNCHANGED <<file, call, text, told>> /\ update' = NoUpdate
        /\ update.phase # "idle" /\ \E ok : Over(Torrent, ok)
    BY <1>13 DEF TorrentSaved, editor
  <2>2. /\ queue' \in [Cards -> Seq(Commits)]
        /\ \A d \in Cards : d # Torrent => queue'[d] = queue[d]
    BY <1>s, <2>1, RestIs, CallersAre DEF Busy
  <2> QED
    BY <1>s, <2>1, <2>2, CallersAre DEF Turns, Shape, Busy, NoUpdate, Alone
<1>14. CASE Restart
  <2>1. UNCHANGED <<file, queue, text, told>>
    BY <1>14 DEF Restart, card, editor
  <2> QED
    BY <1>14, <1>s, <2>1, RestartIs, CallersAre DEF Turns, Shape, Busy
<1>15. CASE UNCHANGED vars
  BY <1>15, <1>s DEF vars, Turns, Shape, Busy
<1> QED
  BY <1>1, <1>2, <1>3, <1>4, <1>5, <1>6, <1>7, <1>8, <1>9, <1>10, <1>11, <1>12,
     <1>13, <1>14, <1>15 DEF Next

-----------------------------------------------------------------------------
(* Who calls, and who changes what. *)

\* Nobody begins to work, or stops.
LEMMA LoadStays == [Next]_vars => load' = load
BY DEF Next, Commit, Save, Saved, Handle, Refuse, LoseAnswer, EditText, Route, SaveText,
       TextSaved, Refreshed, UpdateConfig, RefuseConfig, ConfigApplied, ConfigFails, Asked,
       LoseConfig, TorrentSaved, Restart, vars

\* A request is answered by the API only.
LEMMA Answering ==
  ASSUME Turns, [Next]_vars, NEW b \in Callers,
         call[b].phase = "sent", call'[b].phase = "answered"
  PROVE  Handle(b)
<1>s. Shape
  BY DEF Turns
<1>1. ASSUME NEW c \in Cards, NEW f, NEW v, Commit(c, f, v) PROVE FALSE
  BY <1>1 DEF Commit
<1>2. ASSUME NEW c \in Cards, Save(c) PROVE FALSE
  <2>1. c \in Callers /\ \E body : Ask(c, body)
    BY <1>2, CallersAre DEF Save
  <2> QED
    BY <1>s, <2>1, AskIs
<1>3. ASSUME NEW a \in Callers, call' = [call EXCEPT ![a] = NoCall] PROVE FALSE
  BY <1>s, <1>3, OverIs
<1>4. ASSUME NEW a \in Callers, Handle(a) PROVE Handle(b)
  BY <1>s, <1>4, HandleIs
<1>5. ASSUME NEW a \in Callers, Refuse(a) \/ LoseAnswer(a) PROVE FALSE
  BY <1>s, <1>5, FailIs DEF Refuse, LoseAnswer
<1>6. ASSUME NEW s, NEW f, NEW v, EditText(s, f, v) PROVE FALSE
  BY <1>6 DEF EditText
<1>7. ASSUME NEW s, NEW f, NEW v, Route(s, f, v) PROVE FALSE
  BY <1>s, <1>7, AskIs, CallersAre DEF Route
<1>8. CASE SaveText
  <2>1. \E body : Ask("raw", body)
    BY <1>8 DEF SaveText
  <2> QED
    BY <1>s, <2>1, AskIs, CallersAre
<1>9. CASE TextSaved \/ Refreshed
  BY <1>3, <1>9, CallersAre DEF TextSaved, Refreshed
<1>10. ASSUME NEW c \in Cards, Saved(c) PROVE FALSE
  BY <1>3, <1>10, CallersAre DEF Saved, Alone
<1>11. CASE Restart
  BY <1>s, <1>11, RestartIs
<1>12. ASSUME UNCHANGED call PROVE FALSE
  BY <1>12
<1> QED
  BY <1>1, <1>2, <1>4, <1>5, <1>6, <1>7, <1>8, <1>9, <1>10, <1>11, <1>12
     DEF Next, UpdateConfig, RefuseConfig, ConfigApplied, ConfigFails, Asked, LoseConfig,
         TorrentSaved, vars

-----------------------------------------------------------------------------
(* The torrent manager. *)

\* Every step keeps the manager's configuration with the file.
LEMMA ConfigStep == ConfigInv /\ Turns /\ [Next]_vars => ConfigInv'
<1> SUFFICES ASSUME ConfigInv, Turns, [Next]_vars, "raw" \notin load PROVE ConfigInv'
  BY LoadStays DEF ConfigInv
<1>s. Shape /\ Busy
  BY DEF Turns
<1>i. /\ \A a \in Callers : call[a].phase = "sent" => Torrent \notin DOMAIN call[a].body
      /\ HasFields(file[Torrent]) /\ HasFields(config)
      /\ IF update.phase \in {"applying", "asking"}
           THEN /\ HasFields(update.previous)
                /\ Agree(update.previous, file[Torrent], unsaved)
                /\ config = Patched(update.previous)
           ELSE Agree(config, file[Torrent], unsaved)
  BY DEF ConfigInv
<1>q. ASSUME file'[Torrent] = file[Torrent], UNCHANGED <<config, unsaved, update>>,
             queue[Torrent] # <<>> => Head(queue'[Torrent]) = Head(queue[Torrent]),
             \A a \in Callers :
               call'[a].phase = "sent" => Torrent \notin DOMAIN call'[a].body
      PROVE  ConfigInv'
  <2>1. CASE update.phase \in {"applying", "asking"}
    <3>1. Head(queue'[Torrent]) = Head(queue[Torrent])
      BY <1>q, <1>s, <2>1 DEF Busy
    <3>2. Patched(update.previous)' = Patched(update.previous)
      BY <1>q, <3>1 DEF Patched
    <3> QED
      BY <1>i, <1>q, <2>1, <3>2 DEF ConfigInv, Agree, HasFields
  <2>2. CASE update.phase \notin {"applying", "asking"}
    BY <1>i, <1>q, <2>2 DEF ConfigInv, Agree, HasFields
  <2> QED
    BY <2>1, <2>2
<1>1. ASSUME NEW c \in Cards, NEW f \in Fields, NEW v \in Values, Commit(c, f, v)
      PROVE  ConfigInv'
  <2>1. UNCHANGED <<file, call, config, unsaved, update>>
    BY <1>1 DEF Commit, manager
  <2> QED
    BY <1>1, <1>i, <1>q, <2>1, CommitIs, CallersAre
<1>2. ASSUME NEW c \in Cards, Save(c) PROVE ConfigInv'
  <2>1. /\ c \in Alone /\ UNCHANGED <<file, queue, config, unsaved, update>>
        /\ Ask(c, [s \in {c} |-> [page[c] EXCEPT ![Head(queue[c]).field] = Head(queue[c]).value]])
    BY <1>2, CallersAre DEF Save, card, manager
  <2>2. PICK body : Ask(c, body) /\ DOMAIN body = {c}
    BY <2>1
  <2>3. call'[c].body = body /\ \A x \in Callers : x # c => call'[x] = call[x]
    BY <1>s, <2>1, <2>2, AskIs, CallersAre
  <2>4. Torrent # c
    BY <2>1, CallersAre
  <2> QED
    BY <1>i, <1>q, <2>1, <2>2, <2>3, <2>4
<1>3. ASSUME NEW c \in Cards, Saved(c) PROVE ConfigInv'
  <2>1. /\ c \in Alone /\ queue[c] # <<>> /\ UNCHANGED <<file, config, unsaved, update>>
        /\ \E ok : Over(c, ok)
        /\ call' = [call EXCEPT ![c] = NoCall]
    BY <1>3, <1>s DEF Saved, Busy, Alone, manager
  <2>2. queue'[Torrent] = queue[Torrent]
    BY <2>1, RestIs, CallersAre
  <2>3. call'[c].phase = "idle" /\ \A x \in Callers : x # c => call'[x] = call[x]
    BY <1>s, <2>1, OverIs, CallersAre
  <2> QED
    BY <1>i, <1>q, <2>1, <2>2, <2>3
<1>4. ASSUME NEW a \in Callers, Handle(a) PROVE ConfigInv'
  <2>1. UNCHANGED <<queue, config, unsaved, update>>
    BY <1>4 DEF Handle, card, manager
  <2>2. /\ call[a].phase = "sent" /\ call'[a].phase = "answered"
        /\ \A x \in Callers : x # a => call'[x] = call[x]
        /\ \A s \in Sections :
             file'[s] = IF s \in DOMAIN call[a].body THEN call[a].body[s] ELSE file[s]
    BY <1>4, <1>s, HandleIs
  <2>3. file'[Torrent] = file[Torrent]
    BY <1>i, <2>2, CallersAre
  <2> QED
    BY <1>i, <1>q, <2>1, <2>2, <2>3
<1>5. ASSUME NEW a \in Callers, Refuse(a) \/ LoseAnswer(a) PROVE ConfigInv'
  <2>1. /\ UNCHANGED <<file, queue, config, unsaved, update>>
        /\ call' = [call EXCEPT ![a].phase = "failed"]
    BY <1>5 DEF Refuse, LoseAnswer, card, manager
  <2>2. call'[a].phase = "failed" /\ \A x \in Callers : x # a => call'[x] = call[x]
    BY <1>s, <2>1, FailIs
  <2> QED
    BY <1>i, <1>q, <2>1, <2>2
<1>6. ASSUME NEW s, NEW f, NEW v, EditText(s, f, v) PROVE ConfigInv'
  BY <1>6 DEF EditText
<1>7. ASSUME NEW s \in Sections, NEW f, NEW v, Route(s, f, v) PROVE ConfigInv'
  <2>1. /\ Ask("routes", NoBody) /\ UNCHANGED <<queue, config, unsaved, update>>
        /\ file' = [file EXCEPT ![s][f] = v] /\ s # Torrent
    BY <1>7, CallersAre DEF Route, card, manager
  <2>2. file'[Torrent] = file[Torrent]
    BY <1>s, <2>1, CallersAre DEF Shape
  <2>3. call'["routes"].body = NoBody /\ \A x \in Callers : x # "routes" => call'[x] = call[x]
    BY <1>s, <2>1, AskIs, CallersAre
  <2>4. Torrent \notin DOMAIN NoBody
    BY DEF NoBody
  <2> QED
    BY <1>i, <1>q, <2>1, <2>2, <2>3, <2>4
<1>8. CASE SaveText
  BY <1>8 DEF SaveText
<1>9. CASE TextSaved \/ Refreshed
  <2>1. PICK a \in Callers : call' = [call EXCEPT ![a] = NoCall]
    BY <1>9, CallersAre DEF TextSaved, Refreshed
  <2>2. UNCHANGED <<file, queue, config, unsaved, update>>
    BY <1>9 DEF TextSaved, Refreshed, card, manager
  <2>3. call'[a].phase = "idle" /\ \A x \in Callers : x # a => call'[x] = call[x]
    BY <1>s, <2>1, OverIs
  <2> QED
    BY <1>i, <1>q, <2>2, <2>3
<1>10. CASE UpdateConfig
  <2>1. /\ UNCHANGED <<file, queue, call, unsaved>> /\ update.phase = "idle"
        /\ update' = [phase |-> "applying", previous |-> config]
        /\ config' = Patched(config)
    BY <1>10 DEF UpdateConfig, card
  <2>2. Patched(update.previous)' = config'
    BY <2>1 DEF Patched
  <2>3. HasFields(config)' /\ HasFields(file[Torrent])' /\ HasFields(update.previous)'
    BY <1>i, <2>1 DEF HasFields, Patched
  <2>4. Agree(update.previous, file[Torrent], unsaved)'
    BY <1>i, <2>1 DEF Agree
  <2> QED
    BY <1>i, <2>1, <2>2, <2>3, <2>4 DEF ConfigInv
<1>k. ASSUME UNCHANGED <<file, call, config, unsaved>>,
             update.phase \notin {"applying", "asking"},
             update'.phase \notin {"applying", "asking"}
      PROVE  ConfigInv'
  BY <1>i, <1>k DEF ConfigInv, Agree, HasFields
<1>r. CASE RefuseConfig
  <2>1. /\ UNCHANGED <<file, call, config, unsaved>> /\ update.phase = "idle"
        /\ update'.phase = "failed"
    BY <1>r DEF RefuseConfig, NoUpdate
  <2> QED
    BY <1>k, <2>1
<1>11. ASSUME update.phase \in {"applying", "asking"}, Persist, UNCHANGED <<config, call>>
       PROVE  ConfigInv'
  <2> DEFINE n == Head(queue[Torrent])
  <2>1. /\ HasFields(update.previous) /\ HasFields(file[Torrent]) /\ HasFields(config)
        /\ Agree(update.previous, file[Torrent], unsaved)
        /\ config = Patched(update.previous)
    BY <1>i, <1>11
  <2>2. /\ \A f \in Fields : config[f] = IF f = n.field THEN n.value ELSE update.previous[f]
    BY <2>1 DEF Patched, HasFields
  <2>3. CASE /\ file' = [file EXCEPT ![Torrent] = Patched(@)]
             /\ update' = [update EXCEPT !.phase = "answered"]
             /\ unsaved' = unsaved \ {n.field}
    <3>1. file'[Torrent] = Patched(file[Torrent]) /\ update'.phase = "answered"
      BY <1>s, <2>3, CallersAre DEF Shape
    <3>2. HasFields(file[Torrent])'
      BY <2>1, <3>1 DEF Patched, HasFields
    <3>3. \A f \in Fields :
            file'[Torrent][f] = IF f = n.field THEN n.value ELSE file[Torrent][f]
      BY <2>1, <3>1 DEF Patched, HasFields
    <3>4. Agree(config, file[Torrent], unsaved)'
      BY <1>11, <2>1, <2>2, <2>3, <3>3 DEF Agree
    <3>5. HasFields(config)'
      BY <1>11, <2>1 DEF HasFields
    <3> QED
      BY <1>i, <1>11, <3>1, <3>2, <3>4, <3>5 DEF ConfigInv
  <2>4. CASE /\ UNCHANGED file
             /\ update' = [update EXCEPT !.phase = "failed"]
             /\ unsaved' = unsaved \cup {n.field}
    <3>1. update'.phase = "failed"
      BY <1>s, <2>4 DEF Shape
    <3>2. Agree(config, file[Torrent], unsaved)'
      BY <1>11, <2>1, <2>2, <2>4 DEF Agree
    <3>3. HasFields(config)' /\ HasFields(file[Torrent])'
      BY <1>11, <2>1, <2>4 DEF HasFields
    <3> QED
      BY <1>i, <1>11, <3>1, <3>2, <3>3 DEF ConfigInv
  <2> QED
    BY <1>11, <2>3, <2>4 DEF Persist
<1>12. CASE ConfigApplied
  BY <1>11, <1>12 DEF ConfigApplied
<1>13. CASE ConfigFails
  <2>1. /\ update'.phase = "asking" /\ update'.previous = update.previous
        /\ update.phase = "applying" /\ UNCHANGED <<file, queue, call, config, unsaved>>
    BY <1>13, <1>s DEF ConfigFails, Shape, card
  <2> QED
    BY <1>i, <2>1 DEF ConfigInv, Patched, Agree, HasFields
<1>14. ASSUME NEW b \in BOOLEAN, Asked(b) PROVE ConfigInv'
  <2>1. CASE ~b
    BY <1>11, <1>14, <2>1 DEF Asked
  <2>2. CASE b
    <3>1. /\ config' = update.previous /\ UNCHANGED <<file, call, unsaved>>
          /\ update.phase = "asking" /\ update' = [update EXCEPT !.phase = "failed"]
      BY <1>14, <2>2 DEF Asked, RestoredConfig
    <3>2. update'.phase = "failed"
      BY <1>s, <3>1 DEF Shape
    <3> QED
      BY <1>i, <3>1, <3>2 DEF ConfigInv, Agree, HasFields
  <2> QED
    BY <2>1, <2>2
<1>15. CASE LoseConfig \/ TorrentSaved
  <2>1. /\ update.phase \in {"answered", "failed"} /\ UNCHANGED <<file, call, config, unsaved>>
        /\ update' = [update EXCEPT !.phase = "failed"] \/ update' = NoUpdate
    BY <1>15 DEF LoseConfig, TorrentSaved
  <2>2. update'.phase \in {"failed", "idle"}
    BY <1>s, <2>1 DEF Shape, NoUpdate
  <2> QED
    BY <1>k, <2>1, <2>2
<1>16. CASE Restart
  <2>1. config' = file[Torrent] /\ UNCHANGED file
    BY <1>16 DEF Restart
  <2>2. update'.phase \notin {"applying", "asking"} /\ \A a \in Callers : call'[a].phase # "sent"
    BY <1>16, <1>s, RestartIs
  <2> QED
    BY <1>i, <2>1, <2>2 DEF ConfigInv, Agree, HasFields
<1>17. CASE UNCHANGED vars
  BY <1>17, <1>i, <1>q DEF vars
<1> QED
  BY <1>1, <1>2, <1>3, <1>4, <1>5, <1>6, <1>7, <1>8, <1>9, <1>10, <1>12, <1>13, <1>14,
     <1>15, <1>16, <1>17, <1>r DEF Next
-----------------------------------------------------------------------------
(* The raw editor. *)

\* Every step keeps the editor's request within what was edited.
LEMMA EditorStep == EditorInv /\ Turns /\ [Next]_vars => EditorInv'
<1> SUFFICES ASSUME EditorInv, Turns, [Next]_vars PROVE EditorInv'
  OBVIOUS
<1>s. Shape
  BY DEF Turns
<1>i. /\ \A s \in Sections \ touched : text[s] = base[s]
      /\ call["raw"].phase = "sent" => Dirty /\ DOMAIN call["raw"].body \subseteq touched
  BY DEF EditorInv
<1>q. ASSUME UNCHANGED editor,
             call'["raw"] = call["raw"] \/ call'["raw"].phase # "sent"
      PROVE  EditorInv'
  BY <1>i, <1>q DEF EditorInv, editor, Dirty
<1>r. ASSUME NEW settings, NEW b \in BOOLEAN, Adopt(settings, b),
             call'["raw"].phase # "sent" \/ (call'["raw"] = call["raw"] /\ ~b)
      PROVE  EditorInv'
  <2>1. CASE text' = base' /\ (b \/ ~Dirty)
    BY <1>i, <1>r, <2>1 DEF EditorInv
  <2>2. CASE UNCHANGED editor
    BY <1>q, <1>r, <2>2
  <2> QED
    BY <1>r, <1>s, <2>1, <2>2, AdoptIs
<1>1. ASSUME NEW c \in Cards, NEW f, NEW v, Commit(c, f, v) PROVE EditorInv'
  BY <1>1, <1>q DEF Commit
<1>2. ASSUME NEW c \in Cards, Save(c) PROVE EditorInv'
  <2>1. c \in Alone /\ UNCHANGED editor /\ \E body : Ask(c, body)
    BY <1>2, CallersAre DEF Save
  <2>2. c \in Callers /\ "raw" \in Callers /\ c # "raw"
    BY <2>1, CallersAre
  <2>3. PICK body : Ask(c, body)
    BY <2>1
  <2>4. \A x \in Callers : x # c => call'[x] = call[x]
    BY <1>s, <2>2, <2>3, AskIs
  <2>5. call'["raw"] = call["raw"]
    BY <2>2, <2>4
  <2> QED
    BY <1>q, <2>1, <2>5
<1>3. ASSUME NEW c \in Cards, Saved(c) PROVE EditorInv'
  <2>1. /\ c \in Alone /\ call' = [call EXCEPT ![c] = NoCall]
        /\ IF call[c].phase = "answered"
             THEN Adopt(call[c].result, FALSE) ELSE UNCHANGED <<page, editor>>
    BY <1>3 DEF Saved, Alone
  <2>2. call'["raw"] = call["raw"]
    BY <1>s, <2>1, OverIs, CallersAre
  <2> QED
    BY <1>q, <1>r, <2>1, <2>2
<1>4. ASSUME NEW a \in Callers, Handle(a) PROVE EditorInv'
  <2>1. call'["raw"] = call["raw"] \/ call'["raw"].phase # "sent"
    BY <1>4, <1>s, HandleIs, CallersAre
  <2> QED
    BY <1>4, <1>q, <2>1 DEF Handle
<1>5. ASSUME NEW a \in Callers, Refuse(a) \/ LoseAnswer(a) PROVE EditorInv'
  <2>1. call' = [call EXCEPT ![a].phase = "failed"] /\ UNCHANGED editor
    BY <1>5 DEF Refuse, LoseAnswer
  <2>2. call'["raw"] = call["raw"] \/ call'["raw"].phase # "sent"
    BY <1>s, <2>1, FailIs, CallersAre
  <2> QED
    BY <1>q, <2>1, <2>2
<1>6. ASSUME NEW s \in Sections, NEW f, NEW v, EditText(s, f, v) PROVE EditorInv'
  <2>1. /\ text' = [text EXCEPT ![s][f] = v] /\ touched' = touched \cup {s}
        /\ UNCHANGED <<call, base>>
    BY <1>6 DEF EditText
  <2>2. \A x \in Sections \ touched' : text'[x] = text[x]
    BY <1>s, <2>1 DEF Shape
  <2>3. \A x \in Sections \ touched' : text'[x] = base'[x]
    BY <1>i, <2>1, <2>2
  <2>4. call'["raw"].phase = "sent" => Dirty' /\ DOMAIN call'["raw"].body \subseteq touched'
    BY <1>i, <2>1 DEF Dirty
  <2> QED
    BY <2>3, <2>4 DEF EditorInv
<1>7. ASSUME NEW s \in Sections, NEW f, NEW v, Route(s, f, v) PROVE EditorInv'
  <2>1. Ask("routes", NoBody) /\ UNCHANGED editor
    BY <1>7 DEF Route
  <2>2. \A x \in Callers : x # "routes" => call'[x] = call[x]
    BY <1>s, <2>1, AskIs, CallersAre
  <2>3. call'["raw"] = call["raw"]
    BY <2>2, CallersAre
  <2> QED
    BY <1>q, <2>1, <2>3
<1>8. CASE SaveText
  <2>1. PICK body : Ask("raw", body) /\ DOMAIN body = Changed
    BY <1>8 DEF SaveText
  <2>2. Dirty /\ UNCHANGED editor
    BY <1>8 DEF SaveText
  <2>3. Changed \subseteq touched
    BY <1>i DEF Changed
  <2>4. call'["raw"].body = body
    BY <1>s, <2>1, AskIs, CallersAre
  <2> QED
    BY <1>i, <2>1, <2>2, <2>3, <2>4 DEF EditorInv, editor, Dirty
<1>9. CASE TextSaved
  <2>1. call'["raw"].phase = "idle"
    BY <1>9, <1>s, OverIs, CallersAre DEF TextSaved
  <2> QED
    BY <1>9, <1>q, <1>r, <2>1 DEF TextSaved
<1>10. CASE Refreshed
  <2>1. call'["raw"] = call["raw"]
    BY <1>10, <1>s, OverIs, CallersAre DEF Refreshed
  <2> QED
    BY <1>10, <1>q, <1>r, <2>1 DEF Refreshed
<1>11. CASE Restart
  <2>1. call'["raw"].phase # "sent" /\ UNCHANGED editor
    BY <1>11, <1>s, RestartIs, CallersAre DEF Restart
  <2> QED
    BY <1>q, <2>1
<1>12. ASSUME UNCHANGED <<call, editor>> PROVE EditorInv'
  BY <1>12, <1>q
<1> QED
  BY <1>1, <1>2, <1>3, <1>4, <1>5, <1>6, <1>7, <1>8, <1>9, <1>10, <1>11, <1>12
     DEF Next, UpdateConfig, RefuseConfig, ConfigApplied, ConfigFails, Asked, LoseConfig,
         TorrentSaved, vars, editor
-----------------------------------------------------------------------------
(* One card in use. *)

\* Every step of a page where one card is in use keeps what it has of the
\* section to what the card was told.
LEMMA AloneStep == AloneInv /\ Turns /\ [Next]_vars => AloneInv'
<1> SUFFICES ASSUME AloneInv, Turns, [Next]_vars,
                    NEW c \in Alone, load \ {"restart"} = {c}
             PROVE  /\ page'[c] = told'[c]
                    /\ \A a \in Callers \ {c} : call'[a].phase = "idle"
                    /\ \A d \in Cards \ {c} : queue'[d] = <<>>
                    /\ call'[c].phase = "sent" =>
                         DOMAIN call'[c].body = {c} /\ call'[c].body[c] = Composed(c)'
                    /\ call'[c].phase = "answered" => call'[c].result[c] = Composed(c)'
  BY LoadStays DEF AloneInv
<1> DEFINE Goal == /\ page'[c] = told'[c]
                   /\ \A a \in Callers \ {c} : call'[a].phase = "idle"
                   /\ \A d \in Cards \ {c} : queue'[d] = <<>>
                   /\ call'[c].phase = "sent" =>
                        DOMAIN call'[c].body = {c} /\ call'[c].body[c] = Composed(c)'
                   /\ call'[c].phase = "answered" => call'[c].result[c] = Composed(c)'
<1>g. SUFFICES Goal
  OBVIOUS
<1>s. Shape /\ Busy
  BY DEF Turns
<1>i. /\ page[c] = told[c]
      /\ \A a \in Callers \ {c} : call[a].phase = "idle"
      /\ \A d \in Cards \ {c} : queue[d] = <<>>
      /\ call[c].phase = "sent" =>
           DOMAIN call[c].body = {c} /\ call[c].body[c] = Composed(c)
      /\ call[c].phase = "answered" => call[c].result[c] = Composed(c)
  BY DEF AloneInv
<1>c. /\ c \in Callers /\ c \in Cards /\ c # Torrent /\ c \in Sections
      /\ c # "raw" /\ c # "routes"
  BY CallersAre, SettingsAssumption
<1>l. /\ "raw" \notin load /\ "routes" \notin load /\ \A d \in Cards \ {c} : d \notin load
      /\ queue[Torrent] = <<>> /\ call["raw"].phase = "idle" /\ call["routes"].phase = "idle"
  BY <1>c, <1>i, CallersAre, SettingsAssumption
<1>q. ASSUME UNCHANGED <<page, told, call, queue>> PROVE Goal
  <2>1. Composed(c)' = Composed(c)
    BY <1>q DEF Composed
  <2> QED
    BY <1>i, <1>q, <2>1
<1>1. ASSUME NEW d \in Cards, NEW f \in Fields, NEW v \in Values, Commit(d, f, v) PROVE Goal
  <2>1. d = c /\ UNCHANGED <<page, told, call>>
    BY <1>1, <1>l DEF Commit
  <2>2. \A x \in Cards : x # c => queue'[x] = queue[x]
    BY <1>1, <2>1, CommitIs
  <2>3. ASSUME call[c].phase # "idle" PROVE Composed(c)' = Composed(c)
    <3>1. queue[c] # <<>>
      BY <1>s, <2>3 DEF Busy
    <3>2. Head(queue'[c]) = Head(queue[c])
      BY <1>1, <1>c, <3>1, CommitIs
    <3> QED
      BY <2>1, <3>2 DEF Composed
  <2> QED
    BY <1>i, <2>1, <2>2, <2>3
<1>2. ASSUME NEW d \in Cards, Save(d) PROVE Goal
  <2>1. d = c
    BY <1>2, <1>i DEF Save
  <2>2. /\ Ask(c, [s \in {c} |-> Composed(c)]) /\ UNCHANGED <<page, told, queue>>
    BY <1>2, <2>1 DEF Save, Composed, card
  <2>3. /\ call'[c].phase = "sent" /\ call'[c].body = [s \in {c} |-> Composed(c)]
        /\ \A x \in Callers : x # c => call'[x] = call[x]
    BY <1>s, <1>c, <2>2, AskIs
  <2>4. Composed(c)' = Composed(c)
    BY <2>2 DEF Composed
  <2> QED
    BY <1>i, <2>2, <2>3, <2>4
<1>3. ASSUME NEW d \in Cards, Saved(d) PROVE Goal
  <2>1. d = c
    BY <1>3, <1>i, CallersAre DEF Saved, Alone
  <2>2. call' = [call EXCEPT ![c] = NoCall] /\ queue[c] # <<>> /\ \E ok : Over(c, ok)
    BY <1>3, <1>s, <2>1 DEF Saved, Busy
  <2>3. \A x \in Cards : x # c => queue'[x] = queue[x]
    BY <1>c, <2>2, RestIs
  <2>4. call'[c].phase = "idle" /\ \A x \in Callers : x # c => call'[x] = call[x]
    BY <1>s, <1>c, <2>2, OverIs
  <2>5. page'[c] = told'[c]
    <3>1. CASE call[c].phase = "answered"
      <4>1. page' = call[c].result
        BY <1>3, <1>s, <2>1, <3>1, AdoptIs DEF Saved
      <4>2. page'[c] = [page[c] EXCEPT ![Head(queue[c]).field] = Head(queue[c]).value]
        BY <1>i, <3>1, <4>1 DEF Composed
      <4>3. told' = [told EXCEPT ![c][Head(queue[c]).field] = Head(queue[c]).value]
        BY <1>3, <2>1, <3>1 DEF Saved
      <4>4. told'[c] = [told[c] EXCEPT ![Head(queue[c]).field] = Head(queue[c]).value]
        BY <1>s, <1>c, <4>3 DEF Shape
      <4> QED
        BY <1>i, <4>2, <4>4
    <3>2. CASE call[c].phase # "answered"
      BY <1>3, <1>i, <2>1, <3>2 DEF Saved
    <3> QED
      BY <3>1, <3>2
  <2> QED
    BY <1>i, <2>3, <2>4, <2>5
<1>4. ASSUME NEW a \in Callers, Handle(a) PROVE Goal
  <2>1. /\ call[a].phase = "sent" /\ call'[a].phase = "answered" /\ call'[a].result = file'
        /\ \A x \in Callers : x # a => call'[x] = call[x]
        /\ \A s \in Sections :
             file'[s] = IF s \in DOMAIN call[a].body THEN call[a].body[s] ELSE file[s]
    BY <1>4, <1>s, HandleIs
  <2>2. a = c
    BY <1>i, <2>1
  <2>3. file'[c] = Composed(c)
    BY <1>c, <1>i, <2>1, <2>2
  <2>4. UNCHANGED <<page, told, queue>> /\ Composed(c)' = Composed(c)
    BY <1>4 DEF Handle, card, Composed
  <2> QED
    BY <1>i, <2>1, <2>2, <2>3, <2>4
<1>5. ASSUME NEW a \in Callers, Refuse(a) \/ LoseAnswer(a) PROVE Goal
  <2>1. /\ call' = [call EXCEPT ![a].phase = "failed"] /\ UNCHANGED <<page, told, queue>>
        /\ call[a].phase # "idle"
    BY <1>5 DEF Refuse, LoseAnswer, card
  <2>2. a = c
    BY <1>i, <2>1
  <2>3. call'[a].phase = "failed" /\ \A x \in Callers : x # a => call'[x] = call[x]
    BY <1>s, <2>1, FailIs
  <2> QED
    BY <1>i, <2>1, <2>2, <2>3
<1>6. ASSUME NEW s, NEW f, NEW v, EditText(s, f, v) PROVE Goal
  BY <1>6, <1>l DEF EditText
<1>7. ASSUME NEW s, NEW f, NEW v, Route(s, f, v) PROVE Goal
  BY <1>7, <1>l DEF Route
<1>8. CASE SaveText \/ TextSaved \/ Refreshed
  BY <1>8, <1>l DEF SaveText, TextSaved, Refreshed
<1>9. CASE UpdateConfig \/ RefuseConfig \/ TorrentSaved
  BY <1>9, <1>l, <1>s DEF UpdateConfig, RefuseConfig, TorrentSaved, Busy
<1>10. CASE Restart
  <2>1. UNCHANGED <<page, told, queue>> /\ Composed(c)' = Composed(c)
    BY <1>10 DEF Restart, card, Composed
  <2>2. \A a \in Callers :
          /\ call'[a].result = call[a].result
          /\ call'[a].phase = IF call[a].phase = "sent" THEN "failed" ELSE call[a].phase
    BY <1>10, <1>s, RestartIs
  <2> QED
    BY <1>c, <1>i, <2>1, <2>2
<1>11. CASE ConfigApplied \/ ConfigFails \/ LoseConfig \/ (\E b \in BOOLEAN : Asked(b))
  BY <1>11, <1>q DEF ConfigApplied, ConfigFails, LoseConfig, Asked, card
<1>12. CASE UNCHANGED vars
  BY <1>12, <1>q DEF vars
<1> HIDE DEF Goal
<1> QED
  BY <1>1, <1>2, <1>3, <1>4, <1>5, <1>6, <1>7, <1>8, <1>9, <1>10, <1>11, <1>12 DEF Next
-----------------------------------------------------------------------------
(* Theorems. *)

IInv == Turns /\ ConfigInv /\ EditorInv /\ AloneInv

LEMMA Initially == Init => IInv
<1> SUFFICES ASSUME Init PROVE IInv
  OBVIOUS
<1>1. Empty \in Section
  BY SettingsAssumption DEF Empty, Section, Values
<1>2. <<>> \in Seq(Commits)
  BY EmptySeq
<1>3. Torrent \in Sections
  BY CallersAre
<1>4. \A a \in Callers : call[a] = NoCall
  BY DEF Init
<1>5. Shape
  BY <1>1, <1>2, <1>4 DEF Init, Shape, NoCall, NoUpdate, Shown
<1>6. Busy
  BY <1>4, CallersAre DEF Init, Busy, NoCall, NoUpdate
<1>7. ConfigInv
  BY <1>3, <1>4 DEF Init, ConfigInv, NoCall, NoUpdate, Agree, HasFields, Empty
<1>8. EditorInv
  BY <1>4, CallersAre DEF Init, EditorInv, NoCall
<1>9. AloneInv
  <2>1. \A c \in Alone : page[c] = told[c]
    BY SettingsAssumption, CallersAre DEF Init
  <2> QED
    BY <1>4, <2>1, CallersAre DEF Init, AloneInv, NoCall
<1> QED
  BY <1>5, <1>6, <1>7, <1>8, <1>9 DEF IInv, Turns

LEMMA Inductive == Spec => []IInv
<1>1. IInv /\ [Next]_vars => IInv'
  BY TurnsStep, ConfigStep, EditorStep, AloneStep DEF IInv
<1> QED
  BY <1>1, Initially, PTL DEF Spec

\* Whatever becomes of a save of the torrent card (updateConfig and the route
\* that calls it: applied, refused, undone because Transmission refused it, kept
\* because Transmission was away, cut short by a restart), the torrent manager
\* works with what is saved, as long as the raw editor is not in use.  Only a
\* field whose write to the file failed may differ, and no other with it.
THEOREM ConfigKept == Spec => []ConfigSaved
<1>1. IInv => ConfigSaved
  BY DEF IInv, ConfigInv, ConfigSaved, Agree
<1> QED
  BY <1>1, Inductive, PTL

\* A save of the raw editor (rawJsonPatch against the baseline the editor was
\* loaded with) changes no section that was not edited in it, whatever the
\* cards, the routes and the daemon did in the meantime.
THEOREM UnrelatedStay == Spec => UnrelatedKept
<1>1. IInv /\ [Next]_vars
        => [call["raw"].phase = "sent" /\ call'["raw"].phase = "answered"
              => \A s \in Sections \ touched : file'[s] = file[s]]_vars
  <2> SUFFICES ASSUME IInv, [Next]_vars, call["raw"].phase = "sent",
                      call'["raw"].phase = "answered", NEW s \in Sections \ touched
               PROVE  file'[s] = file[s]
    OBVIOUS
  <2>1. "raw" \in Callers /\ Turns /\ Shape
    BY CallersAre DEF IInv, Turns
  <2>2. Handle("raw")
    BY <2>1, Answering
  <2>3. \A x \in Sections :
          file'[x] = IF x \in DOMAIN call["raw"].body THEN call["raw"].body[x] ELSE file[x]
    BY <2>1, <2>2, HandleIs
  <2>4. s \notin DOMAIN call["raw"].body
    BY DEF IInv, EditorInv
  <2> QED
    BY <2>3, <2>4
<1> QED
  BY <1>1, Inductive, PTL DEF Spec, UnrelatedKept

\* On a page where one card is in use, a save of it (saveSettingsSection, one
\* commit after the other) takes no other field of the section back to an older
\* value, however many saves failed or lost their answer before it.
THEOREM SiblingsStay == Spec => SiblingsKept
<1>1. IInv /\ [Next]_vars
        => [\A c \in Cards \ {Torrent} : load \ {"restart"} = {c} => ~Clobbers(c)]_vars
  <2> SUFFICES ASSUME IInv, [Next]_vars, NEW c \in Alone, load \ {"restart"} = {c},
                      call[c].phase = "sent", call'[c].phase = "answered",
                      NEW f \in Fields, f # Head(queue[c]).field
               PROVE  file'[c][f] = told[c][f]
    BY DEF Clobbers, Alone
  <2>1. c \in Callers /\ c \in Cards /\ c \in Sections /\ Turns /\ Shape
    BY CallersAre, SettingsAssumption DEF IInv, Turns
  <2>2. Handle(c)
    BY <2>1, Answering
  <2>3. \A x \in Sections :
          file'[x] = IF x \in DOMAIN call[c].body THEN call[c].body[x] ELSE file[x]
    BY <2>1, <2>2, HandleIs
  <2>4. /\ page[c] = told[c] /\ DOMAIN call[c].body = {c} /\ call[c].body[c] = Composed(c)
    BY DEF IInv, AloneInv
  <2>5. file'[c] = [told[c] EXCEPT ![Head(queue[c]).field] = Head(queue[c]).value]
    BY <2>1, <2>3, <2>4 DEF Composed
  <2>6. told[c] \in [Fields -> Values]
    BY <2>1 DEF Shape, Section
  <2> QED
    BY <2>5, <2>6
<1> QED
  BY <1>1, Inductive, PTL DEF Spec, SiblingsKept
=============================================================================
