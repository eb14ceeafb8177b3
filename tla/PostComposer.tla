---------------------------- MODULE PostComposer ----------------------------
(***************************************************************************)
(* Writing a post: the composer with its image uploads                     *)
(* (components/social/post-composer.tsx), the presigned upload and the     *)
(* route that creates the post (app/api/v1/social/posts/route.ts and       *)
(* posts/images/presign/route.ts).                                         *)
(*                                                                         *)
(* A text is a version number of the draft, 0 the empty one.  An image is  *)
(* numbered in the order of its choice; the list of uploads is only        *)
(* appended to and filtered, so a set of images stands for it.  Audience,  *)
(* comments switch, mentions and hashtags only travel with the text and    *)
(* are left out.                                                           *)
(***************************************************************************)
EXTENDS Naturals, FiniteSetsExt

CONSTANTS
  MaxPostImages, \* MAX_POST_IMAGES
  PostLimit,     \* the daily limit "post"
  MaxImages,     \* bound on the images chosen
  MaxEdits,      \* bound on the versions of the text
  MaxPublishes   \* bound on the posts sent

ASSUME ComposerAssumption ==
  /\ MaxPostImages \in Nat \ {0} /\ PostLimit \in Nat
  /\ MaxImages \in Nat /\ MaxEdits \in Nat /\ MaxPublishes \in Nat

Images == 1..MaxImages
Publishes == 1..MaxPublishes
Tabs == {"text", "image", "reading"}

VARIABLES
  open, tab, content, reading, \* the composer and its draft
  uploads,  \* the images listed
  keys,     \* those among them that have their key
  batch,    \* per image: the first image of the lot it was chosen in, 0 if none
  lot,      \* per lot: "none", "presign", "put", "failed"
  put,      \* per image: "none", "sent", "over"
  objects,  \* the images in the object store
  edits,
  publish,  \* per post sent: where it is and its body
  posts,    \* those in the database
  used,     \* posts counted by the daily limit
  balance,  \* readings paid to the author
  cleared,  \* the images a success took off the list
  deaf      \* a post was created and its answer lost

draft == <<open, tab, content, reading, edits>>
files == <<uploads, keys, batch, lot, put, objects>>
server == <<posts, used, balance>>
vars == <<draft, files, publish, server, cleared, deaf>>

Body == [type : Tabs, content : 0..MaxEdits, images : SUBSET Images, reading : BOOLEAN]
NoBody == [type |-> "text", content |-> 0, images |-> {}, reading |-> FALSE]

TypeOK ==
  /\ open \in BOOLEAN /\ tab \in Tabs /\ content \in 0..MaxEdits
  /\ reading \in BOOLEAN /\ edits \in 0..MaxEdits
  /\ uploads \subseteq Images /\ keys \subseteq Images
  /\ batch \in [Images -> 0..MaxImages]
  /\ lot \in [Images -> {"none", "presign", "put", "failed"}]
  /\ put \in [Images -> {"none", "sent", "over"}] /\ objects \subseteq Images
  /\ publish \in [Publishes -> [pc : {"none", "sent", "admitted", "ok", "refused", "over"},
                                body : Body]]
  /\ posts \subseteq Publishes /\ used \in 0..PostLimit /\ balance \in Nat
  /\ cleared \subseteq Images /\ deaf \in BOOLEAN

Init ==
  /\ open = FALSE /\ tab = "text" /\ content = 0 /\ reading = FALSE /\ edits = 0
  /\ uploads = {} /\ keys = {}
  /\ batch = [i \in Images |-> 0] /\ lot = [b \in Images |-> "none"]
  /\ put = [i \in Images |-> "none"] /\ objects = {}
  /\ publish = [q \in Publishes |-> [pc |-> "none", body |-> NoBody]]
  /\ posts = {} /\ used = 0 /\ balance = 0
  /\ cleared = {} /\ deaf = FALSE

-----------------------------------------------------------------------------
Open ==
  /\ ~open /\ open' = TRUE
  /\ UNCHANGED <<tab, content, reading, edits, files, publish, server, cleared, deaf>>

\* onClose, of the button, the cross or the backdrop: the draft stays.
Close ==
  /\ open /\ open' = FALSE
  /\ UNCHANGED <<tab, content, reading, edits, files, publish, server, cleared, deaf>>

SelectTab(t) ==
  /\ open /\ tab' = t
  /\ UNCHANGED <<open, content, reading, edits, files, publish, server, cleared, deaf>>

handleChange ==
  /\ open /\ edits < MaxEdits
  /\ edits' = edits + 1 /\ content' \in {0, edits + 1}
  /\ UNCHANGED <<open, tab, reading, files, publish, server, cleared, deaf>>

PickReading ==
  /\ open /\ tab = "reading"
  /\ reading' = ~reading
  /\ UNCHANGED <<open, tab, content, edits, files, publish, server, cleared, deaf>>

-----------------------------------------------------------------------------
(* handleFiles: n images of those chosen fit and are valid; they are listed *)
(* at once, and one presign is asked for all of them.                       *)
Chosen == {i \in Images : batch[i] # 0}
LotOf(b) == {i \in Images : batch[i] = b}
Room == MaxPostImages - Cardinality(uploads)

handleFiles(n) ==
  LET first == Cardinality(Chosen) + 1
      new == first..(first + n - 1)
  IN
  /\ open /\ tab = "image"
  /\ n <= Room /\ new \subseteq Images
  /\ uploads' = uploads \cup new
  /\ batch' = [i \in Images |-> IF i \in new THEN first ELSE batch[i]]
  /\ lot' = [lot EXCEPT ![first] = "presign"]
  /\ UNCHANGED <<draft, keys, put, objects, publish, server, cleared, deaf>>

Presigned(b) ==
  /\ lot[b] = "presign"
  /\ lot' = [lot EXCEPT ![b] = "put"]
  /\ put' = [i \in Images |-> IF batch[i] = b THEN "sent" ELSE put[i]]
  /\ UNCHANGED <<draft, uploads, keys, batch, objects, publish, server, cleared, deaf>>

\* Mutant: every image without a key goes.
WithoutPending(b) == uploads \cap keys

\* Mutant: the list is left as it is.
AllStay(b) == uploads

WithoutLot(b) == {i \in uploads : batch[i] # b}

\* The catch block: the images of the lot leave the list, none other.
LotFails(b) ==
  /\ lot' = [lot EXCEPT ![b] = "failed"]
  /\ uploads' = WithoutLot(b)
  /\ keys' = keys \ LotOf(b)

PresignRefused(b) ==
  /\ lot[b] = "presign"
  /\ LotFails(b)
  /\ UNCHANGED <<draft, batch, put, objects, publish, server, cleared, deaf>>

\* Mutant: the keys are noted when the uploads start.
KeysAtOnce(i) == keys \cup (LotOf(batch[i]) \cap uploads)

KeyNoted(i) == keys \cup ({i} \cap uploads)

(* The PUT of one image: the first failure of a lot rejects Promise.all,    *)
(* the other uploads of the lot go on.                                      *)
PutAnswers(i) ==
  /\ put[i] = "sent"
  /\ put' = [put EXCEPT ![i] = "over"]
  /\ \/ /\ objects' = objects \cup {i}
        /\ keys' = KeyNoted(i)
        /\ UNCHANGED <<uploads, lot>>
     \/ /\ objects' \in {objects, objects \cup {i}}
        /\ IF lot[batch[i]] = "put" THEN LotFails(batch[i])
                                    ELSE UNCHANGED <<uploads, keys, lot>>
  /\ UNCHANGED <<draft, batch, publish, server, cleared, deaf>>

-----------------------------------------------------------------------------
Keyed == uploads \cap keys

canSubmit ==
  CASE tab = "reading" -> reading
    [] tab = "image"   -> Keyed # {}
    [] OTHER           -> content # 0

\* Mutant: a second click sends the draft again.
NeverPending == FALSE

isPending == \E q \in Publishes : publish[q].pc \notin {"none", "over"}

body == [type |-> tab, content |-> content,
         images |-> IF tab = "image" THEN Keyed ELSE {},
         reading |-> tab = "reading"]

handleSubmit ==
  LET unsent == {q \in Publishes : publish[q].pc = "none"} IN
  /\ open /\ canSubmit /\ ~isPending /\ unsent # {}
  /\ publish' = [publish EXCEPT ![Min(unsent)] = [pc |-> "sent", body |-> body]]
  /\ UNCHANGED <<draft, files, server, cleared, deaf>>

\* enforceSocialLimit counts the attempt, whatever becomes of it.
Admit(q) ==
  /\ publish[q].pc = "sent"
  /\ publish' = [publish EXCEPT ![q].pc = IF used < PostLimit THEN "admitted" ELSE "refused"]
  /\ used' = IF used < PostLimit THEN used + 1 ELSE used
  /\ UNCHANGED <<draft, files, posts, balance, cleared, deaf>>

\* A key of another format, an image too large, a blocked word, a reading of
\* somebody else; or the process stops, or the network.
Refuse(q) ==
  /\ publish[q].pc \in {"sent", "admitted"}
  /\ publish' = [publish EXCEPT ![q].pc = "refused"]
  /\ UNCHANGED <<draft, files, server, cleared, deaf>>

\* The transaction: a reading is paid and posted, or neither.
CreatePost(q) ==
  /\ publish[q].pc = "admitted"
  /\ posts' = posts \cup {q}
  /\ balance' = IF publish[q].body.reading THEN balance + 1 ELSE balance
  /\ publish' = [publish EXCEPT ![q].pc = "ok"]
  /\ UNCHANGED <<draft, files, used, cleared, deaf>>

AnswerLost(q) ==
  /\ publish[q].pc = "ok"
  /\ publish' = [publish EXCEPT ![q].pc = "refused"]
  /\ deaf' = TRUE
  /\ UNCHANGED <<draft, files, server, cleared>>

(* onSuccess clears the draft, also what was written since, and closes the  *)
(* composer; onError keeps everything.                                      *)
Answer(q) ==
  /\ publish[q].pc \in {"ok", "refused"}
  /\ publish' = [publish EXCEPT ![q].pc = "over"]
  /\ IF publish[q].pc = "ok"
       THEN /\ open' = FALSE /\ tab' = "text" /\ content' = 0 /\ reading' = FALSE
            /\ uploads' = {} /\ keys' = {}
            /\ cleared' = cleared \cup uploads
       ELSE UNCHANGED <<open, tab, content, reading, uploads, keys, cleared>>
  /\ UNCHANGED <<edits, batch, lot, put, objects, server, deaf>>

Network ==
  \/ \E b \in Images : Presigned(b) \/ PresignRefused(b)
  \/ \E i \in Images : PutAnswers(i)
  \/ \E q \in Publishes : Admit(q) \/ Refuse(q) \/ CreatePost(q) \/ AnswerLost(q)
                          \/ Answer(q)

Next ==
  \/ Open \/ Close \/ handleChange \/ PickReading \/ handleSubmit
  \/ \E t \in Tabs : SelectTab(t)
  \/ \E n \in 1..MaxPostImages : handleFiles(n)
  \/ Network

Spec == Init /\ [][Next]_vars

-----------------------------------------------------------------------------
(* A post of images shows at least one and at most four, and each of them   *)
(* was stored; readings paid are readings posted.                           *)
PostsAreWhole ==
  /\ \A q \in posts : LET images == publish[q].body.images IN
       /\ publish[q].body.type = "image" => Cardinality(images) \in 1..MaxPostImages
       /\ images \subseteq objects
  /\ balance = Cardinality({q \in posts : publish[q].body.reading})

(* No image chosen is forgotten: it is on the list until its own lot fails  *)
(* or a post succeeds, whatever the other lots do; and while it is shown as *)
(* being uploaded, something of its own is on the way.                      *)
ImagesAccounted ==
  \A i \in Chosen :
    /\ i \in uploads \/ lot[batch[i]] = "failed" \/ i \in cleared
    /\ i \in uploads \ keys => lot[batch[i]] = "presign" \/ put[i] = "sent"

(* One draft is posted once, unless the answer to its first post was lost.  *)
PostedOnce ==
  \A p, q \in posts :
    p # q /\ publish[p].body = publish[q].body /\ ~publish[p].body.reading => deaf
=============================================================================
