----------------------------- MODULE ImageIntake -----------------------------
(***************************************************************************)
(* message/image.rs and lib.rs handle_message: the images of one message.  *)
(* The image segments come first, then the links in the text, and if these *)
(* give nothing, the images of the messages it quotes.  The bot's API and  *)
(* the servers that hold the images are external: each call may fail.      *)
(*                                                                         *)
(* A segment is what its data has under "url" and "file": an http(s) URL,  *)
(* the name of a file, or Absent (absent, empty, not http).               *)
(***************************************************************************)
EXTENDS Naturals, FiniteSets, Sequences, SequencesExt

CONSTANTS
  Urls,      \* URLs
  Names,     \* file names, which get_image turns into URLs
  Absent,   \* no URL, no file name, no image
  Refused,   \* the URLs is_ssrf_url refuses
  Cdn,       \* the URLs on QQ's CDN, which are downloaded in either mode
  LinkKinds, \* what IMAGE_URL_RE, QQ_AVATAR_RE, QQ_CDN_RE match, in order
  Posts      \* the messages, a subset of AllPosts

Segments == [url : Urls \cup {Absent}, file : Urls \cup Names \cup {Absent}]

(* links: the URLs in the first text segment, in order; quoted: the image  *)
(* segments of each message that is quoted.                                *)
AllPosts == [segments : Seq(Segments), links : Seq(Urls), quoted : Seq(Seq(Segments))]

ASSUME IntakeAssumption ==
  /\ Posts \subseteq AllPosts
  /\ Refused \subseteq Urls /\ Cdn \subseteq Urls
  /\ LinkKinds \in Seq(SUBSET Urls)
  /\ Absent \notin Urls \cup Names /\ Urls \cap Names = {}

VARIABLES
  recognition, \* config image_recognition
  mode,        \* config image_mode, "url" or "base64"
  post,        \* the message
  stage,       \* "segments", "links", "quoted", "over"
  todo,        \* the segments or links still to be looked at
  quotes,      \* the quoted messages still to be fetched
  waiting,     \* what the handler awaits, or Idle
  results,     \* results, in the end image_urls
  tried        \* ghost: what became of each segment and link

intakeVars == <<recognition, mode, post, stage, todo, quotes, waiting, results, tried>>

Idle == [call |-> "none", on |-> Absent]

(* What goes to the model: a URL as it is, or its content, of some length, *)
(* in base64.                                                              *)
Link(u) == <<"link", u>>
Content(u, length) == <<"content", u, length>>

IntakeInit ==
  /\ recognition \in BOOLEAN
  /\ mode \in {"url", "base64"}
  /\ post \in Posts
  /\ stage = IF recognition THEN "segments" ELSE "over"
  /\ todo = IF recognition THEN post.segments ELSE <<>>
  /\ quotes = <<>>
  /\ waiting = Idle
  /\ results = <<>>
  /\ tried = <<>>

Noted(u, image) ==
  tried' = Append(tried, [stage |-> stage, url |-> u, image |-> image])

(* One item is dealt with; an image that cannot be had is left out, and    *)
(* the rest goes on.                                                       *)
FailureEndsStage(image) == IF image = Absent THEN <<>> ELSE Tail(todo)

RestAfter(image) == Tail(todo)

NoCall == Idle

Settle(u, image) ==
  /\ Noted(u, image)
  /\ results' = IF image = Absent THEN results ELSE Append(results, image)
  /\ todo' = RestAfter(image)
  /\ waiting' = NoCall
  /\ UNCHANGED <<recognition, mode, post, stage, quotes>>

-----------------------------------------------------------------------------
(* process_image_url: refuse, pass the URL on, or download it.             *)
RefusedInText(u) == u \in Refused /\ stage = "links"

IsRefused(u) == u \in Refused

PassedOn(u) == mode = "url" /\ u \notin Cdn

Process(u) ==
  IF IsRefused(u) THEN Settle(u, Absent)
  ELSE IF PassedOn(u) THEN Settle(u, Link(u))
  ELSE /\ waiting' = [call |-> "download", on |-> u]
       /\ UNCHANGED <<recognition, mode, post, stage, todo, quotes, results, tried>>

(* The URL of a segment: "url", else "file" if it is one; a file name is   *)
(* asked for with get_image.                                               *)
UrlIn(seg) ==
  CASE seg.url \in Urls -> seg.url
    [] seg.url \notin Urls /\ seg.file \in Urls -> seg.file
    [] OTHER -> Absent

Ready(s) == stage = s /\ waiting = Idle

TakeSegment ==
  /\ Ready("segments") \/ Ready("quoted")
  /\ todo # <<>>
  /\ LET seg == Head(todo)
     IN  CASE UrlIn(seg) # Absent -> Process(UrlIn(seg))
           [] UrlIn(seg) = Absent /\ seg.file \in Names ->
                /\ waiting' = [call |-> "get_image", on |-> seg.file]
                /\ UNCHANGED <<recognition, mode, post, stage, todo, quotes, results, tried>>
           [] OTHER -> Settle(Absent, Absent)

(* The answer of get_image is any URL, or none.                            *)
ImageFound(u) ==
  /\ waiting.call = "get_image"
  /\ IF u = Absent THEN Settle(Absent, Absent) ELSE Process(u)

(* download_as_base64: the status, the announced and the real length.      *)
MAX == 1

Responses == [ok : BOOLEAN, announced : {Absent, MAX, MAX + 1}, length : {MAX, MAX + 1}]

HeaderFits(r) == r.ok /\ r.announced # MAX + 1

Fits(r) == r.ok /\ r.announced # MAX + 1 /\ r.length <= MAX

Downloaded(r) ==
  /\ waiting.call = "download"
  /\ Settle(waiting.on, IF Fits(r) THEN Content(waiting.on, r.length) ELSE Absent)

(* No connection, a timeout, or one in the middle of the body.             *)
DownloadFails ==
  /\ waiting.call = "download"
  /\ Settle(waiting.on, Absent)

-----------------------------------------------------------------------------
(* extract_text_image_urls: what one expression after the other matches in *)
(* the text, each URL once.  A step is for one expression and one URL.     *)
LinksIn(text) ==
  LET urls[k \in 0 .. Len(LinkKinds) * Len(text)] ==
        IF k = 0 THEN <<>>
        ELSE LET url == text[((k - 1) % Len(text)) + 1]
                 re  == LinkKinds[((k - 1) \div Len(text)) + 1]
             IN  IF url \in re /\ ~Contains(urls[k - 1], url)
                   THEN Append(urls[k - 1], url) ELSE urls[k - 1]
  IN  urls[Len(LinkKinds) * Len(text)]

ReadText ==
  /\ Ready("segments") /\ todo = <<>>
  /\ stage' = "links"
  /\ todo' = LinksIn(post.links)
  /\ UNCHANGED <<recognition, mode, post, quotes, waiting, results, tried>>

Known(u) == Contains(results, Link(u))

TakeLink ==
  /\ Ready("links") /\ todo # <<>>
  /\ IF Known(Head(todo))
       THEN /\ todo' = Tail(todo)
            /\ UNCHANGED <<recognition, mode, post, stage, quotes, waiting, results, tried>>
       ELSE Process(Head(todo))

(* The quoted messages, if the message has not given an image of its own.  *)
QuotesToo == post.quoted # <<>>

LooksAtQuotes == results = <<>> /\ post.quoted # <<>>

OwnDone ==
  /\ Ready("links") /\ todo = <<>>
  /\ IF LooksAtQuotes
       THEN stage' = "quoted" /\ quotes' = post.quoted
       ELSE stage' = "over" /\ UNCHANGED quotes
  /\ UNCHANGED <<recognition, mode, post, todo, waiting, results, tried>>

(* get_msg for the next quoted message: its image segments, or a failure   *)
(* (an id that is no number counts as one).                                *)
GetMsg ==
  /\ Ready("quoted") /\ todo = <<>> /\ quotes # <<>>
  /\ todo' = Head(quotes)
  /\ quotes' = Tail(quotes)
  /\ UNCHANGED <<recognition, mode, post, stage, waiting, results, tried>>

GetMsgFails ==
  /\ Ready("quoted") /\ todo = <<>> /\ quotes # <<>>
  /\ quotes' = Tail(quotes)
  /\ UNCHANGED <<recognition, mode, post, stage, todo, waiting, results, tried>>

QuotesDone ==
  /\ Ready("quoted") /\ todo = <<>> /\ quotes = <<>>
  /\ stage' = "over"
  /\ UNCHANGED <<recognition, mode, post, todo, quotes, waiting, results, tried>>

IntakeStep ==
  \/ TakeSegment \/ (\E u \in Urls \cup {Absent} : ImageFound(u))
  \/ (\E r \in Responses : Downloaded(r)) \/ DownloadFails
  \/ ReadText \/ TakeLink \/ OwnDone
  \/ GetMsg \/ GetMsgFails \/ QuotesDone

Over == stage = "over" /\ UNCHANGED intakeVars

IntakeNext == IntakeStep \/ Over

IntakeSpec == IntakeInit /\ [][IntakeNext]_intakeVars

-----------------------------------------------------------------------------
(* Types; the handler awaits one call at a time, for the item it is at.    *)
IntakeTypeOK ==
  /\ recognition \in BOOLEAN /\ mode \in {"url", "base64"} /\ post \in Posts
  /\ stage \in {"segments", "links", "quoted", "over"}
  /\ todo \in Seq(IF stage = "links" THEN Urls ELSE Segments)
  /\ quotes \in Seq(Seq(Segments))
  /\ waiting # Idle => todo # <<>>
  /\ \/ waiting = Idle
     \/ waiting.call = "download" /\ waiting.on \in Urls
     \/ waiting.call = "get_image" /\ waiting.on \in Names /\ stage # "links"
  /\ \A i \in DOMAIN tried : tried[i].url \in Urls \cup {Absent}

At(s) == {i \in DOMAIN tried : tried[i].stage = s}

(* The images that a stage has given, by what was noted of its items.      *)
ImagesIn(notes, s) ==
  LET images[n \in 0 .. Len(notes)] ==
        IF n = 0 THEN <<>>
        ELSE IF notes[n].stage = s /\ notes[n].image # Absent
               THEN Append(images[n - 1], notes[n].image) ELSE images[n - 1]
  IN  images[Len(notes)]

Had(s) == ImagesIn(tried, s)

Own == Had("segments") \o Had("links")

(* A URL that the model already gets as a link is not added again from the *)
(* text, however many of the expressions match it.  (What was downloaded   *)
(* is not compared: in the mode "base64", and for the CDN, a URL in a      *)
(* segment and in the text is fetched and sent twice.)                     *)
NoLinkTwice ==
  \A u \in Urls :
    LET at == {i \in DOMAIN results : results[i] = Link(u)}
    IN  Cardinality(at) > 1 => ~Contains(Had("links"), Link(u))

(* README "提取消息中的图片 URL 发送给 LLM", "支持多图": one image that is     *)
(* refused, unknown or cannot be fetched costs no other one.  The images   *)
(* are those that could be had, in the order of the segments and links;    *)
(* those of quoted messages count only if the message itself gives none.   *)
AllImagesTried ==
  stage = "over" /\ recognition =>
    /\ results = IF Own # <<>> THEN Own ELSE Had("quoted")
    /\ Cardinality(At("segments")) = Len(post.segments)
    /\ \A u \in ToSet(LinksIn(post.links)) :
         Contains(results, Link(u)) \/ \E i \in DOMAIN tried : tried[i].url = u /\ tried[i].stage = "links"
    /\ Own # <<>> => At("quoted") = {}
    /\ NoLinkTwice

(* On whatever way a URL was found, one that is refused is neither fetched *)
(* nor passed on, and no content beyond MAX_IMAGE_BYTES goes to the model, *)
(* whatever length the server announced.                                   *)
OnlyAcceptableImages ==
  /\ waiting.call = "download" => waiting.on \notin Refused
  /\ \A i \in DOMAIN results :
       /\ results[i][2] \notin Refused
       /\ results[i][1] = "content" => results[i][3] <= MAX
=============================================================================
