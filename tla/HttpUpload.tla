----------------------------- MODULE HttpUpload -----------------------------
(***************************************************************************)
(* The HTTP destination (dest/http): one request with the whole body, or   *)
(* ranged PUTs straight onto the final URL, resumed where a HEAD says that *)
(* the server's copy ends.                                                 *)
(***************************************************************************)
EXTENDS UploadAttempt

\* ranged: HttpDest.resumable.  heads: the server answers HEAD with a length.
\* presize: the first range makes the object as long as its total.
VARIABLE site

http == <<site>>
Sites == [ranged : BOOLEAN, heads : BOOLEAN, presize : BOOLEAN]
HttpTypeOK == site \in Sites

\* build: POST is never resumable, and PUT unless configured otherwise.
Resumable(method, configured) == method = "put" /\ configured
HttpInit ==
    IF backend = "http"
    THEN \E method \in {"put", "post"}, c \in BOOLEAN, h \in BOOLEAN, p \in BOOLEAN :
           site = [ranged |-> Resumable(method, c), heads |-> h, presize |-> p]
    ELSE site = [ranged |-> FALSE, heads |-> FALSE, presize |-> FALSE]

\* HttpResumeToken::matches: the URL is fixed here.
HttpMatches(tok, v) == tok.ver = v

HttpOffset == IF ~HttpMatches(row, src) THEN 0
              ELSE IF row.done < SizeOf[src] THEN row.done ELSE SizeOf[src]
HttpBegin ==
    /\ IF site.ranged /\ SizeOf[src] > 0
       THEN Start(IF HttpOffset > 0 THEN "head" ELSE "hash", HttpOffset, 0, FALSE)
       ELSE Start("put", 0, 0, FALSE)
    /\ UNCHANGED http

\* One request with the whole body; an empty file may be one empty range,
\* which replaces nothing.
Written == obj' = IF site.ranged THEN Object(obj.is) ELSE Body
HttpPut ==
    /\ At("put") /\ Readable(Size) /\ BodySent /\ Written
    /\ UNCHANGED <<setting, src, durable, bounds, http>>

\* reconcile_remote_len: no further than the server's copy; from the start
\* if that is gone; as far as the checkpoint if the server does not say.
RemoteOffset(n) ==
    CASE ~site.heads -> n
      [] site.heads /\ ~obj.live -> 0
      [] site.heads /\ obj.live -> IF obj.is.len < n THEN obj.is.len ELSE n

HttpHead ==
    /\ At("head") /\ at' = [at EXCEPT !.pc = "hash", !.pos = RemoteOffset(@)]
    /\ UNCHANGED <<setting, src, durable, obj, bounds, http>>

HttpSave == SaveRow(Token(at.ver, at.pos, 0)) /\ UNCHANGED http

\* The server (external) writes the range over what it has.
Overwritten ==
    LET end == IF site.presize THEN Size ELSE PieceEnd
    IN obj' = Object([len |-> IF end > obj.is.len THEN end ELSE obj.is.len,
                      bytes |-> Spliced(obj.is.bytes, at.pos, PieceEnd, src)])

HttpSending == At("send") /\ at.pos < Size /\ Readable(PieceEnd)
HttpSend ==
    /\ HttpSending /\ Overwritten /\ PieceSent
    /\ UNCHANGED <<setting, src, durable, bounds, http>>

HttpSent == AllSent("clear") /\ UNCHANGED http

\* The server drops the object, or its end, while it is being uploaded.
HttpDiscard ==
    /\ at.pc \notin {"checkpoint", "mark"} /\ phase = "pending" /\ obj.live /\ Lose
    /\ \/ obj' = NoObject
       \/ /\ ~site.presize
          /\ \E n \in 0 .. MaxUnits :
               /\ n < obj.is.len
               /\ obj' = Object([len |-> n,
                                 bytes |-> Spliced(obj.is.bytes, n, MaxUnits, 0)])
    /\ UNCHANGED <<setting, src, durable, at, http>>

\* A HEAD that fails is an answer, unless it never came.
HttpRefused == Refused({"put", "send", "verify"}) /\ UNCHANGED http

HttpEffect ==
    \/ UNCHANGED obj
    \/ At("put") /\ Readable(Size) /\ Written
    \/ HttpSending /\ Overwritten

HttpLostAnswer ==
    /\ At("put") \/ At("head") \/ HttpSending
    /\ Lost /\ HttpEffect /\ UNCHANGED http
HttpCut == Cut /\ HttpEffect /\ UNCHANGED http

\* A size is checked with a HEAD: where that is not answered, with a 4xx.
HttpVerify ==
    /\ \/ (policy = "checksum" \/ site.heads) /\ VerifyObject
       \/ /\ policy = "size" /\ ~site.heads /\ At("verify") /\ Go("refused")
          /\ UNCHANGED <<setting, src, durable, obj, bounds>>
    /\ UNCHANGED http

\* DELETE of the URL, if the row says that something was sent.  404 and 405
\* are as good.
HttpAbort ==
    /\ At("abort") /\ Go("drop")
    /\ \/ row.done > 0 /\ obj' = NoObject /\ Drop
       \/ UNCHANGED <<obj, bounds>>
       \/ row.done > 0 /\ Fail /\ UNCHANGED obj
    /\ UNCHANGED <<setting, src, durable, http>>

HttpWork == \/ HttpBegin \/ HttpPut \/ HttpHead \/ HttpSave \/ HttpSend
            \/ HttpSent \/ HttpVerify \/ HttpAbort
HttpFault == HttpDiscard \/ HttpRefused \/ HttpLostAnswer \/ HttpCut

\* The object begins with what the checkpoint says was sent.
HttpHeld(tok) ==
    tok.done > 0 =>
      /\ obj.live /\ tok.done <= obj.is.len
      /\ \A u \in Units : u <= tok.done => obj.is.bytes[u] = tok.ver
=============================================================================
