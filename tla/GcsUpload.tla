----------------------------- MODULE GcsUpload -----------------------------
(***************************************************************************)
(* The GCS destination (dest/gcs): a resumable session takes the chunks in *)
(* order; the last one turns what it holds into the object.  A checkpoint  *)
(* is trusted without asking the server.                                   *)
(***************************************************************************)
EXTENDS UploadAttempt

VARIABLE sessions

NoSession == [st |-> "none", is |-> Empty]
GcsTypeOK ==
    sessions \in [Sessions -> [st : {"none", "open", "done", "gone"},
                               is : Contents]]
GcsInit == sessions = [s \in Sessions |-> NoSession]

gcs == <<sessions>>

\* GcsResumeToken::matches: bucket and object are fixed here.
GcsMatches(tok, v) == tok.ver = v

GcsBegin ==
    /\ \/ SizeOf[src] = 0 /\ Start("put", 0, 0, FALSE)
       \/ SizeOf[src] > 0 /\ GcsMatches(row, src)
          /\ Start("hash", IF row.done < SizeOf[src] THEN row.done ELSE SizeOf[src],
                   row.sess, TRUE)
       \/ SizeOf[src] > 0 /\ ~GcsMatches(row, src) /\ Start("init", 0, 0, FALSE)
    /\ UNCHANGED gcs

\* An empty object needs no session (uploadType=media).
GcsPutEmpty ==
    /\ At("put") /\ Readable(Size) /\ BodySent /\ obj' = Body
    /\ UNCHANGED <<setting, src, durable, bounds, gcs>>

\* init_session.  A session that neither the row nor the attempt names is
\* forgotten by everyone, so its number is used again.
Opened(s) ==
    /\ s # row.sess /\ \A r \in Sessions \ {row.sess} : s <= r
    /\ sessions' = [sessions EXCEPT ![s] = [st |-> "open", is |-> Empty]]

InitSession ==
    /\ At("init")
    /\ \E s \in Sessions :
         /\ Opened(s)
         /\ at' = [at EXCEPT !.pc = "hash", !.pos = 0, !.sess = s]
    /\ UNCHANGED <<setting, src, durable, obj, bounds>>

\* Mutant: the checkpoint runs ahead of the chunk that is being sent.
GcsSave_Ahead == SaveRow(Token(at.ver, PieceEnd, at.sess)) /\ UNCHANGED gcs

GcsSave == SaveRow(Token(at.ver, at.pos, at.sess)) /\ UNCHANGED gcs

(***************************************************************************)
(* The session (external).  It keeps what it has and takes what is new of  *)
(* a chunk that starts no later than its end; any prefix of it may be all  *)
(* it keeps, and the answer (308) says so.                                 *)
(***************************************************************************)
Taken(s, m) ==
    LET c == sessions[s].is
        n == IF m > c.len THEN m ELSE c.len
        d == [len |-> n, bytes |-> Spliced(c.bytes, c.len, n, src)]
    IN IF n = Size
       THEN /\ sessions' = [sessions EXCEPT ![s] = [st |-> "done", is |-> d]]
            /\ obj' = Object(d)
       ELSE /\ sessions' = [sessions EXCEPT ![s].is = d] /\ UNCHANGED obj

Sending == At("send") /\ at.pos < Size /\ Readable(PieceEnd)
Fits == sessions[at.sess].st = "open" /\ at.pos <= sessions[at.sess].is.len

\* send_chunk: 2xx, or 308 with the whole chunk kept.
GcsSend ==
    /\ Sending /\ Fits /\ Taken(at.sess, PieceEnd) /\ PieceSent
    /\ UNCHANGED <<setting, src, durable, bounds>>

\* A finished upload answers with its object again.
GcsSendAgain ==
    /\ Sending /\ sessions[at.sess].st = "done" /\ PieceSent
    /\ UNCHANGED <<setting, src, durable, obj, bounds, gcs>>

\* 308 with fewer bytes than were sent: a warning is logged.
GcsSendShort ==
    /\ Sending /\ Fits /\ Lose
    /\ \E m \in Units : at.pos < m /\ m < PieceEnd /\ Taken(at.sess, m)
    /\ PieceSent
    /\ UNCHANGED <<setting, src, durable>>

\* A chunk beyond the end of what the session holds is turned down.
GcsSendGap ==
    /\ Sending /\ sessions[at.sess].st = "open" /\ ~Fits
    /\ \E o \in Outcomes : Go(o)
    /\ UNCHANGED <<setting, src, durable, obj, bounds, gcs>>

\* The session expires: 404 or 410 from then on.
GcsExpire ==
    /\ Lose
    /\ \E s \in Sessions : sessions[s].st \in {"open", "done"}
                           /\ sessions' = [sessions EXCEPT ![s] =
                                [st |-> "gone", is |-> Empty]]
    /\ UNCHANGED <<setting, src, durable, obj, at>>

\* Mutant: a resumed upload whose session is gone fails like a fresh one.
GcsGone_Fails ==
    /\ Sending /\ sessions[at.sess].st = "gone" /\ Go("failed")
    /\ UNCHANGED <<setting, src, durable, obj, bounds, gcs>>

\* SessionErr::Gone: a resumed upload starts over with a new session.
GcsGone ==
    /\ Sending /\ sessions[at.sess].st = "gone"
    /\ Go(IF at.resuming THEN "forget" ELSE "failed")
    /\ UNCHANGED <<setting, src, durable, obj, bounds, gcs>>

GcsForget ==
    /\ At("forget") /\ Save(NoToken)
    /\ at' = [at EXCEPT !.pc = "init", !.resuming = FALSE, !.hash = NoBytes]
    /\ UNCHANGED <<setting, src, phase, tries, obj, gcs>>

GcsSent == AllSent("clear") /\ UNCHANGED gcs

GcsRefused == Refused({"put", "init", "send", "verify"}) /\ UNCHANGED gcs

\* What a request in flight does at the server, if it gets there.
GcsEffect ==
    \/ UNCHANGED <<obj, gcs>>
    \/ At("put") /\ Readable(Size) /\ obj' = Body /\ UNCHANGED gcs
    \/ At("init") /\ (\E s \in Sessions : Opened(s)) /\ UNCHANGED obj
    \/ Sending /\ Fits /\ Taken(at.sess, PieceEnd)

GcsLostAnswer ==
    (At("put") \/ At("init") \/ Sending) /\ Lost /\ GcsEffect
GcsCut == Cut /\ GcsEffect

\* Metadata with size and crc32c, or a download: both show the object.
GcsVerify == VerifyObject /\ UNCHANGED gcs

\* DELETE of the session URI; 404 and 410 are as good.
GcsAbort ==
    /\ At("abort") /\ Go("drop")
    /\ \/ Drop
          /\ sessions' = [s \in Sessions |->
                IF s = row.sess /\ sessions[s].st = "open"
                THEN [st |-> "gone", is |-> Empty] ELSE sessions[s]]
       \/ Fail /\ UNCHANGED gcs
    /\ UNCHANGED <<setting, src, durable, obj>>

GcsWork == \/ GcsBegin \/ GcsPutEmpty \/ InitSession \/ GcsSave \/ GcsSend
           \/ GcsSendAgain \/ GcsSendGap \/ GcsGone \/ GcsForget \/ GcsSent
           \/ GcsVerify \/ GcsAbort
GcsFault == GcsSendShort \/ GcsExpire \/ GcsRefused \/ GcsLostAnswer \/ GcsCut

\* The session holds what the checkpoint says it holds.
GcsHeld(tok) ==
    /\ tok.sess # 0
    /\ \/ /\ sessions[tok.sess].st = "open"
          /\ tok.done <= sessions[tok.sess].is.len
          /\ sessions[tok.sess].is.bytes =
               Prefix(tok.ver, sessions[tok.sess].is.len)
       \/ sessions[tok.sess].st = "done" /\ obj = Object(Whole(tok.ver))
=============================================================================
