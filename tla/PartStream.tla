----------------------------- MODULE PartStream -----------------------------
(***************************************************************************)
(* pkg/upload, uploadPart: one part streamed through tar, zstd and the     *)
(* backend's writer, with a progress tracker beside it.                    *)
(*                                                                         *)
(* The zstd encoder is asynchronous: it takes the next block while a       *)
(* goroutine of its own still writes the last one, and only its Close      *)
(* waits for that goroutine.  uploadPart's error paths do not call Close.  *)
(***************************************************************************)
EXTENDS MultipartWriter

VARIABLES
  stage,    \* where uploadPart stands
  result,   \* what it is going to return
  block,    \* the encoder holds a block that it has not begun to write
  fed,      \* history: the stream was walked to its end
  quit,     \* the tracker's quit channel is closed
  ticker,   \* the tracker's goroutine: "run" or "gone"
  line      \* the last line the tracker has printed

streamVars  == <<stage, result, block, fed>>
trackerVars == <<quit, ticker, line>>
partVars    == <<streamVars, trackerVars>>

StreamInit ==
  /\ Init
  /\ stage = "stream" /\ result = "err" /\ block = FALSE /\ fed = FALSE
  /\ quit = FALSE /\ ticker = "run" /\ line = "tick"

-----------------------------------------------------------------------------

(* The encoder, or tar above it, hands over a block; there is room for one *)
(* that waits beside the one that is written.                              *)
Feed ==
  /\ stage = "stream" /\ ~block /\ pc # "werr"
  /\ produced + left < MaxBytes
  /\ block' = TRUE
  /\ UNCHANGED <<stage, result, fed, trackerVars, vars>>

(* The encoder's goroutine calls bw.Write.  It is not told of an Abort.    *)
WriteBlock ==
  /\ block
  /\ \E n \in 1..MaxBytes : WriteCall(n)
  /\ block' = FALSE
  /\ UNCHANGED <<stage, result, fed, trackerVars>>

(* Faulty variant: a failed stream is closed like a whole one.             *)
StreamFailsCloses ==
  /\ stage \in {"stream", "flush"}
  /\ stage' = "close"
  /\ block' = FALSE
  /\ UNCHANGED <<result, fed, trackerVars, vars>>

(* tarTree, tw.Close or zstdEnc.Close fail, also by an earlier failure of  *)
(* bw.Write: return, by way of the deferred calls, the tracker's Stop      *)
(* first.                                                                  *)
StreamFails ==
  /\ stage \in {"stream", "flush"}
  /\ stage' = "stop"
  /\ UNCHANGED <<result, block, fed, trackerVars, vars>>

(* tarTree and tw.Close succeed.                                           *)
StreamEnds ==
  /\ stage = "stream"
  /\ stage' = "flush"
  /\ fed' = TRUE
  /\ UNCHANGED <<result, block, trackerVars, vars>>

(* zstdEnc.Close: every block has been written.                            *)
Flush ==
  /\ stage = "flush" /\ ~block /\ pc = "idle"
  /\ stage' = "close"
  /\ UNCHANGED <<result, block, fed, trackerVars, vars>>

(* bw.Close is called, and returns.                                        *)
CloseWriter ==
  /\ stage = "close"
  /\ CloseCall
  /\ UNCHANGED partVars

Closed ==
  /\ stage = "close" /\ pc \in {"closed", "closeErr"}
  /\ stage' = "stop"
  /\ result' = IF pc = "closed" THEN "ok" ELSE "err"
  /\ UNCHANGED <<block, fed, trackerVars, vars>>

(* Tracker.Stop, close(t.quit).                                            *)
StopCall ==
  /\ stage = "stop" /\ ~quit
  /\ quit' = TRUE
  /\ UNCHANGED <<streamVars, ticker, line, vars>>

(* Faulty variant: Abort is not deferred.                                  *)
StopSkipsAbort ==
  /\ stage = "stop" /\ quit /\ ticker = "gone"
  /\ line' = "done"
  /\ stage' = "returned"
  /\ UNCHANGED <<result, block, fed, quit, ticker, vars>>

(* <-t.done and the last report.  The deferred Abort comes next; a writer  *)
(* that was closed ignores it.                                             *)
Stop ==
  /\ stage = "stop" /\ quit /\ ticker = "gone"
  /\ line' = "done"
  /\ stage' = IF closing THEN "returned" ELSE "abort"
  /\ UNCHANGED <<result, block, fed, quit, ticker, vars>>

(* run: both channels may be ready, and then either may be taken.          *)
Tick ==
  /\ ticker = "run"
  /\ line' = "tick"
  /\ UNCHANGED <<streamVars, quit, ticker, vars>>

Quit ==
  /\ ticker = "run" /\ quit
  /\ ticker' = "gone"
  /\ UNCHANGED <<streamVars, quit, line, vars>>

(* The deferred Abort is called, and returns.                              *)
AbortWriter ==
  /\ stage = "abort"
  /\ AbortCall
  /\ UNCHANGED partVars

Aborted ==
  /\ stage = "abort" /\ term = "aborted"
  /\ stage' = "returned"
  /\ UNCHANGED <<result, block, fed, trackerVars, vars>>

StreamNext ==
  \/ Feed \/ WriteBlock \/ StreamFails \/ StreamEnds \/ Flush
  \/ CloseWriter \/ Closed \/ AbortWriter \/ Aborted
  \/ StopCall \/ Stop \/ Tick \/ Quit
  \/ /\ Internal \/ Cancel \/ \E b \in Buffers : OtherGet(b) \/ OtherPut(b)
     /\ UNCHANGED partVars

StreamSpec == StreamInit /\ [][StreamNext]_<<vars, partVars>>

-----------------------------------------------------------------------------

(* An object becomes visible only if the stream was walked to its end and  *)
(* every block of it was written: a walk or an encoder that fails commits  *)
(* nothing ("Abort by default; only commit (Close) once we've finished     *)
(* writing", uploadPart).                                                  *)
OnlyWholeStreams == object # Old => fed /\ ~block /\ left = 0

(* When uploadPart returns, its writer was terminated and its tracker's    *)
(* last line is the summary, after which nothing is printed; and it        *)
(* returns a part only if the object is visible.  No multipart upload is   *)
(* abandoned, though the encoder's goroutine may still run (backend.go,    *)
(* Writer: "must be terminated"; progress.go, Stop).                       *)
ReturnsClean ==
  stage = "returned" =>
    /\ pc \in {"closed", "closeErr"} \/ term = "aborted"
    /\ line = "done"
    /\ result = "ok" => object # Old

=============================================================================
