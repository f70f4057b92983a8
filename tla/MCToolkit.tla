------------------------------ MODULE MCToolkit ------------------------------
(***************************************************************************)
(* The parts that do not interact, one at a time: unit says which; the     *)
(* others stay in a state in which nothing is under way.                   *)
(***************************************************************************)
EXTENDS DouyinApi

CONSTANTS Writers, PendingLength, MaxWrites, Listeners, MaxVersion, MaxTotal, MaxPar,
          Ops, Handlers, MaxFrames, MaxManagers, MaxConns

VARIABLES
  unit,
  writing, writes, queue, buffer, disk, background, flusher, cancelled, accepted, before, dropped, gaveUp,
  version, ch, chans, closedChans, last, waitsOn,
  total, perBatch, worker, idx, processed, errored, count, quit, result,
  encoder, decoder, compressor, encryptor, limit, flags, stream, encoded, received, routes,
  connections, started, stopped, manager, dial, made, conns

logVars == <<writing, writes, queue, buffer, disk, background, flusher, cancelled, accepted, before, dropped, gaveUp>>
notifierVars == <<version, ch, chans, closedChans, last, waitsOn>>
parVars == <<total, perBatch, worker, idx, processed, errored, count, quit, result>>
frameVars == <<encoder, decoder, compressor, encryptor, limit, flags, stream, encoded, received, routes>>
connVars == <<connections, started, stopped, manager, dial, made, conns>>
allVars == <<unit, vars, logVars, notifierVars, parVars, frameVars, connVars>>

Log == INSTANCE AsyncLog
Notifying == INSTANCE Notifier
Batches == INSTANCE Parallel
Frames == INSTANCE FramePipeline
Conn == INSTANCE Connector

Units == {"api", "log", "notifier", "batches", "frames", "conn"}

\* No call, no frame and no batch in an idle unit.
MCInit ==
  /\ unit \in Units
  /\ Init /\ (unit # "api" => resource = "quiz")
  /\ Log!Init /\ Conn!Init
  /\ Notifying!Init /\ (unit # "notifier" => \A l \in Listeners : last[l] = 0)
  /\ Batches!Init /\ (unit # "batches" => total = 0)
  /\ Frames!Init
  /\ unit # "frames" => /\ encoder = decoder /\ ~encoder.compress /\ ~encoder.encrypt
                        /\ compressor = "nop" /\ encryptor = "nop" /\ limit = 1

apiIdle == UNCHANGED vars
logIdle == UNCHANGED logVars
notifierIdle == UNCHANGED notifierVars
batchesIdle == UNCHANGED parVars
framesIdle == UNCHANGED frameVars
connIdle == UNCHANGED connVars

MCNext ==
  /\ UNCHANGED unit
  /\ \/ unit = "api" /\ Next /\ logIdle /\ notifierIdle /\ batchesIdle /\ framesIdle /\ connIdle
     \/ unit = "log" /\ Log!Next /\ apiIdle /\ notifierIdle /\ batchesIdle /\ framesIdle /\ connIdle
     \/ unit = "notifier" /\ Notifying!Next /\ apiIdle /\ logIdle /\ batchesIdle /\ framesIdle /\ connIdle
     \/ unit = "batches" /\ Batches!Next /\ apiIdle /\ logIdle /\ notifierIdle /\ framesIdle /\ connIdle
     \/ unit = "frames" /\ Frames!Next /\ apiIdle /\ logIdle /\ notifierIdle /\ batchesIdle /\ connIdle
     \/ unit = "conn" /\ Conn!Next /\ apiIdle /\ logIdle /\ notifierIdle /\ batchesIdle /\ framesIdle

\* The fair actions of an idle unit are never enabled.
MCSpec == MCInit /\ [][MCNext]_allVars /\ Batches!Fairness /\ Conn!Fairness

\* The properties of the units, under their own names; an idle unit has them too.
StopFlushes == Log!StopFlushes
NoLostNotification == Notifying!NoLostNotification
DecodeInvertsEncode == Frames!DecodeInvertsEncode
ReturnsFaithfully == Batches!ReturnsFaithfully
ReplacedDisconnects == Conn!ReplacedDisconnects
=============================================================================
