--------------------------- MODULE DouyinEndpoints ---------------------------
(***************************************************************************)
(* The calls of the Douyin SDK (internal/sdk/douyin).  Every one has the   *)
(* same control (module DouyinApi); what is its own is recorded here: the  *)
(* HTTP method, the state of the platform it works on, whether it changes  *)
(* it, and the checks of its arguments, by name, that must hold before     *)
(* anything is sent.                                                       *)
(***************************************************************************)


Call(verb, on, writes, checks) ==
  [verb |-> verb, on |-> on, writes |-> writes, checks |-> checks,
   partial |-> FALSE, \* a success may name rooms that failed
   strict |-> TRUE]   \* a 200 whose body does not decode is an error
Read(verb, on, checks) == Call(verb, on, FALSE, checks)
Write(on, checks) == Call("POST", on, TRUE, checks)

\* live.go
LiveStartPushTask     == Write("push_task", {"roomID", "appID", "msgType"})
LiveStopPushTask      == Write("push_task", {"roomID", "appID", "msgType"})
LiveGetPushTaskStatus == Read("GET", "push_task", {"roomID", "appID", "msgType"})
LiveGetPushFailData   == Read("GET", "push_data", {"roomID", "appID", "msgType", "pageNum >= 1", "pageSize in 1..max"})
LiveDataAck           == Write("push_data", {"ackType in 1..2", "appID", "roomID", "items"})
LiveGetFansClubInfo   == Read("GET", "fans_club", {"anchorOpenID", "roomID", "userOpenIDs in 1..max"})
LiveGetWebcastMateInfo == Read("POST", "mate_info", {"token"})

\* live_coplay.go
LiveLinkmicQuery              == Read("POST", "linkmic", {"appID", "roomID"})
LiveAudienceJoinGame          == Write("game", {"body", "app_id", "open_id", "room_id"})
LiveAudienceLeaveGame         == Write("game", {"body", "app_id", "open_id", "room_id"})
LiveCoGameUploadUserData      == [Write("user_data", {"body", "anchor_infos"}) EXCEPT !.partial = TRUE]
LiveAnchorLinkmicPrepare      == Write("anchor_linkmic", {"body", "app_id", "room_id"})
LiveAnchorLinkmicCreate       == Write("anchor_linkmic", {"body", "app_id", "room_id", "rooms"})
LiveAnchorLinkmicRelease      == Write("anchor_linkmic", {"body", "app_id", "link_id", "room_id"})
LiveAnchorLinkmicQuery        == Read("POST", "anchor_linkmic", {"body", "app_id", "link_id", "room_id"})
LiveAnchorLinkmicAnchorLeave  == Write("anchor_linkmic", {"body", "app_id", "link_id", "room_id"})
LiveAnchorLinkmicUpdateVoice  == Write("anchor_linkmic", {"body", "app_id", "link_id or link_id_str", "user_infos"})

\* live_match.go
LiveMatchRound == {"body", "anchor_open_id", "app_id", "room_id", "round_id"}
LiveMatchSyncRoundStatus          == Write("round", LiveMatchRound)
LiveMatchUploadRoundUserResult    == Write("round_result", LiveMatchRound \cup {"user_list in 1..max"})
LiveMatchCompleteUploadUserResult == Write("round_result", LiveMatchRound \cup {"complete_time > 0"})
LiveMatchUploadRoundRankList      == Write("round_rank", LiveMatchRound \cup {"rank_list in 1..max"})
LiveMatchUploadUserGroupInfo      == Write("user_group", {"body", "app_id", "group_id", "open_id", "room_id", "round_id"})

\* live_rank.go
LiveWorldRankUploadRankList   == Write("world_rank", {"body", "app_id", "rank_list in 1..max"})
LiveWorldRankUploadUserResult == Write("world_result", {"body", "app_id", "user_list in 1..max"})
LiveWorldRankCompleteUploadUserResult == Write("world_result", {"body", "app_id", "complete_time > 0"})
LiveWorldRankSetValidVersion  == Write("world_version", {"body", "app_id", "world_rank_version"})

\* live_quiz.go: num, type and a level that is too high are corrected, a negative level is not.
LiveQuizGet == Read("GET", "quiz", {"level >= 0"})

\* client.go: without a respBody the body of a 200 is looked at for an err_no only.
MiniAppPostJSON(respBody) == [Write("mini_app", {"path"}) EXCEPT !.strict = respBody]

Endpoints ==
  {LiveStartPushTask, LiveStopPushTask, LiveGetPushTaskStatus, LiveGetPushFailData, LiveDataAck,
   LiveGetFansClubInfo, LiveGetWebcastMateInfo, LiveLinkmicQuery, LiveAudienceJoinGame,
   LiveAudienceLeaveGame, LiveCoGameUploadUserData, LiveAnchorLinkmicPrepare,
   LiveAnchorLinkmicCreate, LiveAnchorLinkmicRelease, LiveAnchorLinkmicQuery,
   LiveAnchorLinkmicAnchorLeave, LiveAnchorLinkmicUpdateVoice, LiveMatchSyncRoundStatus,
   LiveMatchUploadRoundUserResult, LiveMatchCompleteUploadUserResult,
   LiveMatchUploadRoundRankList, LiveMatchUploadUserGroupInfo, LiveWorldRankUploadRankList,
   LiveWorldRankUploadUserResult, LiveWorldRankCompleteUploadUserResult,
   LiveWorldRankSetValidVersion, LiveQuizGet, MiniAppPostJSON(TRUE), MiniAppPostJSON(FALSE)}

Resources == {e.on : e \in Endpoints}
=============================================================================
