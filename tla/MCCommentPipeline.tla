---------------------------- MODULE MCCommentPipeline ----------------------------
(* Three comments, an operator who retries an answer.                        *)
EXTENDS CommentPipeline

CONSTANT r1
================================================================================
