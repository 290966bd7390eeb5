------------------------ MODULE MCNotificationOutbox ------------------------
(* NotificationOutbox for TLC.                                              *)
EXTENDS NotificationOutbox, TLC

\* Every adapter a deployment can be configured with.
AllAdapters == {"FEISHU", "LOCAL_TEST"}
=============================================================================
