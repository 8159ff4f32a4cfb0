---------------------------- MODULE MCChatPage ----------------------------
EXTENDS ChatPage
=============================================================================
