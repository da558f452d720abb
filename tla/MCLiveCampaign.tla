---------------------------- MODULE MCLiveCampaign ----------------------------
EXTENDS LiveCampaign
=============================================================================
