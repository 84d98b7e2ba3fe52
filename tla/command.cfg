SPECIFICATION CommandSpec
CONSTANTS
  Word <- Words
  Path <- Paths
  BaseName <- BaseOf
  Rank <- RankOf
  MaxChanges = 2
  NumberOf <- Numbers
  Braced = {"a}b"}
  Arguments <- AllArguments
  Dashed <- Dashes
  EndpointOf <- Endpoints
  InitialFiles <- Texts
INVARIANTS
  ArgumentsAreObeyed
  InitLeavesDefaults
  UntouchedIsAnnounced
  AnnouncementIsCreatable
PROPERTY ServeEndsWithItsService
