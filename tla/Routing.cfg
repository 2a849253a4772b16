SPECIFICATION Spec
CONSTANTS
  Domains <- MCDomains
  Addresses <- MCAddresses
  AddressOf <- MCAddressOf
  Feed <- MCFeed
  Starts <- MCStarts
  Drafts <- MCDrafts
  GroupDrafts <- MCGroupDrafts
  Pools <- MCPools
CHECK_DEADLOCK FALSE
INVARIANTS TypeOK RulesMeanWhatWasChosen OneRulePerUserAndGroup SubscriptionFollowsItsAddresses
  ConfigFollowsTables RulesDecide NobodyElsesRule MeteringMovesNothing
PROPERTIES RefreshOnlyAdds
